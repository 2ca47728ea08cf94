----------------------------- MODULE JobProofs -----------------------------
(***************************************************************************)
(* ClusterManager implements Job, step by step, for any number of nodes,   *)
(* credits, blocks and ids: a task is handed out once at most, after a     *)
(* result has been processed for each of its operands, and the job is over *)
(* only when one has been for every task.  Whether that result was the     *)
(* task's own depends on the ids, and is for ClusterIdsProofs.             *)
(***************************************************************************)
EXTENDS ClusterManagerProofs, QueueLemmas

(* The forest: who is whose child.                                         *)
LEMMA TaskFields ==
  ASSUME NEW t \in Task
  PROVE  /\ t[1] \in 0..Subtrees - 1 /\ t[2] \in 0..2 * K - 2 /\ t = <<t[1], t[2]>>
         /\ t[2] \in Nat /\ K \in Nat \ {0}
BY KAssumption DEF Task

LEMMA ChildrenOfParent ==
  ASSUME NEW t \in Task, ~IsRoot(t)
  PROVE  /\ t \in Children(Parent(t)) /\ Sibling(t) # t
         /\ Children(Parent(t)) = {t, Sibling(t)}
         /\ Parent(t)[1] = t[1] /\ Parent(t)[2] > t[2]
<1> DEFINE i == t[1]
           n == t[2]
           h == n \div 2
           p == Parent(t)
<1>1. n \in Nat /\ n < 2 * K - 2 /\ K \in Nat \ {0} /\ t = <<i, n>> /\ h \in Nat
  BY TaskFields DEF IsRoot
<1>2. p = <<i, K + h>> /\ (n = 2 * h \/ n = 2 * h + 1)
  BY <1>1 DEF Parent
<1> HIDE DEF i, n, h
<1>3. p[1] = i /\ p[2] = K + h /\ p[2] - K = h /\ ~(p[2] < K)
  BY <1>1, <1>2
<1>4. K + h > n
  BY <1>1, <1>2
<1>5. Children(p) = {<<i, 2 * h>>, <<i, 2 * h + 1>>}
  BY <1>3 DEF Children, IsLeaf, LeftChild, RightChild
<1>6. t \in Children(p) /\ \E c \in Children(p) : c # t
  <2>1. <<i, 2 * h>> # <<i, 2 * h + 1>>
    BY <1>1
  <2> QED BY <1>1, <1>2, <1>5, <2>1
<1>7. Sibling(t) \in Children(p) /\ Sibling(t) # t
  BY <1>6 DEF Sibling
<1> QED BY <1>3, <1>4, <1>5, <1>6, <1>7 DEF i, n

LEMMA ParentOfChild ==
  ASSUME NEW u \in Task, NEW t \in Task, t \in Children(u)
  PROVE  ~IsRoot(t) /\ u = Parent(t)
<1>1. /\ u[1] \in 0..Subtrees - 1 /\ u[2] \in 0..2 * K - 2 /\ u = <<u[1], u[2]>> /\ K \in Nat \ {0}
      /\ u[2] \in Nat
  BY TaskFields
<1>2. ~IsLeaf(u) /\ t \in {LeftChild(u), RightChild(u)}
  BY DEF Children
<1> DEFINE i == u[1]
           m == u[2] - K
<1>3. m \in Nat /\ m <= K - 2 /\ u = <<i, K + m>>
  BY <1>1, <1>2 DEF IsLeaf
<1>4. t = <<i, 2 * m>> \/ t = <<i, 2 * m + 1>>
  BY <1>2 DEF LeftChild, RightChild
<1> HIDE DEF i, m
<1>5. t[1] = i /\ (t[2] = 2 * m \/ t[2] = 2 * m + 1)
  BY <1>4
<1>6. t[2] < 2 * K - 2 /\ t[2] \div 2 = m
  BY <1>1, <1>3, <1>5
<1> QED BY <1>1, <1>3, <1>5, <1>6 DEF IsRoot, Parent

(* The leaves are all ready at first, once each.                           *)
LEMMA InitialFacts ==
  /\ IsInjective(InitialTasks)
  /\ \A t \in Task : t \in Range(InitialTasks) <=> IsLeaf(t)
<1> DEFINE N == Subtrees * K
           q(n) == (n - 1) \div K
           m(n) == (n - 1) % K
<1>1. K \in Nat \ {0} /\ Subtrees \in Nat /\ N \in Nat
  BY KAssumption, SubtreesAssumption
<1>2. DOMAIN InitialTasks = 1..N /\ \A n \in 1..N : InitialTasks[n] = <<q(n), m(n)>>
  BY DEF InitialTasks
<1>3. \A n \in 1..N : q(n) \in Nat /\ m(n) \in 0..K - 1 /\ n - 1 = K * q(n) + m(n)
  BY <1>1
<1> HIDE DEF q, m
<1>4. IsInjective(InitialTasks)
  <2> SUFFICES ASSUME NEW n \in 1..N, NEW j \in 1..N, InitialTasks[n] = InitialTasks[j] PROVE n = j
    BY <1>2 DEF IsInjective
  <2>1. q(n) = q(j) /\ m(n) = m(j)
    BY <1>2
  <2> QED BY <1>1, <1>3, <2>1
<1>5. ASSUME NEW t \in Task, t \in Range(InitialTasks) PROVE IsLeaf(t)
  <2>1. PICK n \in 1..N : t = <<q(n), m(n)>>
    BY <1>2, <1>5 DEF Range
  <2> QED BY <1>1, <1>3, <2>1 DEF IsLeaf
<1>6. ASSUME NEW t \in Task, IsLeaf(t) PROVE t \in Range(InitialTasks)
  <2> DEFINE a == t[1]
             b == t[2]
             n == K * a + b + 1
  <2>1. a \in Nat /\ a <= Subtrees - 1 /\ b \in Nat /\ b < K /\ t = <<a, b>>
    BY <1>1, <1>6, TaskFields DEF IsLeaf
  <2> HIDE DEF a, b
  <2>2. K * a <= K * (Subtrees - 1)
    BY <1>1, <2>1
  <2>3. K * (Subtrees - 1) = N - K
    BY <1>1
  <2>4. K * a \in Nat
    BY <1>1, <2>1
  <2>5. n \in 1..N
    BY <1>1, <2>1, <2>2, <2>3, <2>4
  <2>6. (n - 1) \div K = a /\ (n - 1) % K = b
    BY <1>1, <2>1, <2>4
  <2>7. InitialTasks[n] = t
    BY <2>1, <2>5, <2>6 DEF InitialTasks
  <2> QED BY <1>2, <2>5, <2>7 DEF Range
<1> QED BY <1>4, <1>5, <1>6

(* Where everything below a finished task is finished, the roots are the   *)
(* last.                                                                   *)
LEMMA RootsAreLast ==
  ASSUME NEW F, \A t \in F : Children(t) \subseteq F,
         \A t \in Task : IsRoot(t) => t \in F
  PROVE  Task \subseteq F
<1> SUFFICES ASSUME NEW u \in Task, u \notin F PROVE FALSE
  OBVIOUS
<1> DEFINE S == {2 * K - 2 - t[2] : t \in {t \in Task : t \notin F}}
<1>1. K \in Nat \ {0}
  BY KAssumption
<1>2. S \subseteq Nat /\ S # {}
  <2>1. \A t \in Task : 2 * K - 2 - t[2] \in Nat
    BY <1>1, TaskFields
  <2> QED BY <2>1
<1>3. PICK d \in S : \A e \in S : d <= e
  BY <1>2, LeastOfSet
<1>4. PICK t \in Task : t \notin F /\ d = 2 * K - 2 - t[2]
  BY <1>3
<1>5. ~IsRoot(t)
  BY <1>4
<1>6. Parent(t) \in Task /\ Parent(t)[2] > t[2] /\ t \in Children(Parent(t))
  BY <1>4, <1>5, ParentIsTask, ChildrenOfParent
<1>7. Parent(t) \in F
  <2> SUFFICES ASSUME Parent(t) \notin F PROVE FALSE
    OBVIOUS
  <2>1. 2 * K - 2 - Parent(t)[2] \in S
    BY <1>6
  <2>2. d <= 2 * K - 2 - Parent(t)[2]
    BY <1>3, <2>1
  <2>3. t[2] \in Nat /\ Parent(t)[2] \in Nat
    BY <1>6, TaskFields
  <2> QED BY <1>1, <1>4, <1>6, <2>2, <2>3
<1> QED BY <1>4, <1>6, <1>7
-----------------------------------------------------------------------------
(* The task the writer has taken and has no credit for.                    *)
InHand == IF writer.at = "credit" THEN {writer.task} ELSE {}

(* A task that can be run: it has its operands, and was not run.           *)
Runnable(t) == Children(t) \subseteq finished /\ ~IsDropped(t)

RootsIn(S) == {i \in 0..Subtrees - 1 : <<i, 2 * K - 2>> \in S}

(* Every task is at one place at most on its way from ready to finished.   *)
ReadyInv ==
    /\ IsInjective(initial_tasks)
    /\ \A t \in Range(initial_tasks) \cup InHand : Runnable(t) /\ t \notin finished
    /\ \A t \in InHand : t \notin Range(initial_tasks)

OnFlyInv ==
    \A n \in DOMAIN on_fly_tasks :
        /\ Runnable(on_fly_tasks[n])
        /\ on_fly_tasks[n] \notin Range(initial_tasks) \cup InHand
        /\ \A m \in DOMAIN on_fly_tasks : on_fly_tasks[m] = on_fly_tasks[n] => m = n
        /\ on_fly_tasks[n] \in finished => reader.at = "erase" /\ n = reader.item

DoneInv ==
    /\ finished \subseteq Task
    /\ \A t \in Task : t \in finished => Children(t) \subseteq finished
    /\ \A t \in Task : IsDropped(t) => Children(t) \subseteq finished /\ t \notin finished
    /\ remaining_tasks = Subtrees - Cardinality(RootsIn(finished))

StopInv ==
    /\ stop \in BOOLEAN
    /\ stop => reader.at \in {"cleanup", "done"}
    /\ reader.at \in {"cleanup", "done"} => remaining_tasks = 0

JobInv == ReadyInv /\ OnFlyInv /\ DoneInv /\ StopInv

LEMMA RootCount ==
  ASSUME NEW F
  PROVE  /\ IsFiniteSet(RootsIn(F)) /\ Cardinality(RootsIn(F)) \in 0..Subtrees
         /\ Cardinality(RootsIn(F)) = Subtrees => \A t \in Task : IsRoot(t) => t \in F
<1> DEFINE R == RootsIn(F)
           I == 0..Subtrees - 1
<1>1. Subtrees \in Nat /\ IsFiniteSet(I) /\ Cardinality(I) = Subtrees
  <2>1. Subtrees \in Nat
    BY SubtreesAssumption
  <2>2. IsFiniteSet(I) /\ Cardinality(I) = IF 0 > Subtrees - 1 THEN 0 ELSE (Subtrees - 1) - 0 + 1
    BY <2>1, FS_Interval
  <2> QED BY <2>1, <2>2
<1>2. R \subseteq I
  BY DEF RootsIn
<1>3. /\ IsFiniteSet(R) /\ Cardinality(R) \in Nat /\ Cardinality(R) <= Cardinality(I)
      /\ Cardinality(R) = Cardinality(I) => R = I
  <2> HIDE DEF R, I
  <2> QED BY <1>1, <1>2, FS_Subset, FS_CardinalityType
<1>4. ASSUME R = I, NEW t \in Task, IsRoot(t) PROVE t \in F
  <2>1. t = <<t[1], 2 * K - 2>> /\ t[1] \in I
    BY <1>4, TaskFields DEF IsRoot
  <2> QED BY <1>4, <2>1 DEF RootsIn
<1> HIDE DEF R
<1>5. Cardinality(R) \in 0..Subtrees
  BY <1>1, <1>3
<1>6. Cardinality(R) = Subtrees => \A t \in Task : IsRoot(t) => t \in F
  BY <1>1, <1>3, <1>4
<1> QED BY <1>3, <1>5, <1>6 DEF R

(* When the roots are done, everything is.                                 *)
LEMMA AllDone ==
  ASSUME IInv, JobInv, remaining_tasks = 0
  PROVE  finished = Task
<1>1. Cardinality(RootsIn(finished)) = Subtrees
  <2>1. Cardinality(RootsIn(finished)) \in 0..Subtrees
    BY RootCount
  <2> QED BY <2>1, SubtreesAssumption DEF JobInv, DoneInv
<1>2. \A t \in Task : IsRoot(t) => t \in finished
  BY <1>1, RootCount
<1>3. \A t \in finished : Children(t) \subseteq finished
  BY DEF JobInv, DoneInv
<1> QED BY <1>2, <1>3, RootsAreLast DEF JobInv, DoneInv
-----------------------------------------------------------------------------
(* A step of the job, or none.                                             *)
JobStep == [TheJob!Next]_(TheJob!jobVars)

(* Job has a forest of its own, the same one.                              *)
LEMMA SameForest ==
  /\ TheJob!Task = Task
  /\ \A t : TheJob!Children(t) = Children(t)
BY DEF TheJob!Task, Task, TheJob!Children, Children, TheJob!IsLeaf, IsLeaf,
       TheJob!LeftChild, LeftChild, TheJob!RightChild, RightChild

LEMMA InitJobInv == Init => JobInv /\ TheJob!Init
<1> SUFFICES ASSUME Init PROVE JobInv /\ TheJob!Init
  OBVIOUS
<1>1. /\ initial_tasks = InitialTasks /\ on_fly_tasks = <<>> /\ finished = {}
      /\ dropped = [r \in Rpi |-> <<>>] /\ remaining_tasks = Subtrees /\ stop = FALSE
      /\ writer.at = "start" /\ reader.at = "start"
  BY DEF Init
<1>2. InHand = {} /\ DOMAIN on_fly_tasks = {}
  BY <1>1 DEF InHand
<1>3. \A t : ~IsDropped(t)
  BY <1>1 DEF IsDropped, Range
<1>4. \A t \in Task : t \in Range(initial_tasks) <=> Children(t) \subseteq {}
  <2>1. \A t \in Task : IsLeaf(t) <=> Children(t) \subseteq {}
    BY DEF Children
  <2> QED BY <1>1, <2>1, InitialFacts
<1>5. Range(initial_tasks) \subseteq Task /\ IsInjective(initial_tasks)
  BY <1>1, InitialAreTasks, InitialFacts, RangeOfSeq
<1>6. ReadyInv
  BY <1>1, <1>2, <1>3, <1>4, <1>5 DEF ReadyInv, Runnable
<1>7. OnFlyInv
  BY <1>2 DEF OnFlyInv
<1>8. DoneInv
  <2>1. RootsIn(finished) = {}
    BY <1>1 DEF RootsIn
  <2>2. Cardinality(RootsIn(finished)) = 0
    BY <2>1, FS_EmptySet
  <2> QED BY <1>1, <1>3, <2>2, SubtreesAssumption DEF DoneInv
<1>9. StopInv
  BY <1>1 DEF StopInv
<1>10. JobStatus = [t \in Task |-> "waiting"]
  BY <1>1, <1>3, <1>4 DEF JobStatus
<1>11. TheJob!Init
  BY <1>1, <1>10, SameForest DEF TheJob!Init
<1> QED BY <1>6, <1>7, <1>8, <1>9, <1>11 DEF JobInv

(* What moves no task is no step of the job.                               *)
LEMMA JobIdle ==
  ASSUME JobInv, UNCHANGED <<initial_tasks, on_fly_tasks, finished, remaining_tasks, dropped, stop>>,
         InHand' = InHand,
         \/ reader' = reader
         \/ /\ reader.at # "erase"
            /\ reader'.at \in {"cleanup", "done"} <=> reader.at \in {"cleanup", "done"}
  PROVE  JobInv' /\ JobStep
<1> USE DEF JobInv
<1>1. \A t : IsDropped(t)' = IsDropped(t) /\ Runnable(t)' = Runnable(t)
  BY DEF IsDropped, Runnable
<1>2. ReadyInv'
  BY <1>1 DEF ReadyInv
<1>3. OnFlyInv'
  BY <1>1 DEF OnFlyInv
<1>4. DoneInv'
  BY <1>1 DEF DoneInv
<1>5. StopInv'
  BY DEF StopInv
<1>6. UNCHANGED TheJob!jobVars
  BY <1>1 DEF TheJob!jobVars, JobStatus
<1> QED BY <1>2, <1>3, <1>4, <1>5, <1>6 DEF JobStep

LEMMA ConstructorJob == ASSUME IInv, JobInv, Constructor PROVE JobInv' /\ JobStep
<1>1. ASSUME NEW r \in Rpi, Register(r) \/ InitializeSecondaryResources(r) PROVE JobInv' /\ JobStep
  <2>1. UNCHANGED <<initial_tasks, on_fly_tasks, finished, remaining_tasks, dropped, stop, writer, reader>>
    BY <1>1 DEF Register, InitializeSecondaryResources, ids
  <2>2. InHand' = InHand
    BY <2>1 DEF InHand
  <2> QED BY <2>1, <2>2, JobIdle
<1>2. ASSUME StartThreads PROVE JobInv' /\ JobStep
  <2>1. /\ writer.at = "start" /\ writer'.at = "pick" /\ reader'.at = "take" /\ reader.at = "start"
        /\ UNCHANGED <<initial_tasks, on_fly_tasks, finished, remaining_tasks, dropped, stop>>
    BY <1>2 DEF StartThreads, ids, IInv, Typed, StartTogether, WriterTyped, ReaderTyped
  <2>2. InHand' = InHand
    BY <2>1 DEF InHand
  <2> QED BY <2>1, <2>2, JobIdle
<1> QED BY <1>1, <1>2 DEF Constructor

LEMMA ClientJob == ASSUME IInv, JobInv, NEW r \in Rpi, Client(r) PROVE JobInv' /\ JobStep
<1>1. UNCHANGED <<initial_tasks, on_fly_tasks, finished, remaining_tasks, dropped, stop, writer, reader>>
  BY DEF Client, ids
<1>2. InHand' = InHand
  BY <1>1 DEF InHand
<1> QED BY <1>1, <1>2, JobIdle

LEMMA WriterAddJob == ASSUME IInv, JobInv, WriterAdd \/ WriterStop PROVE JobInv' /\ JobStep
<1>1. /\ writer.at # "credit" /\ writer'.at # "credit" /\ reader' = reader
      /\ UNCHANGED <<initial_tasks, on_fly_tasks, finished, remaining_tasks, dropped, stop>>
  BY DEF WriterAdd, WriterStop, ids, IInv, Typed, WriterTyped
<1>2. InHand' = InHand
  BY <1>1 DEF InHand
<1> QED BY <1>1, <1>2, JobIdle

LEMMA ReaderMovesJob ==
  ASSUME IInv, JobInv, ReaderTake \/ ReaderRelease \/ CleanUp PROVE JobInv' /\ JobStep
<1>1. /\ UNCHANGED <<initial_tasks, on_fly_tasks, finished, remaining_tasks, dropped, stop, writer>>
      /\ reader.at # "erase"
      /\ reader'.at \in {"cleanup", "done"} <=> reader.at \in {"cleanup", "done"}
  BY DEF ReaderTake, ReaderRelease, CleanUp, ids, IInv, Typed, ReaderTyped
<1>2. InHand' = InHand
  BY <1>1 DEF InHand
<1> QED BY <1>1, <1>2, JobIdle
-----------------------------------------------------------------------------
(* WriterPick starts a task.                                               *)
LEMMA WriterPickJob == ASSUME IInv, JobInv, WriterPick PROVE JobInv' /\ JobStep
<1> USE DEF JobInv
<1>1. PICK t \in Task : t = Head(initial_tasks)
  BY HeadTailProperties DEF WriterPick, IInv, Typed, TasksTyped
<1>2. /\ writer.at = "pick" /\ initial_tasks # <<>> /\ initial_tasks' = Tail(initial_tasks)
      /\ writer'.at = "credit" /\ writer'.task = t
      /\ UNCHANGED <<on_fly_tasks, finished, remaining_tasks, dropped, stop, reader>>
  BY <1>1 DEF WriterPick, ids, IInv, Typed, WriterTyped
<1>3. /\ IsInjective(initial_tasks') /\ t \notin Range(initial_tasks')
      /\ Range(initial_tasks') = Range(initial_tasks) \ {t}
  BY <1>1, <1>2, InjectiveTail DEF IInv, Typed, TasksTyped, ReadyInv
<1>4. t \in Range(initial_tasks)
  <2>1. 1 \in DOMAIN initial_tasks /\ initial_tasks[1] = t
    BY <1>1, <1>2, LenProperties, EmptySeq DEF IInv, Typed, TasksTyped
  <2> QED BY <2>1 DEF Range
<1>5. InHand = {} /\ InHand' = {t}
  BY <1>2 DEF InHand
<1>6. \A u : IsDropped(u)' = IsDropped(u) /\ Runnable(u)' = Runnable(u)
  BY <1>2 DEF IsDropped, Runnable
<1>7. Runnable(t) /\ t \notin finished
  BY <1>4 DEF ReadyInv
<1>8. ReadyInv'
  BY <1>2, <1>3, <1>4, <1>5, <1>6 DEF ReadyInv
<1>9. OnFlyInv'
  BY <1>2, <1>3, <1>4, <1>5, <1>6 DEF OnFlyInv
<1>10. DoneInv' /\ StopInv'
  BY <1>2, <1>6 DEF DoneInv, StopInv
<1>11. TheJob!Start(t)
  <2>1. JobStatus[t] = "waiting"
    BY <1>4, <1>7 DEF JobStatus, Runnable
  <2>2. \A c \in Children(t) : JobStatus[c] = "done"
    <3>1. Children(t) \subseteq Task
      BY <1>7 DEF Runnable, DoneInv
    <3> QED BY <1>7, <3>1 DEF JobStatus, Runnable
  <2>3. JobStatus' = [JobStatus EXCEPT ![t] = "running"]
    BY <1>2, <1>3, <1>6, <1>7 DEF JobStatus, Runnable
  <2> QED BY <1>2, <2>1, <2>2, <2>3, SameForest DEF TheJob!Start
<1> QED BY <1>8, <1>9, <1>10, <1>11, SameForest DEF JobStep, TheJob!Next, TheJob!Proceed

(* WriterAssign keeps the task running, or loses it.                       *)
LEMMA WriterInsertJob ==
  ASSUME IInv, JobInv, writer.at = "credit", NEW r \in Rpi, WriterInsert(r),
         UNCHANGED <<initial_tasks, finished, remaining_tasks, stop, reader>>
  PROVE  JobInv' /\ JobStep
<1> USE DEF JobInv
<1> DEFINE t == writer.task
           f == on_fly_tasks
<1>1. PICK id : id = IdStart + (count % IdSpan)
  OBVIOUS
<1>2. /\ on_fly_tasks' = [n \in DOMAIN f \cup {id} |-> IF n = id THEN t ELSE f[n]]
      /\ writer'.at = "add" /\ UNCHANGED dropped
  BY <1>1 DEF WriterInsert
<1>3. InHand = {t} /\ InHand' = {}
  BY <1>2 DEF InHand
<1>4. \A u : IsDropped(u)' = IsDropped(u) /\ Runnable(u)' = Runnable(u)
  BY <1>2 DEF IsDropped, Runnable
<1>5. Runnable(t) /\ t \notin finished /\ t \notin Range(initial_tasks)
  BY <1>3 DEF ReadyInv
<1>6. ReadyInv'
  BY <1>3, <1>4 DEF ReadyInv
<1>7. OnFlyInv'
  <2>1. \A n \in DOMAIN f : f[n] # t
    BY <1>3 DEF OnFlyInv
  <2>2. DOMAIN on_fly_tasks' = DOMAIN f \cup {id} /\ on_fly_tasks'[id] = t
        /\ \A n \in DOMAIN f : n # id => on_fly_tasks'[n] = f[n]
    BY <1>2
  <2> HIDE DEF t, f
  <2>3. SUFFICES ASSUME NEW n \in DOMAIN on_fly_tasks'
        PROVE  /\ Runnable(on_fly_tasks'[n])
               /\ on_fly_tasks'[n] \notin Range(initial_tasks)
               /\ \A m \in DOMAIN on_fly_tasks' : on_fly_tasks'[m] = on_fly_tasks'[n] => m = n
               /\ on_fly_tasks'[n] \in finished => reader.at = "erase" /\ n = reader.item
    BY <1>3, <1>4 DEF OnFlyInv
  <2>4. CASE n = id
    BY <1>5, <2>1, <2>2, <2>4
  <2>5. CASE n # id
    BY <2>1, <2>2, <2>5 DEF OnFlyInv, f
  <2> QED BY <2>4, <2>5
<1>8. DoneInv' /\ StopInv'
  BY <1>4 DEF DoneInv, StopInv
<1>9. UNCHANGED TheJob!jobVars
  BY <1>4 DEF TheJob!jobVars, JobStatus
<1> QED BY <1>6, <1>7, <1>8, <1>9 DEF JobStep

LEMMA WriterDropJob ==
  ASSUME IInv, JobInv, writer.at = "credit", NEW r \in Rpi, WriterDrop(r),
         UNCHANGED <<initial_tasks, finished, remaining_tasks, stop, reader>>
  PROVE  JobInv' /\ JobStep
<1> USE DEF JobInv
<1>1. PICK t \in Task : t = writer.task
  BY DEF IInv, Typed, WriterTyped
<1>2. /\ dropped' = [dropped EXCEPT ![r] = Append(dropped[r], t)]
      /\ writer'.at = "pick" /\ UNCHANGED on_fly_tasks
  BY <1>1 DEF WriterDrop
<1>3. InHand = {t} /\ InHand' = {}
  BY <1>1, <1>2 DEF InHand
<1>4. \A u : IsDropped(u)' <=> IsDropped(u) \/ u = t
  <2>1. dropped \in [Rpi -> Seq(Task)]
    BY DEF IInv, Typed, TasksTyped
  <2>2. Range(Append(dropped[r], t)) = Range(dropped[r]) \cup {t}
    BY <2>1, AppendRange
  <2> QED BY <1>2, <2>1, <2>2 DEF IsDropped
<1>5. Runnable(t) /\ t \notin finished /\ t \notin Range(initial_tasks)
  BY <1>3 DEF ReadyInv
<1>6. \A u : u # t => Runnable(u)' = Runnable(u)
  BY <1>4 DEF Runnable
<1>7. ReadyInv'
  BY <1>3, <1>5, <1>6 DEF ReadyInv
<1>8. OnFlyInv'
  BY <1>2, <1>3, <1>6 DEF OnFlyInv
<1>9. DoneInv' /\ StopInv'
  BY <1>4, <1>5 DEF DoneInv, StopInv, Runnable
<1>10. TheJob!Lose(t)
  <2>1. JobStatus[t] = "running"
    BY <1>5 DEF JobStatus, Runnable
  <2>2. JobStatus' = [JobStatus EXCEPT ![t] = "lost"]
    BY <1>4, <1>5 DEF JobStatus
  <2> QED BY <2>1, <2>2 DEF TheJob!Lose
<1> QED BY <1>7, <1>8, <1>9, <1>10, SameForest DEF JobStep, TheJob!Next

LEMMA WriterAssignJob == ASSUME IInv, JobInv, WriterAssign PROVE JobInv' /\ JobStep
<1>1. PICK r \in Rpi : IF r \in client_map THEN WriterInsert(r) ELSE WriterDrop(r)
  BY DEF WriterAssign
<1>2. writer.at = "credit" /\ UNCHANGED <<initial_tasks, finished, remaining_tasks, stop, reader>>
  BY DEF WriterAssign
<1> QED BY <1>1, <1>2, WriterInsertJob, WriterDropJob
-----------------------------------------------------------------------------
(* ReaderProcess completes the task that its id stands for, and the parent *)
(* becomes ready with its second operand.                                  *)
LEMMA OneMoreRoot ==
  ASSUME NEW F, NEW t \in Task, t \notin F, IsRoot(t)
  PROVE  Cardinality(RootsIn(F \cup {t})) = Cardinality(RootsIn(F)) + 1
<1>1. t = <<t[1], 2 * K - 2>> /\ t[1] \in 0..Subtrees - 1
  BY TaskFields DEF IsRoot
<1>2. RootsIn(F \cup {t}) = RootsIn(F) \cup {t[1]}
  <2>1. \A i : <<i, 2 * K - 2>> = t <=> i = t[1]
    BY <1>1
  <2> QED BY <1>1, <2>1 DEF RootsIn
<1>3. t[1] \notin RootsIn(F)
  BY <1>1 DEF RootsIn
<1>4. IsFiniteSet(RootsIn(F))
  BY RootCount
<1> QED BY <1>2, <1>3, <1>4, FS_AddElement

LEMMA CompletesRoot ==
  ASSUME IInv, JobInv, reader.at = "decode", NEW n \in DOMAIN on_fly_tasks,
         NEW t \in Task, t = on_fly_tasks[n], IsRoot(t), n = reader.item,
         finished' = finished \cup {t}, remaining_tasks' = remaining_tasks - 1,
         reader'.at = "erase", reader'.item = n,
         UNCHANGED <<initial_tasks, on_fly_tasks, dropped, stop, writer>>
  PROVE  JobInv' /\ TheJob!Complete(t)
<1> USE DEF JobInv
<1>1. t \notin finished /\ Runnable(t) /\ t \notin Range(initial_tasks) \cup InHand
  BY DEF OnFlyInv
<1>2. InHand' = InHand
  BY DEF InHand
<1>3. \A u : IsDropped(u)' = IsDropped(u) /\ (Runnable(u) => Runnable(u)')
  BY DEF IsDropped, Runnable
<1>4. ReadyInv'
  BY <1>1, <1>2, <1>3 DEF ReadyInv
<1>5. OnFlyInv'
  BY <1>2, <1>3 DEF OnFlyInv
<1>6. DoneInv'
  <2>1. Cardinality(RootsIn(finished')) = Cardinality(RootsIn(finished)) + 1
    BY <1>1, OneMoreRoot
  <2>2. Cardinality(RootsIn(finished)) \in Nat
    BY RootCount
  <2>3. remaining_tasks' = Subtrees - Cardinality(RootsIn(finished'))
    BY <2>1, <2>2, SubtreesAssumption DEF DoneInv
  <2>4. finished' \subseteq Task
    BY DEF DoneInv
  <2>5. \A u \in Task : u \in finished' => Children(u) \subseteq finished'
    BY <1>1 DEF DoneInv, Runnable
  <2>6. \A u \in Task : IsDropped(u)' => Children(u) \subseteq finished' /\ u \notin finished'
    BY <1>1, <1>3 DEF DoneInv, Runnable
  <2> QED BY <2>3, <2>4, <2>5, <2>6 DEF DoneInv
<1>7. StopInv'
  BY DEF StopInv
<1>8. JobStatus[t] = "running"
  BY <1>1 DEF JobStatus, Runnable
<1>9. JobStatus' = [JobStatus EXCEPT ![t] = "done"]
  <2>1. \A u \in Task : ~(t \in Children(u))
    BY ParentOfChild
  <2>2. \A u \in Task : Children(u) \subseteq finished' <=> Children(u) \subseteq finished
    BY <2>1
  <2> QED BY <1>3, <2>2 DEF JobStatus
<1> QED BY <1>4, <1>5, <1>6, <1>7, <1>8, <1>9 DEF TheJob!Complete

LEMMA CompletesOperand ==
  ASSUME IInv, JobInv, reader.at = "decode", NEW n \in DOMAIN on_fly_tasks,
         NEW t \in Task, t = on_fly_tasks[n], ~IsRoot(t), n = reader.item,
         finished' = finished \cup {t},
         initial_tasks' = IF OtherOperandActive(t) THEN Append(initial_tasks, Parent(t))
                          ELSE initial_tasks,
         reader'.at = "erase", reader'.item = n,
         UNCHANGED <<remaining_tasks, on_fly_tasks, dropped, stop, writer>>
  PROVE  JobInv' /\ TheJob!Complete(t)
<1> USE DEF JobInv
<1> DEFINE p == Parent(t)
<1>1. t \notin finished /\ Runnable(t) /\ t \notin Range(initial_tasks) \cup InHand
  BY DEF OnFlyInv
<1>2. InHand' = InHand
  BY DEF InHand
<1>3. \A u : IsDropped(u)' = IsDropped(u) /\ (Runnable(u) => Runnable(u)')
  BY DEF IsDropped, Runnable
<1>4. /\ p \in Task /\ t \in Children(p) /\ Children(p) = {t, Sibling(t)} /\ p # t
      /\ Sibling(t) # t
      /\ \A u \in Task : t \in Children(u) => u = p
  BY ParentIsTask, ChildrenOfParent, ParentOfChild, TaskFields
<1> HIDE DEF p
<1>5. /\ ~Runnable(p) /\ ~IsDropped(p) /\ p \notin finished
      /\ p \notin Range(initial_tasks) \cup InHand
      /\ \A m \in DOMAIN on_fly_tasks : on_fly_tasks[m] # p
  BY <1>1, <1>4 DEF ReadyInv, OnFlyInv, DoneInv, Runnable
<1>6. Children(p) \subseteq finished' <=> OtherOperandActive(t)
  BY <1>4 DEF OtherOperandActive
<1>7. \A u \in Task : u # p => (Children(u) \subseteq finished' <=> Children(u) \subseteq finished)
  BY <1>4
<1>8. /\ IsInjective(initial_tasks')
      /\ Range(initial_tasks') = IF OtherOperandActive(t) THEN Range(initial_tasks) \cup {p}
                                 ELSE Range(initial_tasks)
  <2>1. initial_tasks \in Seq(Task) /\ IsInjective(initial_tasks) /\ p \notin Range(initial_tasks)
    BY <1>5 DEF IInv, Typed, TasksTyped, ReadyInv
  <2>2. /\ IsInjective(Append(initial_tasks, p))
        /\ Range(Append(initial_tasks, p)) = Range(initial_tasks) \cup {p}
    BY <1>4, <2>1, InjectiveAppend
  <2> QED BY <2>1, <2>2 DEF p
<1>9. ReadyInv'
  <2>1. \A u \in Range(initial_tasks') \cup InHand' : Runnable(u)' /\ u \notin finished'
    <3>1. ASSUME OtherOperandActive(t) PROVE Runnable(p)' /\ p \notin finished'
      BY <1>3, <1>4, <1>5, <1>6, <3>1 DEF Runnable
    <3>2. \A u \in Range(initial_tasks) \cup InHand : Runnable(u)' /\ u \notin finished'
      BY <1>1, <1>3 DEF ReadyInv
    <3> QED BY <1>2, <1>8, <3>1, <3>2
  <2>2. \A u \in InHand' : u \notin Range(initial_tasks')
    BY <1>2, <1>5, <1>8 DEF ReadyInv
  <2> QED BY <1>8, <2>1, <2>2 DEF ReadyInv
<1>10. OnFlyInv'
  BY <1>2, <1>3, <1>5, <1>8 DEF OnFlyInv
<1>11. DoneInv'
  <2>1. RootsIn(finished') = RootsIn(finished)
    <3>1. \A i : t # <<i, 2 * K - 2>>
      BY DEF IsRoot
    <3> QED BY <3>1 DEF RootsIn
  <2>2. finished' \subseteq Task
    BY DEF DoneInv
  <2>3. \A u \in Task : u \in finished' => Children(u) \subseteq finished'
    BY <1>1 DEF DoneInv, Runnable
  <2>4. \A u \in Task : IsDropped(u)' => Children(u) \subseteq finished' /\ u \notin finished'
    BY <1>1, <1>3 DEF DoneInv, Runnable
  <2> QED BY <2>1, <2>2, <2>3, <2>4 DEF DoneInv
<1>12. StopInv'
  BY DEF StopInv
<1>13. JobStatus[t] = "running"
  BY <1>1 DEF JobStatus, Runnable
<1>14. JobStatus' = [JobStatus EXCEPT ![t] = "done"]
  <2>1. JobStatus[p] = "waiting"
    BY <1>4, <1>5 DEF JobStatus, Runnable
  <2>2. JobStatus'[p] = "waiting"
    BY <1>3, <1>4, <1>5, <1>6, <1>8 DEF JobStatus
  <2>3. ASSUME NEW u \in Task, u # p, u # t PROVE JobStatus'[u] = JobStatus[u]
    BY <1>3, <1>7, <1>8, <2>3 DEF JobStatus
  <2>4. JobStatus'[t] = "done"
    BY DEF JobStatus
  <2>5. DOMAIN JobStatus = Task /\ DOMAIN JobStatus' = Task /\ JobStatus = [u \in Task |-> JobStatus[u]]
        /\ JobStatus' = [u \in Task |-> JobStatus'[u]]
    BY DEF JobStatus
  <2> QED BY <1>4, <2>1, <2>2, <2>3, <2>4, <2>5
<1> QED BY <1>9, <1>10, <1>11, <1>12, <1>13, <1>14 DEF TheJob!Complete

LEMMA ReaderProcessJob == ASSUME IInv, JobInv, ReaderProcess PROVE JobInv' /\ JobStep
<1>1. /\ reader.at = "decode" /\ reader' = [reader EXCEPT !.at = reader'.at]
      /\ UNCHANGED <<on_fly_tasks, dropped, stop, writer>>
  BY DEF ReaderProcess, ids
<1>2. CASE reader.item \in DOMAIN on_fly_tasks
  <2>1. PICK n \in DOMAIN on_fly_tasks : n = reader.item
    BY <1>2
  <2>2. PICK t \in Task : t = on_fly_tasks[n]
    BY DEF IInv, Typed, TasksTyped
  <2>3. /\ finished' = finished \cup {t}
        /\ remaining_tasks' = IF IsRoot(t) THEN remaining_tasks - 1 ELSE remaining_tasks
        /\ initial_tasks' = IF ~IsRoot(t) /\ OtherOperandActive(t)
                            THEN Append(initial_tasks, Parent(t)) ELSE initial_tasks
        /\ reader' = [reader EXCEPT !.at = "erase"]
    BY <1>2, <2>1, <2>2 DEF ReaderProcess
  <2>4. reader'.at = "erase" /\ reader'.item = n
    BY <2>1, <2>3 DEF IInv, Typed, ReaderTyped
  <2>5. JobInv' /\ TheJob!Complete(t)
    <3>1. CASE IsRoot(t)
      BY <1>1, <2>1, <2>2, <2>3, <2>4, <3>1, CompletesRoot
    <3>2. CASE ~IsRoot(t)
      BY <1>1, <2>1, <2>2, <2>3, <2>4, <3>2, CompletesOperand
    <3> QED BY <3>1, <3>2
  <2> QED BY <2>5, SameForest DEF JobStep, TheJob!Next, TheJob!Proceed
<1>3. CASE reader.item \notin DOMAIN on_fly_tasks
  <2>1. /\ UNCHANGED <<initial_tasks, on_fly_tasks, finished, remaining_tasks, dropped, stop, writer>>
        /\ reader'.at = "not found"
    BY <1>1, <1>3 DEF ReaderProcess, IInv, Typed, ReaderTyped
  <2>2. InHand' = InHand
    BY <2>1 DEF InHand
  <2> QED BY <1>1, <2>1, <2>2, JobIdle
<1> QED BY <1>2, <1>3

(* The entry that is erased is that of a finished task, or the id already  *)
(* stands for a later one, which is forgotten and never completed.         *)
LEMMA ReaderEraseJob == ASSUME IInv, JobInv, ReaderErase PROVE JobInv' /\ JobStep
<1> USE DEF JobInv
<1>1. /\ reader.at = "erase" /\ reader'.at = "erased"
      /\ on_fly_tasks' = [n \in DOMAIN on_fly_tasks \ {reader.item} |-> on_fly_tasks[n]]
      /\ UNCHANGED <<initial_tasks, finished, remaining_tasks, dropped, stop, writer>>
  BY DEF ReaderErase, WithoutEntry, Restrict, IInv, Typed, ReaderTyped
<1>2. InHand' = InHand
  BY <1>1 DEF InHand
<1>3. \A u : IsDropped(u)' = IsDropped(u) /\ Runnable(u)' = Runnable(u)
  BY <1>1 DEF IsDropped, Runnable
<1>4. ReadyInv' /\ DoneInv'
  BY <1>1, <1>2, <1>3 DEF ReadyInv, DoneInv
<1>5. OnFlyInv'
  <2>1. DOMAIN on_fly_tasks' = DOMAIN on_fly_tasks \ {reader.item}
        /\ \A n \in DOMAIN on_fly_tasks' : on_fly_tasks'[n] = on_fly_tasks[n]
    BY <1>1
  <2> QED BY <1>1, <1>2, <1>3, <2>1 DEF OnFlyInv
<1>6. StopInv'
  BY <1>1 DEF StopInv
<1>7. UNCHANGED TheJob!jobVars
  BY <1>1, <1>3 DEF TheJob!jobVars, JobStatus
<1> QED BY <1>4, <1>5, <1>6, <1>7 DEF JobStep

(* The reader ends the job when everything is done.                        *)
LEMMA ReaderCheckJob == ASSUME IInv, JobInv, ReaderCheck PROVE JobInv' /\ JobStep
<1> USE DEF JobInv
<1>1. /\ reader.at \in {"erased", "not found"} /\ stop' = AllRootsDone
      /\ reader'.at = IF AllRootsDone THEN "cleanup" ELSE "take"
      /\ UNCHANGED <<initial_tasks, on_fly_tasks, finished, remaining_tasks, dropped, writer>>
  BY DEF ReaderCheck
<1>2. InHand' = InHand
  BY <1>1 DEF InHand
<1>3. \A u : IsDropped(u)' = IsDropped(u) /\ Runnable(u)' = Runnable(u)
  BY <1>1 DEF IsDropped, Runnable
<1>4. ReadyInv' /\ DoneInv' /\ OnFlyInv'
  BY <1>1, <1>2, <1>3 DEF ReadyInv, DoneInv, OnFlyInv
<1>5. StopInv' /\ stop = FALSE
  BY <1>1 DEF StopInv, AllRootsDone
<1>6. JobStatus' = JobStatus
  BY <1>1, <1>3 DEF JobStatus
<1>7. CASE AllRootsDone
  <2>1. finished = Task
    BY <1>7, AllDone DEF AllRootsDone
  <2>2. \A t \in Task : JobStatus[t] = "done"
    BY <2>1 DEF JobStatus
  <2>3. TheJob!End
    BY <1>1, <1>6, <1>7, <2>2, SameForest DEF TheJob!End
  <2> QED BY <1>4, <1>5, <2>3 DEF JobStep, TheJob!Next, TheJob!Proceed
<1>8. CASE ~AllRootsDone
  <2>1. stop' = FALSE
    BY <1>1, <1>8 DEF AllRootsDone
  <2>2. UNCHANGED TheJob!jobVars
    BY <1>5, <1>6, <2>1 DEF TheJob!jobVars
  <2> QED BY <1>4, <1>5, <2>2 DEF JobStep
<1> QED BY <1>7, <1>8
-----------------------------------------------------------------------------
LEMMA StepJob == IInv /\ JobInv /\ [Next]_vars => JobInv' /\ JobStep
<1> SUFFICES ASSUME IInv, JobInv, [Next]_vars PROVE JobInv' /\ JobStep
  OBVIOUS
<1>1. CASE Constructor
  BY <1>1, ConstructorJob
<1>2. CASE Writer
  BY <1>2, WriterPickJob, WriterAssignJob, WriterAddJob DEF Writer
<1>3. CASE Reader
  BY <1>3, ReaderMovesJob, ReaderProcessJob, ReaderEraseJob, ReaderCheckJob DEF Reader
<1>4. CASE \E r \in Rpi : Client(r)
  BY <1>4, ClientJob
<1>5. CASE UNCHANGED vars
  <2>1. /\ UNCHANGED <<initial_tasks, on_fly_tasks, finished, remaining_tasks, dropped, stop, writer>>
        /\ reader' = reader
    BY <1>5 DEF vars, ids
  <2>2. InHand' = InHand
    BY <2>1 DEF InHand
  <2> QED BY <2>1, <2>2, JobIdle
<1> QED BY <1>1, <1>2, <1>3, <1>4, <1>5 DEF Next, Finished

LEMMA SpecJobInv == Spec => [](IInv /\ JobInv)
<1>1. Init => IInv /\ JobInv
  BY InitIInv, InitJobInv
<1>2. IInv /\ JobInv /\ [Next]_vars => IInv' /\ JobInv'
  BY StepIInv, StepJob
<1> QED BY <1>1, <1>2, PTL DEF Spec

(* The rest of TypeOK: who is known, who asks, which ids are in the map.   *)
RestTyped ==
    /\ client_map \subseteq Rpi /\ asking \subseteq {"writer"}
    /\ DOMAIN on_fly_tasks \subseteq TaskIds

LEMMA StepRestTyped == IInv /\ RestTyped /\ [Next]_vars => RestTyped'
<1> SUFFICES ASSUME IInv, RestTyped, [Next]_vars PROVE RestTyped'
  OBVIOUS
<1>1. client_map' \subseteq Rpi
  <2>1. UNCHANGED client_map \/ \E r \in Rpi : client_map' = client_map \cup {r}
    BY DEF Next, Constructor, Register, InitializeSecondaryResources, StartThreads,
           Writer, WriterPick, WriterAssign, WriterAdd, WriterStop, Client,
           Reader, ReaderTake, ReaderRelease, ReaderProcess, ReaderErase, ReaderCheck, CleanUp,
           Finished, vars
  <2> QED BY <2>1 DEF RestTyped
<1>2. asking' \subseteq {"writer"}
  <2>1. \/ UNCHANGED asking \/ asking' = asking \cup {"writer"} \/ asking' = asking \ {"writer"}
    BY DEF Next, Constructor, Register, InitializeSecondaryResources, StartThreads,
           Writer, WriterPick, WriterAssign, WriterAdd, WriterStop, Client,
           Reader, ReaderTake, ReaderRelease, ReaderProcess, ReaderErase, ReaderCheck, CleanUp,
           Finished, vars, pool, Pool!Join, Pool!Ask, Pool!Grant, Pool!GiveBack
  <2> QED BY <2>1 DEF RestTyped
<1>3. DOMAIN on_fly_tasks' \subseteq TaskIds
  <2>1. CASE WriterAssign
    <3>1. UNCHANGED on_fly_tasks
          \/ DOMAIN on_fly_tasks' = DOMAIN on_fly_tasks \cup {IdStart + (count % IdSpan)}
      BY <2>1 DEF WriterAssign, WriterInsert, WriterDrop
    <3>2. IdStart + (count % IdSpan) \in TaskIds
      BY IdFacts DEF IInv, Typed, TasksTyped
    <3> QED BY <3>1, <3>2 DEF RestTyped
  <2>2. CASE ReaderErase
    BY <2>2 DEF ReaderErase, WithoutEntry, Restrict, RestTyped
  <2>3. CASE ~WriterAssign /\ ~ReaderErase
    <3>1. UNCHANGED on_fly_tasks
      BY <2>3 DEF Next, Constructor, Register, InitializeSecondaryResources, StartThreads,
             Writer, WriterPick, WriterAdd, WriterStop, Client, ids,
             Reader, ReaderTake, ReaderRelease, ReaderProcess, ReaderCheck, CleanUp,
             Finished, vars
    <3> QED BY <3>1 DEF RestTyped
  <2> QED BY <2>1, <2>2, <2>3
<1> QED BY <1>1, <1>2, <1>3 DEF RestTyped

LEMMA TypedParts == IInv /\ JobInv /\ RestTyped => TypeOK
<1> SUFFICES ASSUME IInv, JobInv, RestTyped PROVE TypeOK
  OBVIOUS
<1>1. /\ client_map \subseteq Rpi /\ joined \subseteq Rpi /\ asking \subseteq {"writer"}
      /\ held \in [Rpi -> 0..Units]
      /\ initial_tasks \in Seq(Task) /\ DOMAIN on_fly_tasks \subseteq TaskIds
  BY DEF RestTyped, IInv, Typed, PoolTyped, TasksTyped
<1>2. finished \subseteq Task /\ stop \in BOOLEAN /\ remaining_tasks \in 0..Subtrees
  <2>1. Cardinality(RootsIn(finished)) \in 0..Subtrees
    BY RootCount
  <2> QED BY <2>1, SubtreesAssumption DEF JobInv, DoneInv, StopInv
<1>3. Range(on_fly_tasks) \subseteq Task
  BY DEF Range, IInv, Typed, TasksTyped
<1>4. ASSUME NEW r \in Rpi PROVE Place(r) \subseteq TaskIds
  <2>1. client_queue[r] \in Seq(QueueItem) /\ answering[r] \in TaskIds \cup {Nothing}
    BY DEF IInv, Typed, ClientsTyped
  <2>2. Range(client_queue[r]) \subseteq QueueItem
    BY <2>1, RangeOfSeq
  <2> QED BY <2>1, <2>2 DEF Place, QueueItem, Clients!Stop
<1>5. computed \subseteq Task /\ Range(answered) \subseteq Task \cup {Nothing}
  BY DEF IInv, Typed, ResultsTyped, Range
<1> QED BY <1>1, <1>2, <1>3, <1>4, <1>5 DEF TypeOK

(* For any number of nodes, credits, blocks and ids the variables of the   *)
(* primary are of their types; remaining_tasks never passes below zero.    *)
THEOREM TypeCorrect == Spec => []TypeOK
<1>1. Init => RestTyped
  BY DEF Init, Pool!Init, RestTyped
<1>2. IInv /\ JobInv /\ RestTyped => TypeOK
  BY TypedParts
<1> QED BY <1>1, <1>2, SpecJobInv, StepRestTyped, PTL DEF Spec

(* The subtrees whose root is not finished.                                *)
RootsLeft == {i \in 0..Subtrees - 1 : <<i, 2 * K - 2>> \notin finished}

(* remaining_tasks_ is the number of subtrees whose root is not finished:  *)
(* no root is counted twice, so the job is not declared over too early.    *)
THEOREM RemainingIsExact == Spec => [](remaining_tasks = Cardinality(RootsLeft))
<1>1. JobInv => remaining_tasks = Cardinality(RootsLeft)
  <2> SUFFICES ASSUME JobInv PROVE remaining_tasks = Cardinality(RootsLeft)
    OBVIOUS
  <2> DEFINE I == 0..Subtrees - 1
             R == RootsIn(finished)
  <2>1. IsFiniteSet(I) /\ Cardinality(I) = Subtrees
    <3>1. IsFiniteSet(I) /\ Cardinality(I) = IF 0 > Subtrees - 1 THEN 0 ELSE (Subtrees - 1) - 0 + 1
      BY SubtreesAssumption, FS_Interval
    <3> QED BY <3>1, SubtreesAssumption
  <2>2. /\ RootsLeft = I \ R /\ I \cap R = R
        /\ IsFiniteSet(R) /\ Cardinality(R) \in Nat
    BY RootCount, FS_CardinalityType DEF RootsLeft, RootsIn
  <2> HIDE DEF I, R
  <2>3. Cardinality(I \ R) = Cardinality(I) - Cardinality(I \cap R)
    BY <2>1, FS_Difference
  <2>4. remaining_tasks = Subtrees - Cardinality(R)
    BY DEF JobInv, DoneInv, R
  <2> QED BY <2>1, <2>2, <2>3, <2>4
<1> QED BY <1>1, SpecJobInv, PTL

(* ClusterManager implements Job step by step: a task starts once, when a  *)
(* result has been processed for both its operands, completes or is lost   *)
(* once, and stop_ is set only when every task is done.  It holds also     *)
(* where the ids are so few that a task takes the id of one that is out:   *)
(* then the job may never end and an operand may not be there, but the job *)
(* is not declared finished with a task for which no result was processed. *)
THEOREM RunsTheJob == Spec => TheJob!Init /\ [][TheJob!Next]_(TheJob!jobVars)
<1>1. Init => TheJob!Init
  BY InitJobInv
<1>2. IInv /\ JobInv /\ [Next]_vars => [TheJob!Next]_(TheJob!jobVars)
  BY StepJob DEF JobStep
<1> QED BY <1>1, <1>2, SpecJobInv, PTL DEF Spec
=============================================================================
