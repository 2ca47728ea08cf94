------------------------ MODULE ClusterManagerProofs ------------------------
(***************************************************************************)
(* Proofs about ClusterManager for any number of nodes, credits, blocks    *)
(* and ids: where the credits of a node are, and therefore how many tasks  *)
(* its client can be holding.                                              *)
(***************************************************************************)
EXTENDS ClusterManager, SequenceTheorems, FiniteSetTheorems, TLAPS

Item == Rpi \cup TaskIds
QueueItem == TaskIds \cup {-1}

(* How many items of a sequence are in a set, when one is added or taken.  *)
LEMMA CountNat ==
  ASSUME NEW T, NEW s \in Seq(T), NEW S
  PROVE  /\ CountIn(s, S) \in Nat /\ IsFiniteSet({n \in DOMAIN s : s[n] \in S})
         /\ s = <<>> => CountIn(s, S) = 0
<1>1. DOMAIN s = 1..Len(s) /\ Len(s) \in Nat
  BY LenProperties
<1>2. IsFiniteSet(1..Len(s))
  BY <1>1, FS_Interval
<1>3. IsFiniteSet({n \in DOMAIN s : s[n] \in S})
  BY <1>1, <1>2, FS_Subset
<1>4. s = <<>> => {n \in DOMAIN s : s[n] \in S} = {}
  BY <1>1, EmptySeq
<1> QED BY <1>3, <1>4, FS_CardinalityType, FS_EmptySet DEF CountIn

LEMMA CountAppend ==
  ASSUME NEW T, NEW s \in Seq(T), NEW x \in T, NEW S
  PROVE  CountIn(Append(s, x), S) = CountIn(s, S) + (IF x \in S THEN 1 ELSE 0)
<1> DEFINE t == Append(s, x)
           D == {n \in DOMAIN s : s[n] \in S}
           E == {n \in DOMAIN t : t[n] \in S}
<1>1. /\ Len(s) \in Nat /\ DOMAIN s = 1..Len(s) /\ DOMAIN t = 1..(Len(s) + 1)
      /\ \A n \in 1..Len(s) : t[n] = s[n]
      /\ t[Len(s) + 1] = x
  BY AppendProperties, LenProperties
<1> HIDE DEF t
<1>2. E = IF x \in S THEN D \cup {Len(s) + 1} ELSE D
  BY <1>1
<1>3. Len(s) + 1 \notin D
  BY <1>1
<1>4. IsFiniteSet(D) /\ Cardinality(D) \in Nat
  BY CountNat DEF CountIn
<1> HIDE DEF D, E
<1>5. Cardinality(D \cup {Len(s) + 1}) = Cardinality(D) + 1
  BY <1>3, <1>4, FS_AddElement
<1>6. Cardinality(E) = Cardinality(D) + (IF x \in S THEN 1 ELSE 0)
  <2>1. CASE x \in S
    BY <1>2, <1>5, <2>1
  <2>2. CASE x \notin S
    BY <1>2, <1>4, <2>2
  <2> QED BY <2>1, <2>2
<1> QED BY <1>6 DEF CountIn, D, E, t

LEMMA CountTail ==
  ASSUME NEW T, NEW s \in Seq(T), s # <<>>, NEW S
  PROVE  CountIn(Tail(s), S) = CountIn(s, S) - (IF Head(s) \in S THEN 1 ELSE 0)
<1> DEFINE t == Tail(s)
           D == {n \in DOMAIN s : s[n] \in S}
           E == {n \in DOMAIN t : t[n] \in S}
           f == [n \in E |-> n + 1]
<1>1. /\ Len(s) \in Nat \ {0} /\ DOMAIN s = 1..Len(s) /\ DOMAIN t = 1..(Len(s) - 1)
      /\ \A n \in 1..(Len(s) - 1) : t[n] = s[n + 1]
      /\ Head(s) = s[1] /\ t \in Seq(T)
  BY HeadTailProperties, LenProperties, EmptySeq
<1>2. IsFiniteSet(D) /\ Cardinality(D) \in Nat /\ IsFiniteSet(E) /\ Cardinality(E) \in Nat
  BY <1>1, CountNat DEF CountIn
<1> HIDE DEF t
<1>3. f \in Bijection(E, D \ {1})
  <2>1. f \in [E -> D \ {1}]
    BY <1>1
  <2>2. \A a, b \in E : f[a] = f[b] => a = b
    BY <1>1
  <2>3. \A m \in D \ {1} : \E n \in E : f[n] = m
    <3> SUFFICES ASSUME NEW m \in D \ {1} PROVE \E n \in E : f[n] = m
      OBVIOUS
    <3>1. m - 1 \in E /\ (m - 1) + 1 = m
      BY <1>1
    <3>2. f[m - 1] = m
      BY <3>1
    <3> QED BY <3>1, <3>2
  <2> QED BY <2>1, <2>2, <2>3 DEF Bijection, Injection, Surjection, IsInjective
<1>4. Cardinality(D \ {1}) = Cardinality(E)
  BY <1>2, <1>3, FS_Bijection DEF ExistsBijection
<1>5. 1 \in D <=> Head(s) \in S
  BY <1>1
<1> HIDE DEF D, E
<1>6. Cardinality(D \ {1}) = IF 1 \in D THEN Cardinality(D) - 1 ELSE Cardinality(D)
  BY <1>2, FS_RemoveElement
<1>7. Cardinality(E) = Cardinality(D) - (IF Head(s) \in S THEN 1 ELSE 0)
  <2>1. CASE Head(s) \in S
    BY <1>4, <1>5, <1>6, <2>1
  <2>2. CASE Head(s) \notin S
    BY <1>2, <1>4, <1>5, <1>6, <2>2
  <2> QED BY <2>1, <2>2
<1> QED BY <1>7 DEF CountIn, D, E, t

(* Every node of the forest, its parent among them, is a task.             *)
LEMMA ParentIsTask ==
  ASSUME NEW t \in Task, ~IsRoot(t)
  PROVE  Parent(t) \in Task
<1>1. t[1] \in 0..Subtrees - 1 /\ t[2] \in 0..2 * K - 2 /\ t[2] # 2 * K - 2
  BY DEF Task, IsRoot
<1>2. K + t[2] \div 2 \in 0..2 * K - 2
  BY <1>1, KAssumption
<1> QED BY <1>1, <1>2 DEF Task, Parent

LEMMA InitialAreTasks == InitialTasks \in Seq(Task)
<1>1. Subtrees * K \in Nat
  BY KAssumption, SubtreesAssumption
<1>2. ASSUME NEW n \in 1..Subtrees * K
      PROVE  <<(n - 1) \div K, (n - 1) % K>> \in Task
  <2> DEFINE q == (n - 1) \div K
             m == (n - 1) % K
  <2>1. K \in Nat /\ K > 0 /\ Subtrees \in Nat /\ n - 1 \in Nat /\ n - 1 < Subtrees * K
    BY <1>1, <1>2, KAssumption, SubtreesAssumption
  <2>2. q \in Nat /\ m \in 0..K - 1 /\ n - 1 = K * q + m
    BY <2>1
  <2> HIDE DEF q, m
  <2>3. K * q < K * Subtrees
    BY <2>1, <2>2
  <2>4. ~(q >= Subtrees)
    BY <2>1, <2>2, <2>3
  <2>5. q \in 0..Subtrees - 1 /\ m \in 0..2 * K - 2
    BY <2>1, <2>2, <2>4
  <2> QED BY <2>5 DEF Task, q, m
<1> DEFINE N == Subtrees * K
<1> HIDE DEF N
<1>3. N \in Nat /\ InitialTasks \in [1..N -> Task]
  BY <1>1, <1>2 DEF InitialTasks, N
<1> QED BY <1>3
-----------------------------------------------------------------------------
PoolTyped ==
    /\ joined \subseteq Rpi
    /\ held \in [Rpi -> 0..Units]

TasksTyped ==
    /\ initial_tasks \in Seq(Task)
    /\ dropped \in [Rpi -> Seq(Task)]
    /\ \A n \in DOMAIN on_fly_tasks : on_fly_tasks[n] \in Task
    /\ count \in Nat

ClientsTyped ==
    /\ client_queue \in [Rpi -> Seq(QueueItem)]
    /\ answering \in [Rpi -> TaskIds \cup {Nothing}]
    /\ result_queue \in Seq(Item)

WriterTyped ==
    /\ DOMAIN writer = {"at", "task", "rpi", "size"}
    /\ writer.at = "credit" => writer.task \in Task
    /\ writer.at = "add" => writer.task \in TaskIds /\ writer.rpi \in Rpi

ReaderTyped ==
    /\ DOMAIN reader = {"at", "item", "size"}
    /\ reader.at \in {"start", "take", "decode", "erase", "erased", "not found", "cleanup", "done"}
    /\ reader.at \in {"start", "take", "cleanup", "done"} => reader.item = Nothing
    /\ reader.at = "decode" => reader.item \in Item
    /\ reader.at \in {"erase", "erased", "not found"} => reader.item \in TaskIds

ResultsTyped ==
    /\ DOMAIN client_tasks = Rpi /\ DOMAIN answered = Rpi
    /\ client_tasks = [r \in Rpi |-> client_tasks[r]]
    /\ \A r \in Rpi : \A n \in DOMAIN client_tasks[r] : n \in TaskIds /\ client_tasks[r][n] \in Task
    /\ \A r \in Rpi : answering[r] # Nothing => answered[r] \in Task
    /\ \A r \in Rpi : answering[r] = Nothing => answered[r] = Nothing
    /\ writer.at = "add" => selected \in Task
    /\ computed \subseteq Task

(* The constructor starts both threads.                                    *)
StartTogether == writer.at = "start" => reader.at = "start"

Typed == /\ PoolTyped /\ TasksTyped /\ ClientsTyped /\ ResultsTyped
         /\ WriterTyped /\ ReaderTyped /\ StartTogether

IInv == Typed /\ CreditsAccounted

LEMMA IdFacts ==
  /\ Rpi \subseteq Int /\ TaskIds \subseteq Int
  /\ \A r \in Rpi : r \notin TaskIds /\ r # Nothing /\ IsCredit(r)
  /\ \A n \in TaskIds : ~IsCredit(n) /\ n # Nothing
  /\ -1 \notin TaskIds
  /\ \A c \in Nat : IdStart + (c % IdSpan) \in TaskIds
<1>1. IdStart \in Nat /\ IdStart > NumRpi /\ NumRpi \in Nat \ {0} /\ IdsPerRpi \in Nat \ {0}
  BY IdStartAssumption, NumRpiAssumption, IdsAssumption
<1>2. IdSpan \in Nat \ {0}
  BY <1>1 DEF IdSpan
<1>3. \A c \in Nat : c % IdSpan \in 0..IdSpan - 1
  BY <1>2
<1> QED BY <1>1, <1>2, <1>3, NothingAssumption DEF Rpi, TaskIds, IsCredit
-----------------------------------------------------------------------------
(* What leaves the variables of a conjunct alone keeps it.                 *)
LEMMA PoolKept == ASSUME PoolTyped, UNCHANGED pool PROVE PoolTyped'
BY DEF PoolTyped, pool

LEMMA TasksKept ==
  ASSUME TasksTyped, UNCHANGED <<initial_tasks, dropped, on_fly_tasks, count>>
  PROVE  TasksTyped'
BY DEF TasksTyped

LEMMA ClientsKept == ASSUME ClientsTyped, UNCHANGED clients PROVE ClientsTyped'
BY DEF ClientsTyped, clients

LEMMA ResultsKept ==
  ASSUME ResultsTyped, UNCHANGED <<results, answering>>, writer'.at = "add" => writer.at = "add"
  PROVE  ResultsTyped'
BY DEF ResultsTyped, results

LEMMA WriterKept == ASSUME WriterTyped, UNCHANGED writer PROVE WriterTyped'
BY DEF WriterTyped

LEMMA ReaderKept == ASSUME ReaderTyped, UNCHANGED reader PROVE ReaderTyped'
BY DEF ReaderTyped

(* Credits in the hands of the two threads.                                *)
InWriter(r) == IF writer.at = "add" /\ writer.rpi = r THEN 1 ELSE 0
InReader(r) == IF reader.item = r THEN 1 ELSE 0

LEMMA AccountKept ==
  ASSUME CreditsAccounted, UNCHANGED <<held, client_queue, result_queue, dropped>>,
         \A r \in Rpi : InWriter(r)' = InWriter(r) /\ InReader(r)' = InReader(r)
  PROVE  CreditsAccounted'
BY DEF CreditsAccounted, InWriter, InReader, CountIn

(* The numbers that CreditsAccounted adds up.                              *)
LEMMA Numbers ==
  ASSUME Typed, NEW r \in Rpi
  PROVE  /\ CountIn(client_queue[r], TaskIds) \in Nat
         /\ CountIn(result_queue, {r}) \in Nat
         /\ Len(dropped[r]) \in Nat
         /\ held[r] \in 0..Units
         /\ InWriter(r) \in {0, 1} /\ InReader(r) \in {0, 1}
<1>1. client_queue[r] \in Seq(QueueItem) /\ result_queue \in Seq(Item) /\ dropped[r] \in Seq(Task)
  BY DEF Typed, ClientsTyped, TasksTyped
<1> QED BY <1>1, CountNat, LenProperties DEF Typed, PoolTyped, InWriter, InReader

LEMMA InitIInv == Init => IInv
<1> SUFFICES ASSUME Init PROVE IInv
  OBVIOUS
<1>1. PoolTyped
  BY UnitsAssumption DEF Init, Pool!Init, PoolTyped
<1>2. TasksTyped
  BY InitialAreTasks DEF Init, TasksTyped
<1>3. ClientsTyped
  BY DEF Init, Clients!Init, ClientsTyped
<1>4. WriterTyped /\ ReaderTyped
  BY DEF Init, WriterTyped, ReaderTyped
<1>5. ASSUME NEW r \in Rpi
      PROVE  /\ held[r] = 0 /\ client_queue[r] = <<>> /\ result_queue = <<>> /\ dropped[r] = <<>>
             /\ writer.at # "add" /\ reader.item # r
  BY <1>5, IdFacts DEF Init, Pool!Init, Clients!Init
<1>6. CreditsAccounted
  <2> SUFFICES ASSUME NEW r \in Rpi
               PROVE  held[r] = CountIn(client_queue[r], TaskIds) + CountIn(result_queue, {r})
                                + InWriter(r) + InReader(r) + Len(dropped[r])
    BY DEF CreditsAccounted, InWriter, InReader
  <2>1. CountIn(client_queue[r], TaskIds) = 0 /\ CountIn(result_queue, {r}) = 0
    BY <1>3, <1>5, CountNat DEF ClientsTyped
  <2>2. Len(dropped[r]) = 0 /\ InWriter(r) = 0 /\ InReader(r) = 0
    BY <1>5 DEF InWriter, InReader
  <2> QED BY <1>5, <2>1, <2>2
<1>7. StartTogether
  BY DEF Init, StartTogether
<1>8. ResultsTyped
  BY DEF Init, Clients!Init, ResultsTyped
<1> QED BY <1>1, <1>2, <1>3, <1>4, <1>6, <1>7, <1>8 DEF IInv, Typed
-----------------------------------------------------------------------------
(* The constructor moves no credit.                                        *)
LEMMA ConstructorStep == ASSUME IInv, Constructor PROVE IInv'
<1> USE DEF IInv, Typed
<1>1. ASSUME NEW r \in Rpi, Register(r) PROVE IInv'
  <2>1. UNCHANGED <<pool, initial_tasks, ids, clients, results, dropped, writer, reader>>
    BY <1>1 DEF Register
  <2>2. CreditsAccounted'
    BY <2>1, AccountKept DEF pool, clients, InWriter, InReader
  <2>3. ResultsTyped'
    BY <2>1, ResultsKept DEF clients
  <2> QED BY <2>1, <2>2, <2>3, PoolKept, TasksKept, ClientsKept, WriterKept, ReaderKept
          DEF ids, StartTogether
<1>2. ASSUME NEW r \in Rpi, InitializeSecondaryResources(r) PROVE IInv'
  <2>1. /\ joined' = joined \cup {r} /\ held' = held
        /\ UNCHANGED <<initial_tasks, ids, clients, results, dropped, writer, reader>>
    BY <1>2 DEF InitializeSecondaryResources, Pool!Join
  <2>2. PoolTyped'
    BY <2>1 DEF PoolTyped
  <2>3. CreditsAccounted'
    BY <2>1, AccountKept DEF clients, InWriter, InReader
  <2>4. ResultsTyped'
    BY <2>1, ResultsKept DEF clients
  <2> QED BY <2>1, <2>2, <2>3, <2>4, TasksKept, ClientsKept, WriterKept, ReaderKept
          DEF ids, StartTogether
<1>3. ASSUME StartThreads PROVE IInv'
  <2>1. /\ writer' = [writer EXCEPT !.at = "pick"] /\ reader' = [reader EXCEPT !.at = "take"]
        /\ writer.at = "start"
        /\ UNCHANGED <<pool, initial_tasks, ids, clients, results, dropped>>
    BY <1>3 DEF StartThreads
  <2>2. CASE reader.at = "start"
    <3>1. WriterTyped' /\ ReaderTyped'
      BY <2>1, <2>2 DEF WriterTyped, ReaderTyped
    <3>2. StartTogether'
      BY <2>1, <2>2 DEF StartTogether, WriterTyped
    <3>3. CreditsAccounted'
      BY <2>1, <2>2, AccountKept DEF pool, clients, InWriter, InReader, WriterTyped, ReaderTyped
    <3>4. ResultsTyped'
      BY <2>1, ResultsKept DEF clients, WriterTyped
    <3> QED BY <2>1, <3>1, <3>2, <3>3, <3>4, PoolKept, TasksKept, ClientsKept DEF ids
  <2> QED BY <2>1, <2>2 DEF StartTogether
<1> QED BY <1>1, <1>2, <1>3 DEF Constructor
-----------------------------------------------------------------------------
LEMMA WriterPickStep == ASSUME IInv, WriterPick PROVE IInv'
<1> USE DEF IInv, Typed
<1>1. /\ writer.at = "pick" /\ initial_tasks # <<>>
      /\ writer' = [writer EXCEPT !.at = "credit", !.task = Head(initial_tasks)]
      /\ initial_tasks' = Tail(initial_tasks)
      /\ UNCHANGED <<joined, held, ids, clients, results, dropped, reader>>
  BY DEF WriterPick, Pool!Ask
<1>2. PoolTyped'
  BY <1>1 DEF PoolTyped
<1>3. Head(initial_tasks) \in Task /\ Tail(initial_tasks) \in Seq(Task)
  BY <1>1, HeadTailProperties DEF TasksTyped
<1>4. TasksTyped'
  BY <1>1, <1>3 DEF TasksTyped, ids
<1>5. WriterTyped' /\ StartTogether'
  BY <1>1, <1>3 DEF WriterTyped, StartTogether
<1>6. CreditsAccounted'
  BY <1>1, AccountKept DEF clients, InWriter, InReader, WriterTyped
<1>7. ResultsTyped'
  BY <1>1, ResultsKept DEF clients, WriterTyped
<1> QED BY <1>1, <1>2, <1>4, <1>5, <1>6, <1>7, ClientsKept, ReaderKept

(* A credit is granted: it is with the writer, or gone with the task.      *)
LEMMA WriterAssignStep == ASSUME IInv, WriterAssign PROVE IInv'
<1> USE DEF IInv, Typed
<1>1. PICK r \in Rpi : held[r] < Units /\ held' = [held EXCEPT ![r] = @ + 1]
  BY DEF WriterAssign, Pool!Grant, PoolTyped
<1>2. \A q \in Rpi : held'[q] = IF q = r THEN held[q] + 1 ELSE held[q]
  BY <1>1 DEF PoolTyped
<1>3. IF r \in client_map THEN WriterInsert(r) ELSE WriterDrop(r)
  BY <1>2 DEF WriterAssign
<1>4. /\ writer.at = "credit" /\ joined' = joined
      /\ UNCHANGED <<initial_tasks, element_count, clients, client_tasks, answered, computed,
                     reader>>
  BY DEF WriterAssign, Pool!Grant
<1>5. PoolTyped'
  BY <1>1, <1>4, UnitsAssumption DEF PoolTyped
<1>6. CASE r \in client_map
  <2> DEFINE id == IdStart + (count % IdSpan)
             size == IF id \in DOMAIN on_fly_tasks THEN Nothing ELSE element_count
  <2>1. /\ on_fly_tasks' = [n \in DOMAIN on_fly_tasks \cup {id} |->
                               IF n = id THEN writer.task ELSE on_fly_tasks[n]]
        /\ writer' = [at |-> "add", task |-> id, rpi |-> r, size |-> size]
        /\ count' = count + 1 /\ dropped' = dropped /\ selected' = writer.task
    BY <1>3, <1>6 DEF WriterInsert
  <2>2. id \in TaskIds
    BY IdFacts DEF TasksTyped
  <2> HIDE DEF id, size
  <2>3. TasksTyped'
    BY <1>4, <2>1 DEF TasksTyped, WriterTyped
  <2>4. WriterTyped' /\ StartTogether'
    BY <2>1, <2>2 DEF WriterTyped, StartTogether
  <2>5. CreditsAccounted'
    <3> SUFFICES ASSUME NEW q \in Rpi
                 PROVE  held'[q] = CountIn(client_queue'[q], TaskIds) + CountIn(result_queue', {q})
                                   + InWriter(q)' + InReader(q)' + Len(dropped'[q])
      BY DEF CreditsAccounted, InWriter, InReader
    <3>1. held[q] = CountIn(client_queue[q], TaskIds) + CountIn(result_queue, {q})
                    + InWriter(q) + InReader(q) + Len(dropped[q])
      BY DEF CreditsAccounted, InWriter, InReader
    <3>2. InWriter(q) = 0 /\ InWriter(q)' = IF q = r THEN 1 ELSE 0
      BY <1>4, <2>1 DEF InWriter
    <3>3. InReader(q)' = InReader(q) /\ client_queue' = client_queue /\ result_queue' = result_queue
      BY <1>4 DEF InReader, clients
    <3> QED BY <1>2, <2>1, <3>1, <3>2, <3>3, Numbers
  <2>6. ResultsTyped'
    BY <1>4, <2>1 DEF ResultsTyped, WriterTyped, clients
  <2> QED BY <1>4, <1>5, <2>3, <2>4, <2>5, <2>6, ClientsKept, ReaderKept
<1>7. CASE r \notin client_map
  <2>1. /\ dropped' = [dropped EXCEPT ![r] = Append(dropped[r], writer.task)]
        /\ writer' = [at |-> "pick", task |-> Nothing, rpi |-> Nothing, size |-> 0]
        /\ UNCHANGED <<on_fly_tasks, count>>
    BY <1>3, <1>7 DEF WriterDrop
  <2>2. \A q \in Rpi : /\ dropped'[q] \in Seq(Task)
                       /\ Len(dropped'[q]) = IF q = r THEN Len(dropped[q]) + 1 ELSE Len(dropped[q])
    <3>1. \A q \in Rpi : dropped'[q] = IF q = r THEN Append(dropped[r], writer.task) ELSE dropped[q]
      BY <2>1 DEF TasksTyped
    <3>2. writer.task \in Task /\ \A q \in Rpi : dropped[q] \in Seq(Task)
      BY <1>4 DEF WriterTyped, TasksTyped
    <3>3. /\ Append(dropped[r], writer.task) \in Seq(Task)
          /\ Len(Append(dropped[r], writer.task)) = Len(dropped[r]) + 1
      BY <3>2, AppendProperties
    <3> QED BY <3>1, <3>2, <3>3
  <2>3. dropped' \in [Rpi -> Seq(Task)]
    BY <2>1, <2>2 DEF TasksTyped
  <2>4. TasksTyped'
    BY <1>4, <2>1, <2>3 DEF TasksTyped
  <2>5. WriterTyped' /\ StartTogether'
    BY <2>1 DEF WriterTyped, StartTogether
  <2>6. CreditsAccounted'
    <3> SUFFICES ASSUME NEW q \in Rpi
                 PROVE  held'[q] = CountIn(client_queue'[q], TaskIds) + CountIn(result_queue', {q})
                                   + InWriter(q)' + InReader(q)' + Len(dropped'[q])
      BY DEF CreditsAccounted, InWriter, InReader
    <3>1. held[q] = CountIn(client_queue[q], TaskIds) + CountIn(result_queue, {q})
                    + InWriter(q) + InReader(q) + Len(dropped[q])
      BY DEF CreditsAccounted, InWriter, InReader
    <3>2. InWriter(q) = 0 /\ InWriter(q)' = 0
      BY <1>4, <2>1 DEF InWriter
    <3>3. InReader(q)' = InReader(q) /\ client_queue' = client_queue /\ result_queue' = result_queue
      BY <1>4 DEF InReader, clients
    <3>4. /\ held'[q] = IF q = r THEN held[q] + 1 ELSE held[q]
          /\ Len(dropped'[q]) = IF q = r THEN Len(dropped[q]) + 1 ELSE Len(dropped[q])
      BY <1>2, <2>2
    <3> QED BY <3>1, <3>2, <3>3, <3>4, Numbers, SMTT(30)
  <2>7. ResultsTyped'
    BY <1>4, <2>1 DEF ResultsTyped, clients
  <2> QED BY <1>4, <1>5, <2>4, <2>5, <2>6, <2>7, ClientsKept, ReaderKept
<1> QED BY <1>6, <1>7

(* The credit goes with the task to the node's client.                     *)
LEMMA WriterAddStep == ASSUME IInv, WriterAdd PROVE IInv'
<1> USE DEF IInv, Typed
<1>1. /\ writer.at = "add" /\ writer.task \in TaskIds /\ writer.rpi \in Rpi
      /\ client_queue' = [client_queue EXCEPT ![writer.rpi] = Append(@, writer.task)]
      /\ writer' = [at |-> "pick", task |-> Nothing, rpi |-> Nothing, size |-> 0]
      /\ UNCHANGED <<pool, initial_tasks, on_fly_tasks, count, dropped, reader, answering,
                     result_queue, answered, computed>>
      /\ client_tasks' = [client_tasks EXCEPT ![writer.rpi] =
                              [n \in DOMAIN @ \cup {writer.task} |->
                                  IF n = writer.task THEN selected ELSE @[n]]]
  BY DEF WriterAdd, Clients!Give, WriterTyped
<1>2. \A q \in Rpi : client_queue'[q] = IF q = writer.rpi THEN Append(client_queue[q], writer.task)
                                        ELSE client_queue[q]
  BY <1>1 DEF ClientsTyped
<1>3. \A q \in Rpi :
         /\ client_queue'[q] \in Seq(QueueItem)
         /\ CountIn(client_queue'[q], TaskIds)
               = CountIn(client_queue[q], TaskIds) + (IF q = writer.rpi THEN 1 ELSE 0)
  <2> SUFFICES ASSUME NEW q \in Rpi
               PROVE  /\ client_queue'[q] \in Seq(QueueItem)
                      /\ CountIn(client_queue'[q], TaskIds)
                            = CountIn(client_queue[q], TaskIds) + (IF q = writer.rpi THEN 1 ELSE 0)
    OBVIOUS
  <2>1. client_queue[q] \in Seq(QueueItem) /\ writer.task \in QueueItem
    BY <1>1 DEF ClientsTyped, QueueItem
  <2>2. CASE q = writer.rpi
    <3>1. CountIn(Append(client_queue[q], writer.task), TaskIds) = CountIn(client_queue[q], TaskIds) + 1
      BY <1>1, <2>1, CountAppend
    <3> QED BY <1>2, <2>1, <2>2, <3>1, AppendProperties
  <2>3. CASE q # writer.rpi
    <3>1. CountIn(client_queue[q], TaskIds) \in Nat
      BY Numbers
    <3> QED BY <1>2, <2>1, <2>3, <3>1
  <2> QED BY <2>2, <2>3
<1>4. ClientsTyped'
  BY <1>1, <1>3 DEF ClientsTyped
<1>5. WriterTyped' /\ StartTogether'
  BY <1>1 DEF WriterTyped, StartTogether
<1>6. CreditsAccounted'
  <2> SUFFICES ASSUME NEW q \in Rpi
               PROVE  held'[q] = CountIn(client_queue'[q], TaskIds) + CountIn(result_queue', {q})
                                 + InWriter(q)' + InReader(q)' + Len(dropped'[q])
    BY DEF CreditsAccounted, InWriter, InReader
  <2>1. held[q] = CountIn(client_queue[q], TaskIds) + CountIn(result_queue, {q})
                  + InWriter(q) + InReader(q) + Len(dropped[q])
    BY DEF CreditsAccounted, InWriter, InReader
  <2>2. InWriter(q) = (IF q = writer.rpi THEN 1 ELSE 0) /\ InWriter(q)' = 0
    BY <1>1 DEF InWriter
  <2>3. InReader(q)' = InReader(q) /\ held' = held
    BY <1>1 DEF InReader, pool
  <2> QED BY <1>1, <1>3, <2>1, <2>2, <2>3, Numbers
<1>7. ResultsTyped'
  <2>1. /\ DOMAIN client_tasks' = Rpi
        /\ \A q \in Rpi : q # writer.rpi => client_tasks'[q] = client_tasks[q]
        /\ client_tasks'[writer.rpi] =
              [n \in DOMAIN client_tasks[writer.rpi] \cup {writer.task} |->
                  IF n = writer.task THEN selected ELSE client_tasks[writer.rpi][n]]
    BY <1>1 DEF ResultsTyped
  <2>2. client_tasks' = [q \in Rpi |-> client_tasks'[q]]
    BY <1>1 DEF ResultsTyped
  <2>3. ASSUME NEW q \in Rpi, NEW n \in DOMAIN client_tasks'[q]
        PROVE  n \in TaskIds /\ client_tasks'[q][n] \in Task
    BY <1>1, <2>1, <2>3 DEF ResultsTyped
  <2> QED BY <1>1, <2>1, <2>2, <2>3 DEF ResultsTyped
<1> QED BY <1>1, <1>4, <1>5, <1>6, <1>7, PoolKept, TasksKept, ReaderKept

LEMMA WriterStopStep == ASSUME IInv, WriterStop PROVE IInv'
<1> USE DEF IInv, Typed
<1>1. /\ writer.at = "pick" /\ writer' = [writer EXCEPT !.at = "done"]
      /\ UNCHANGED <<pool, initial_tasks, ids, clients, results, dropped, reader>>
  BY DEF WriterStop
<1>2. WriterTyped' /\ StartTogether'
  BY <1>1 DEF WriterTyped, StartTogether
<1>3. CreditsAccounted'
  BY <1>1, AccountKept DEF pool, clients, InWriter, InReader, WriterTyped
<1>4. ResultsTyped'
  BY <1>1, ResultsKept DEF clients, WriterTyped
<1> QED BY <1>1, <1>2, <1>3, <1>4, PoolKept, TasksKept, ClientsKept, ReaderKept DEF ids
-----------------------------------------------------------------------------
(* The two steps of a client.                                              *)
CreditReturned(r) ==
    /\ answering[r] = Nothing
    /\ client_queue[r] # <<>> /\ Head(client_queue[r]) \in DOMAIN client_tasks[r]
    /\ result_queue' = Append(result_queue, r)
    /\ answering' = [answering EXCEPT ![r] = Head(client_queue[r])]
    /\ client_queue' = [client_queue EXCEPT ![r] = Tail(@)]
    /\ answered' = [answered EXCEPT ![r] = client_tasks[r][Head(client_queue[r])]]
    /\ client_tasks' = [client_tasks EXCEPT ![r] =
                            [m \in DOMAIN client_tasks[r] \ {Head(client_queue[r])} |->
                                client_tasks[r][m]]]
    /\ UNCHANGED <<client_map, pool, initial_tasks, ids, selected, computed, finished,
                   remaining_tasks, dropped, stop, writer, reader>>

ResultReturned(r) ==
    /\ answering[r] # Nothing
    /\ result_queue' = Append(result_queue, answering[r])
    /\ answering' = [answering EXCEPT ![r] = Nothing]
    /\ computed' = computed \cup {answered[r]}
    /\ answered' = [answered EXCEPT ![r] = Nothing]
    /\ UNCHANGED <<client_map, pool, initial_tasks, ids, client_queue, selected, client_tasks,
                   finished, remaining_tasks, dropped, stop, writer, reader>>

LEMMA ClientStep ==
  ASSUME NEW r \in Rpi, Client(r)
  PROVE  /\ CreditReturned(r) \/ ResultReturned(r)
         /\ Clients!Client(r)
<1>1. ReturnCredit(r) \/ ReturnResult(r)
  BY DEF Client
<1>2. CASE ReturnCredit(r)
  <2>1. Clients!ReturnCredit(r) /\ Clients!IsFound(r)
    BY <1>2 DEF ReturnCredit
  <2>2. client_queue[r] # <<>> /\ Head(client_queue[r]) \in DOMAIN client_tasks[r]
    BY <2>1 DEF Clients!IsFound
  <2>3. /\ answering[r] = Nothing
        /\ result_queue' = Append(result_queue, r)
        /\ answering' = [answering EXCEPT ![r] = Head(client_queue[r])]
        /\ client_queue' = [client_queue EXCEPT ![r] = Tail(@)]
    BY <2>1 DEF Clients!ReturnCredit, Clients!WithCredit
  <2>4. /\ answered' = [answered EXCEPT ![r] = client_tasks[r][Head(client_queue[r])]]
        /\ client_tasks' = [client_tasks EXCEPT ![r] =
                                [m \in DOMAIN client_tasks[r] \ {Head(client_queue[r])} |->
                                    client_tasks[r][m]]]
        /\ UNCHANGED <<selected, computed>>
    BY <1>2 DEF ReturnCredit, Restrict
  <2> QED BY <2>1, <2>2, <2>3, <2>4 DEF Client, CreditReturned, Clients!Client
<1>3. CASE ReturnResult(r)
  <2>1. Clients!ReturnResult(r) /\ UNCHANGED client_queue
    BY <1>3 DEF ReturnResult, Clients!ReturnResult
  <2> QED BY <1>3, <2>1 DEF Client, ReturnResult, ResultReturned, Clients!ReturnResult, Clients!Client
<1> QED BY <1>1, <1>2, <1>3

(* The credit leaves the client before the result does.                    *)
LEMMA ReturnCreditStep ==
  ASSUME IInv, NEW r \in Rpi, CreditReturned(r) PROVE IInv'
<1> USE DEF IInv, Typed
<1>1. /\ client_queue[r] # <<>> /\ Head(client_queue[r]) \in DOMAIN client_tasks[r]
      /\ result_queue' = Append(result_queue, r)
      /\ answering' = [answering EXCEPT ![r] = Head(client_queue[r])]
      /\ client_queue' = [client_queue EXCEPT ![r] = Tail(@)]
      /\ UNCHANGED <<pool, initial_tasks, ids, dropped, writer, reader>>
  BY DEF CreditReturned
<1>2. client_queue[r] \in Seq(QueueItem) /\ result_queue \in Seq(Item) /\ r \in Item
  BY DEF ClientsTyped, Item
<1>3. /\ Head(client_queue[r]) \in TaskIds
      /\ Tail(client_queue[r]) \in Seq(QueueItem)
      /\ CountIn(Tail(client_queue[r]), TaskIds) = CountIn(client_queue[r], TaskIds) - 1
  <2>1. Head(client_queue[r]) \in QueueItem /\ Tail(client_queue[r]) \in Seq(QueueItem)
    BY <1>1, <1>2, HeadTailProperties
  <2>2. Head(client_queue[r]) \in TaskIds
    BY <1>1 DEF ResultsTyped
  <2> QED BY <1>1, <1>2, <2>1, <2>2, CountTail
<1>4. /\ Append(result_queue, r) \in Seq(Item)
      /\ \A q \in Rpi : CountIn(Append(result_queue, r), {q})
                           = CountIn(result_queue, {q}) + (IF q = r THEN 1 ELSE 0)
  <2>1. ASSUME NEW q \in Rpi
        PROVE  CountIn(Append(result_queue, r), {q})
                  = CountIn(result_queue, {q}) + (IF q = r THEN 1 ELSE 0)
    <3>1. r \in {q} <=> q = r
      OBVIOUS
    <3> QED BY <1>2, <3>1, CountAppend
  <2> QED BY <1>2, <2>1, AppendProperties
<1>5. ClientsTyped'
  BY <1>1, <1>3, <1>4 DEF ClientsTyped
<1>6. \A q \in Rpi : client_queue'[q] = IF q = r THEN Tail(client_queue[r]) ELSE client_queue[q]
  BY <1>1 DEF ClientsTyped
<1>7. CreditsAccounted'
  <2> SUFFICES ASSUME NEW q \in Rpi
               PROVE  held'[q] = CountIn(client_queue'[q], TaskIds) + CountIn(result_queue', {q})
                                 + InWriter(q)' + InReader(q)' + Len(dropped'[q])
    BY DEF CreditsAccounted, InWriter, InReader
  <2>1. held[q] = CountIn(client_queue[q], TaskIds) + CountIn(result_queue, {q})
                  + InWriter(q) + InReader(q) + Len(dropped[q])
    BY DEF CreditsAccounted, InWriter, InReader
  <2>2. /\ InWriter(q)' = InWriter(q) /\ InReader(q)' = InReader(q)
        /\ held' = held /\ dropped' = dropped
    BY <1>1 DEF InWriter, InReader, pool
  <2>3. CASE q = r
    <3>1. /\ CountIn(client_queue'[q], TaskIds) = CountIn(client_queue[q], TaskIds) - 1
          /\ CountIn(result_queue', {q}) = CountIn(result_queue, {q}) + 1
      BY <1>1, <1>3, <1>4, <1>6, <2>3
    <3> QED BY <2>1, <2>2, <3>1, Numbers
  <2>4. CASE q # r
    <3>1. /\ client_queue'[q] = client_queue[q]
          /\ CountIn(result_queue', {q}) = CountIn(result_queue, {q}) + 0
      BY <1>1, <1>4, <1>6, <2>4
    <3> QED BY <2>1, <2>2, <3>1, Numbers
  <2> QED BY <2>3, <2>4
<1>8. ResultsTyped'
  <2>1. PICK n : n = Head(client_queue[r])
    OBVIOUS
  <2>2. /\ n \in DOMAIN client_tasks[r] /\ n \in TaskIds
        /\ answering' = [answering EXCEPT ![r] = n]
        /\ answered' = [answered EXCEPT ![r] = client_tasks[r][n]]
        /\ client_tasks' = [client_tasks EXCEPT ![r] =
                                [m \in DOMAIN client_tasks[r] \ {n} |-> client_tasks[r][m]]]
        /\ UNCHANGED <<selected, computed, writer>>
    BY <1>1, <1>3, <2>1 DEF CreditReturned
  <2>3. /\ DOMAIN client_tasks' = Rpi /\ DOMAIN answered' = Rpi
        /\ client_tasks' = [q \in Rpi |-> client_tasks'[q]]
        /\ \A q \in Rpi : q # r => client_tasks'[q] = client_tasks[q] /\ answered'[q] = answered[q]
                                  /\ answering'[q] = answering[q]
        /\ client_tasks'[r] = [m \in DOMAIN client_tasks[r] \ {n} |-> client_tasks[r][m]]
        /\ answered'[r] = client_tasks[r][n] /\ answering'[r] = n
    BY <2>2 DEF ResultsTyped, ClientsTyped
  <2>4. n # Nothing
    BY <2>2, IdFacts
  <2>5. ASSUME NEW q \in Rpi, NEW m \in DOMAIN client_tasks'[q]
        PROVE  m \in TaskIds /\ client_tasks'[q][m] \in Task
    BY <2>3, <2>5 DEF ResultsTyped
  <2>6. \A q \in Rpi : /\ answering'[q] # Nothing => answered'[q] \in Task
                       /\ answering'[q] = Nothing => answered'[q] = Nothing
    BY <2>2, <2>3, <2>4 DEF ResultsTyped
  <2> QED BY <2>2, <2>3, <2>5, <2>6 DEF ResultsTyped
<1> QED BY <1>1, <1>5, <1>7, <1>8, PoolKept, TasksKept, WriterKept, ReaderKept DEF ids, StartTogether

LEMMA ReturnResultStep ==
  ASSUME IInv, NEW r \in Rpi, ResultReturned(r) PROVE IInv'
<1> USE DEF IInv, Typed
<1>1. /\ answering[r] # Nothing
      /\ result_queue' = Append(result_queue, answering[r])
      /\ answering' = [answering EXCEPT ![r] = Nothing]
      /\ UNCHANGED <<client_queue, pool, initial_tasks, ids, dropped, writer, reader>>
  BY DEF ResultReturned
<1>2. answering[r] \in TaskIds /\ answering[r] \in Item /\ result_queue \in Seq(Item)
  BY <1>1 DEF ClientsTyped, Item
<1>3. /\ result_queue' \in Seq(Item)
      /\ \A q \in Rpi : CountIn(result_queue', {q}) = CountIn(result_queue, {q})
  <2>1. ASSUME NEW q \in Rpi PROVE CountIn(result_queue', {q}) = CountIn(result_queue, {q})
    <3>1. answering[r] \notin {q}
      BY <1>2, IdFacts
    <3>2. CountIn(result_queue', {q}) = CountIn(result_queue, {q}) + 0
      BY <1>1, <1>2, <3>1, CountAppend
    <3>3. CountIn(result_queue, {q}) \in Nat
      BY Numbers
    <3> QED BY <3>2, <3>3
  <2> QED BY <1>1, <1>2, <2>1, AppendProperties
<1>4. ClientsTyped'
  BY <1>1, <1>3 DEF ClientsTyped
<1>5. CreditsAccounted'
  <2> SUFFICES ASSUME NEW q \in Rpi
               PROVE  held'[q] = CountIn(client_queue'[q], TaskIds) + CountIn(result_queue', {q})
                                 + InWriter(q)' + InReader(q)' + Len(dropped'[q])
    BY DEF CreditsAccounted, InWriter, InReader
  <2>1. held[q] = CountIn(client_queue[q], TaskIds) + CountIn(result_queue, {q})
                  + InWriter(q) + InReader(q) + Len(dropped[q])
    BY DEF CreditsAccounted, InWriter, InReader
  <2>2. InWriter(q)' = InWriter(q) /\ InReader(q)' = InReader(q) /\ held' = held
    BY <1>1 DEF InWriter, InReader, pool
  <2> QED BY <1>1, <1>3, <2>1, <2>2
<1>6. ResultsTyped'
  <2>1. /\ computed' = computed \cup {answered[r]} /\ answered' = [answered EXCEPT ![r] = Nothing]
        /\ UNCHANGED <<selected, client_tasks, writer>>
    BY DEF ResultReturned
  <2>2. \A q \in Rpi : /\ answering'[q] # Nothing => q # r /\ answering[q] # Nothing
                       /\ answered'[q] = IF q = r THEN Nothing ELSE answered[q]
                       /\ answering'[q] = IF q = r THEN Nothing ELSE answering[q]
    BY <1>1, <2>1 DEF ResultsTyped, ClientsTyped
  <2>3. answered[r] \in Task
    BY <1>1 DEF ResultsTyped
  <2> QED BY <2>1, <2>2, <2>3 DEF ResultsTyped
<1> QED BY <1>1, <1>4, <1>5, <1>6, PoolKept, TasksKept, WriterKept, ReaderKept DEF ids, StartTogether
-----------------------------------------------------------------------------
(* The reader takes a credit, or an id, from the queue.                    *)
LEMMA ReaderTakeStep == ASSUME IInv, ReaderTake PROVE IInv'
<1> USE DEF IInv, Typed
<1>1. /\ reader.at = "take" /\ reader.item = Nothing /\ result_queue # <<>>
      /\ result_queue' = Tail(result_queue)
      /\ reader' = [reader EXCEPT !.at = "decode", !.item = Head(result_queue)]
      /\ UNCHANGED <<pool, initial_tasks, ids, client_queue, answering, results, dropped, writer>>
  BY DEF ReaderTake, Clients!Take, ReaderTyped
<1>2. result_queue \in Seq(Item) /\ Head(result_queue) \in Item /\ Tail(result_queue) \in Seq(Item)
  BY <1>1, HeadTailProperties DEF ClientsTyped
<1>3. ClientsTyped' /\ ReaderTyped'
  BY <1>1, <1>2 DEF ClientsTyped, ReaderTyped
<1>4. StartTogether'
  BY <1>1 DEF StartTogether
<1>5. CreditsAccounted'
  <2> SUFFICES ASSUME NEW q \in Rpi
               PROVE  held'[q] = CountIn(client_queue'[q], TaskIds) + CountIn(result_queue', {q})
                                 + InWriter(q)' + InReader(q)' + Len(dropped'[q])
    BY DEF CreditsAccounted, InWriter, InReader
  <2>1. held[q] = CountIn(client_queue[q], TaskIds) + CountIn(result_queue, {q})
                  + InWriter(q) + InReader(q) + Len(dropped[q])
    BY DEF CreditsAccounted, InWriter, InReader
  <2>2. InWriter(q)' = InWriter(q) /\ held' = held
    BY <1>1 DEF InWriter, pool
  <2>3. InReader(q) = 0 /\ InReader(q)' = IF Head(result_queue) \in {q} THEN 1 ELSE 0
    BY <1>1, IdFacts DEF InReader, ReaderTyped
  <2>4. CountIn(result_queue', {q})
           = CountIn(result_queue, {q}) - (IF Head(result_queue) \in {q} THEN 1 ELSE 0)
    BY <1>1, <1>2, CountTail
  <2>5. /\ CountIn(client_queue[q], TaskIds) \in Nat /\ CountIn(result_queue, {q}) \in Nat
        /\ InWriter(q) \in {0, 1} /\ Len(dropped[q]) \in Nat
    BY Numbers
  <2>6. client_queue' = client_queue /\ dropped' = dropped
    BY <1>1
  <2> HIDE DEF IInv, Typed
  <2> QED BY <2>1, <2>2, <2>3, <2>4, <2>5, <2>6
<1> QED BY <1>1, <1>3, <1>4, <1>5, PoolKept, TasksKept, ResultsKept, WriterKept DEF ids

(* The credit goes back to the pool.                                       *)
LEMMA ReaderReleaseStep == ASSUME IInv, ReaderRelease PROVE IInv'
<1> USE DEF IInv, Typed
<1>1. /\ reader.at = "decode" /\ IsCredit(reader.item) /\ held[reader.item] > 0
      /\ held' = [held EXCEPT ![reader.item] = @ - 1] /\ joined' = joined
      /\ reader' = [reader EXCEPT !.at = "take", !.item = Nothing]
      /\ UNCHANGED <<initial_tasks, ids, clients, results, dropped, writer>>
  BY DEF ReaderRelease, Pool!GiveBack
<1>2. reader.item \in Rpi
  BY <1>1, IdFacts DEF ReaderTyped, Item
<1>3. \A q \in Rpi : held'[q] = IF q = reader.item THEN held[q] - 1 ELSE held[q]
  BY <1>1 DEF PoolTyped
<1>4. PoolTyped'
  BY <1>1, <1>2, UnitsAssumption DEF PoolTyped
<1>5. ReaderTyped' /\ StartTogether'
  BY <1>1 DEF ReaderTyped, StartTogether
<1>6. CreditsAccounted'
  <2> SUFFICES ASSUME NEW q \in Rpi
               PROVE  held'[q] = CountIn(client_queue'[q], TaskIds) + CountIn(result_queue', {q})
                                 + InWriter(q)' + InReader(q)' + Len(dropped'[q])
    BY DEF CreditsAccounted, InWriter, InReader
  <2>1. held[q] = CountIn(client_queue[q], TaskIds) + CountIn(result_queue, {q})
                  + InWriter(q) + InReader(q) + Len(dropped[q])
    BY DEF CreditsAccounted, InWriter, InReader
  <2>2. /\ InWriter(q)' = InWriter(q) /\ client_queue' = client_queue
        /\ result_queue' = result_queue /\ dropped' = dropped
    BY <1>1 DEF InWriter, clients
  <2>3. InReader(q) = (IF q = reader.item THEN 1 ELSE 0) /\ InReader(q)' = 0
    BY <1>1, IdFacts DEF InReader, ReaderTyped
  <2> QED BY <1>3, <2>1, <2>2, <2>3, Numbers
<1>7. ResultsTyped'
  BY <1>1, ResultsKept DEF clients
<1> QED BY <1>1, <1>4, <1>5, <1>6, <1>7, TasksKept, ClientsKept, WriterKept DEF ids

(* From here on the reader has an id in its hand, or nothing.              *)
LEMMA ReaderProcessStep == ASSUME IInv, ReaderProcess PROVE IInv'
<1> USE DEF IInv, Typed
<1>1. /\ reader.at = "decode" /\ ~IsCredit(reader.item)
      /\ UNCHANGED <<pool, ids, clients, results, dropped, writer>>
  BY DEF ReaderProcess
<1>2. reader.item \in TaskIds
  BY <1>1, IdFacts DEF ReaderTyped, Item
<1>3. reader' = [reader EXCEPT !.at = "erase"] \/ reader' = [reader EXCEPT !.at = "not found"]
  BY DEF ReaderProcess
<1>4. initial_tasks' \in Seq(Task)
  <2>1. CASE reader.item \in DOMAIN on_fly_tasks
    <3> DEFINE t == on_fly_tasks[reader.item]
    <3>1. t \in Task /\ initial_tasks \in Seq(Task)
      BY <2>1 DEF TasksTyped
    <3>2. initial_tasks' = IF ~IsRoot(t) /\ OtherOperandActive(t)
                           THEN Append(initial_tasks, Parent(t)) ELSE initial_tasks
      BY <2>1 DEF ReaderProcess
    <3> HIDE DEF t
    <3>3. ~IsRoot(t) => Append(initial_tasks, Parent(t)) \in Seq(Task)
      BY <3>1, ParentIsTask, AppendProperties
    <3> QED BY <3>1, <3>2, <3>3
  <2>2. CASE reader.item \notin DOMAIN on_fly_tasks
    BY <2>2 DEF ReaderProcess, TasksTyped
  <2> QED BY <2>1, <2>2
<1>5. TasksTyped'
  BY <1>1, <1>4 DEF TasksTyped, ids
<1>6. ReaderTyped' /\ StartTogether'
  BY <1>1, <1>2, <1>3 DEF ReaderTyped, StartTogether
<1>7. CreditsAccounted'
  BY <1>1, <1>3, AccountKept DEF pool, clients, InWriter, InReader, ReaderTyped
<1>8. ResultsTyped'
  BY <1>1, ResultsKept DEF clients
<1> QED BY <1>1, <1>5, <1>6, <1>7, <1>8, PoolKept, ClientsKept, WriterKept

LEMMA ReaderEraseStep == ASSUME IInv, ReaderErase PROVE IInv'
<1> USE DEF IInv, Typed
<1>1. /\ reader.at = "erase"
      /\ on_fly_tasks' = [n \in DOMAIN on_fly_tasks \ {reader.item} |-> on_fly_tasks[n]]
      /\ reader' = [reader EXCEPT !.at = "erased", !.size = element_count]
      /\ UNCHANGED <<pool, initial_tasks, count, clients, results, dropped, writer>>
  BY DEF ReaderErase, WithoutEntry, Restrict
<1>2. TasksTyped'
  BY <1>1 DEF TasksTyped
<1>3. ReaderTyped' /\ StartTogether'
  BY <1>1 DEF ReaderTyped, StartTogether
<1>4. CreditsAccounted'
  BY <1>1, AccountKept DEF pool, clients, InWriter, InReader, ReaderTyped
<1>5. ResultsTyped'
  BY <1>1, ResultsKept DEF clients
<1> QED BY <1>1, <1>2, <1>3, <1>4, <1>5, PoolKept, ClientsKept, WriterKept

LEMMA ReaderCheckStep == ASSUME IInv, ReaderCheck PROVE IInv'
<1> USE DEF IInv, Typed
<1>1. /\ reader.at \in {"erased", "not found"}
      /\ reader' = [at |-> IF AllRootsDone THEN "cleanup" ELSE "take", item |-> Nothing, size |-> 0]
      /\ UNCHANGED <<pool, initial_tasks, on_fly_tasks, count, clients, results, dropped, writer>>
  BY DEF ReaderCheck
<1>2. reader.item \in TaskIds
  BY <1>1 DEF ReaderTyped
<1>3. ReaderTyped' /\ StartTogether'
  BY <1>1 DEF ReaderTyped, StartTogether
<1>4. \A q \in Rpi : InReader(q)' = InReader(q) /\ InWriter(q)' = InWriter(q)
  BY <1>1, <1>2, IdFacts DEF InReader, InWriter
<1>5. CreditsAccounted'
  BY <1>1, <1>4, AccountKept DEF pool, clients
<1>6. ResultsTyped'
  BY <1>1, ResultsKept DEF clients
<1> QED BY <1>1, <1>3, <1>5, <1>6, PoolKept, TasksKept, ClientsKept, WriterKept

(* The -1 that ends a client's queue is no task.                           *)
LEMMA CleanUpStep == ASSUME IInv, CleanUp PROVE IInv'
<1> USE DEF IInv, Typed
<1>1. /\ reader.at = "cleanup" /\ reader' = [reader EXCEPT !.at = "done"]
      /\ client_queue' = [r \in Rpi |-> IF r \in client_map THEN Append(client_queue[r], -1)
                                        ELSE client_queue[r]]
      /\ UNCHANGED <<answering, result_queue, results, pool, initial_tasks, ids, dropped, writer>>
  BY DEF CleanUp, Clients!Close, Clients!Stop
<1>2. \A q \in Rpi :
         /\ client_queue'[q] \in Seq(QueueItem)
         /\ CountIn(client_queue'[q], TaskIds) = CountIn(client_queue[q], TaskIds)
  <2> SUFFICES ASSUME NEW q \in Rpi
               PROVE  /\ client_queue'[q] \in Seq(QueueItem)
                      /\ CountIn(client_queue'[q], TaskIds) = CountIn(client_queue[q], TaskIds)
    OBVIOUS
  <2>1. client_queue[q] \in Seq(QueueItem) /\ -1 \in QueueItem /\ -1 \notin TaskIds
    BY IdFacts DEF ClientsTyped, QueueItem
  <2>2. CASE q \in client_map
    <3>1. CountIn(Append(client_queue[q], -1), TaskIds) = CountIn(client_queue[q], TaskIds) + 0
      BY <2>1, CountAppend
    <3>2. Append(client_queue[q], -1) \in Seq(QueueItem)
      BY <2>1, AppendProperties
    <3>3. client_queue'[q] = Append(client_queue[q], -1)
      BY <1>1, <2>2
    <3>4. CountIn(client_queue[q], TaskIds) \in Nat
      BY Numbers
    <3> QED BY <3>1, <3>2, <3>3, <3>4
  <2>3. CASE q \notin client_map
    BY <1>1, <2>1, <2>3
  <2> QED BY <2>2, <2>3
<1>3. ClientsTyped'
  BY <1>1, <1>2 DEF ClientsTyped
<1>4. ReaderTyped' /\ StartTogether'
  BY <1>1 DEF ReaderTyped, StartTogether
<1>5. CreditsAccounted'
  <2> SUFFICES ASSUME NEW q \in Rpi
               PROVE  held'[q] = CountIn(client_queue'[q], TaskIds) + CountIn(result_queue', {q})
                                 + InWriter(q)' + InReader(q)' + Len(dropped'[q])
    BY DEF CreditsAccounted, InWriter, InReader
  <2>1. held[q] = CountIn(client_queue[q], TaskIds) + CountIn(result_queue, {q})
                  + InWriter(q) + InReader(q) + Len(dropped[q])
    BY DEF CreditsAccounted, InWriter, InReader
  <2>2. InWriter(q)' = InWriter(q) /\ InReader(q)' = InReader(q) /\ held' = held
    BY <1>1 DEF InWriter, InReader, ReaderTyped, pool
  <2> QED BY <1>1, <1>2, <2>1, <2>2
<1> QED BY <1>1, <1>3, <1>4, <1>5, PoolKept, TasksKept, ResultsKept, WriterKept DEF ids
-----------------------------------------------------------------------------
LEMMA StepIInv == IInv /\ [Next]_vars => IInv'
<1> SUFFICES ASSUME IInv, [Next]_vars PROVE IInv'
  OBVIOUS
<1>1. CASE Constructor
  BY <1>1, ConstructorStep
<1>2. CASE Writer
  BY <1>2, WriterPickStep, WriterAssignStep, WriterAddStep, WriterStopStep DEF Writer
<1>3. CASE Reader
  BY <1>3, ReaderTakeStep, ReaderReleaseStep, ReaderProcessStep, ReaderEraseStep,
     ReaderCheckStep, CleanUpStep DEF Reader
<1>4. ASSUME NEW r \in Rpi, Client(r) PROVE IInv'
  <2>1. CreditReturned(r) \/ ResultReturned(r)
    BY <1>4, ClientStep
  <2> QED BY <2>1, ReturnCreditStep, ReturnResultStep
<1>5. CASE Finished \/ UNCHANGED vars
  <2>1. UNCHANGED vars
    BY <1>5 DEF Finished
  <2>2. UNCHANGED <<pool, initial_tasks, ids, clients, results, dropped, writer, reader>>
    BY <2>1 DEF vars
  <2>3. CreditsAccounted'
    BY <2>2, AccountKept DEF IInv, pool, clients, InWriter, InReader
  <2>4. ResultsTyped'
    BY <2>2, ResultsKept DEF IInv, Typed, clients
  <2> QED BY <2>2, <2>3, <2>4, PoolKept, TasksKept, ClientsKept, WriterKept, ReaderKept
          DEF IInv, Typed, ids, StartTogether
<1> QED BY <1>1, <1>2, <1>3, <1>4, <1>5 DEF Next

LEMMA SpecIInv == Spec => []IInv
BY InitIInv, StepIInv, PTL DEF Spec

(* No credit is made, and none is lost but with a task that is dropped,    *)
(* however many nodes, credits, blocks and ids there are: the ones a node  *)
(* is out of are with the writer, with the tasks of its client, in the     *)
(* result queue, with the reader, or were dropped with a task.             *)
THEOREM CreditsGoRound == Spec => []CreditsAccounted
<1>1. IInv => CreditsAccounted
  BY DEF IInv
<1> QED BY <1>1, SpecIInv, PTL

(* A client is never given more than Units tasks at a time, although the   *)
(* writer thread does not count them: the window that the client's pool of *)
(* buffers and the server's are dimensioned for.                           *)
ClientWindow == \A r \in Rpi : CountIn(client_queue[r], TaskIds) <= Units

THEOREM WindowOfAClient == Spec => []ClientWindow
<1>1. IInv => ClientWindow
  <2> SUFFICES ASSUME IInv, NEW r \in Rpi PROVE CountIn(client_queue[r], TaskIds) <= Units
    BY DEF ClientWindow
  <2>1. held[r] = CountIn(client_queue[r], TaskIds) + CountIn(result_queue, {r})
                  + InWriter(r) + InReader(r) + Len(dropped[r])
    BY DEF IInv, CreditsAccounted, InWriter, InReader
  <2> QED BY <2>1, Numbers, UnitsAssumption DEF IInv
<1> QED BY <1>1, SpecIInv, PTL
=============================================================================
