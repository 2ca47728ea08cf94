--------------------------- MODULE ClusterManager ---------------------------
(***************************************************************************)
(* ClusterManager, the primary: a writer thread gives ready tasks to the   *)
(* secondary nodes, a reader thread takes what comes back, credits and     *)
(* results in one queue.  Between them are the resource scheduler, as the  *)
(* CreditPool that ResourceScheduler implements, and the clients of the    *)
(* nodes, as the ClientQueues that Session implements for one node.        *)
(*                                                                         *)
(* Tasks are those of TaskForest.  Waiting on a condition variable is a    *)
(* guard here: task_cv_ and result_cv_ are notified under or after the     *)
(* lock of what they guard, and each has one waiter.                       *)
(***************************************************************************)
EXTENDS TaskForest, Integers, FiniteSets, SequencesExt

CONSTANTS NumRpi,     \* secondary nodes
          Units,      \* credits of a node
          IdStart,    \* task_id_start of the command line
          IdsPerRpi,  \* 20 in the code: ids are reused after NumRpi * IdsPerRpi
          Nothing     \* a field that holds nothing

Rpi == 0..NumRpi - 1
ASSUME NumRpiAssumption == NumRpi \in Nat \ {0}
ASSUME UnitsAssumption == Units \in Nat \ {0}
ASSUME IdsAssumption == IdsPerRpi \in Nat \ {0}
\* The result queue holds node numbers and task ids, told apart by size.
ASSUME IdStartAssumption == IdStart \in Nat /\ IdStart > NumRpi
ASSUME NothingAssumption == Nothing \notin Int

VARIABLES
    client_map,       \* the nodes whose client is registered
    joined, held, asking,   \* the credit pool
    initial_tasks,    \* ready tasks, in order
    on_fly_tasks,     \* task id -> task
    element_count,    \* what on_fly_tasks.size() returns
    count,            \* tasks given an id so far
    client_queue,     \* ids given to a node's client and not answered, Stop at the end
    answering,        \* the id whose credit the client has passed on already
    result_queue,     \* node numbers (credits) and task ids (results)
    selected,         \* the writer's select_task, between its id and add_task
    client_tasks,     \* for each node, the client's on_fly_tasks: task id -> task
    answered,         \* for each node, OnReadDone's task after its credit is passed on
    computed,         \* tasks whose result_matrix is set
    finished,         \* tasks whose result reached the parent task or results_
    remaining_tasks,  \* subtrees that are not finished
    dropped,          \* history, not in the code: for each node, the tasks that got
                      \* its credit when it had no client yet
    stop,             \* stop_
    writer, reader    \* the two threads: where they are, their locals

pool == <<joined, held, asking>>
ids == <<on_fly_tasks, element_count, count>>
clients == <<client_queue, answering, result_queue>>
results == <<selected, client_tasks, answered, computed>>
vars == <<client_map, pool, initial_tasks, ids, clients, results, finished, remaining_tasks,
          dropped, stop, writer, reader>>

IdSpan == NumRpi * IdsPerRpi
TaskIds == IdStart..(IdStart + IdSpan - 1)

Pool == INSTANCE CreditPool WITH Consumers <- {"writer"}
Clients == INSTANCE ClientQueues WITH entries <- [r \in Rpi |-> DOMAIN client_tasks[r]]

Init == /\ client_map = {}
        /\ Pool!Init
        /\ initial_tasks = InitialTasks
        /\ on_fly_tasks = <<>> /\ element_count = 0 /\ count = 0
        /\ selected = Nothing /\ computed = {}
        /\ client_tasks = [r \in Rpi |-> <<>>] /\ answered = [r \in Rpi |-> Nothing]
        /\ Clients!Init
        /\ finished = {} /\ dropped = [r \in Rpi |-> <<>>]
        /\ remaining_tasks = Subtrees
        /\ stop = FALSE
        /\ writer = [at |-> "start", task |-> Nothing, rpi |-> Nothing, size |-> 0]
        /\ reader = [at |-> "start", item |-> Nothing, size |-> 0]
-----------------------------------------------------------------------------
(* Wrong versions of definitions below.                                    *)
OneOperandIsEnough(t) == TRUE
StopsOnAnyRoot == remaining_tasks < Subtrees
KeepsEntry(id) == on_fly_tasks
-----------------------------------------------------------------------------
(* The constructor.  A thread of its own registers the client of a node;   *)
(* nothing but a sleep of 5 seconds per node puts that before what the     *)
(* constructor and the threads it starts do.                               *)
Register(r) ==
    /\ r \notin client_map
    /\ client_map' = client_map \cup {r}
    /\ UNCHANGED <<pool, initial_tasks, ids, clients, results, finished, remaining_tasks,
                   dropped, stop, writer, reader>>

InitializeSecondaryResources(r) ==
    /\ writer.at = "start"
    /\ Pool!Join(r)
    /\ UNCHANGED <<client_map, initial_tasks, ids, clients, results, finished, remaining_tasks,
                   dropped, stop, writer, reader>>

StartThreads ==
    /\ joined = Rpi /\ writer.at = "start"
    /\ writer' = [writer EXCEPT !.at = "pick"]
    /\ reader' = [reader EXCEPT !.at = "take"]
    /\ UNCHANGED <<client_map, pool, initial_tasks, ids, clients, results, finished,
                   remaining_tasks, dropped, stop>>
-----------------------------------------------------------------------------
(* The writer takes the first ready task and asks for a credit.            *)
WriterPick ==
    /\ writer.at = "pick" /\ ~stop /\ initial_tasks # <<>>
    /\ writer' = [writer EXCEPT !.at = "credit", !.task = Head(initial_tasks)]
    /\ initial_tasks' = Tail(initial_tasks)
    /\ Pool!Ask("writer")
    /\ UNCHANGED <<client_map, ids, clients, results, finished, remaining_tasks, dropped, stop,
                   reader>>

(* With a credit of a node that has a client: the task gets an id and      *)
(* enters the map.  The map has no lock and the reader erases from it: its *)
(* element count is loaded here and stored by the next step.  An id that   *)
(* is still in the map is taken over, and the count stays.                 *)
WriterInsert(r) ==
    /\ LET id == IdStart + (count % IdSpan)
       IN /\ on_fly_tasks' = [n \in DOMAIN on_fly_tasks \cup {id} |->
                                 IF n = id THEN writer.task ELSE on_fly_tasks[n]]
          /\ writer' = [at |-> "add", task |-> id, rpi |-> r,
                        size |-> IF id \in DOMAIN on_fly_tasks THEN Nothing ELSE element_count]
    /\ selected' = writer.task
    /\ count' = count + 1
    /\ UNCHANGED dropped

(* No client yet: an error message, and the task and the credit are gone.  *)
WriterDrop(r) ==
    /\ dropped' = [dropped EXCEPT ![r] = Append(@, writer.task)]
    /\ writer' = [at |-> "pick", task |-> Nothing, rpi |-> Nothing, size |-> 0]
    /\ UNCHANGED <<on_fly_tasks, count, selected>>

WriterAssign ==
    /\ writer.at = "credit"
    /\ Pool!Grant("writer")
    /\ \E r \in Rpi : /\ held'[r] # held[r]
                      /\ IF r \in client_map THEN WriterInsert(r) ELSE WriterDrop(r)
    /\ UNCHANGED <<client_map, initial_tasks, element_count, clients, client_tasks, answered,
                   computed, finished, remaining_tasks, stop, reader>>

(* DistMultClient::add_task: the entry of an id that the client still has  *)
(* is replaced.                                                            *)
WriterAdd ==
    /\ writer.at = "add"
    /\ element_count' = IF writer.size = Nothing THEN element_count ELSE writer.size + 1
    /\ client_tasks' = [client_tasks EXCEPT ![writer.rpi] =
                            [n \in DOMAIN @ \cup {writer.task} |->
                                IF n = writer.task THEN selected ELSE @[n]]]
    /\ Clients!Give(writer.rpi, writer.task)
    /\ selected' = Nothing
    /\ writer' = [at |-> "pick", task |-> Nothing, rpi |-> Nothing, size |-> 0]
    /\ UNCHANGED <<client_map, pool, initial_tasks, on_fly_tasks, count, answered, computed,
                   finished, remaining_tasks, dropped, stop, reader>>

WriterStop ==
    /\ writer.at = "pick" /\ stop
    /\ writer' = [writer EXCEPT !.at = "done"]
    /\ UNCHANGED <<client_map, pool, initial_tasks, ids, clients, results, finished,
                   remaining_tasks, dropped, stop, reader>>
-----------------------------------------------------------------------------
(* A node's client passes on a credit or a result.  Between the two it     *)
(* stores the response in the task that it found under the id.             *)
ReturnCredit(r) ==
    /\ Clients!IsFound(r)
    /\ LET id == Head(client_queue[r])
       IN /\ answered' = [answered EXCEPT ![r] = client_tasks[r][id]]
          /\ client_tasks' = [client_tasks EXCEPT ![r] = Restrict(@, DOMAIN @ \ {id})]
    /\ Clients!ReturnCredit(r)
    /\ UNCHANGED <<selected, computed>>

ReturnResult(r) ==
    /\ computed' = computed \cup {answered[r]}
    /\ answered' = [answered EXCEPT ![r] = Nothing]
    /\ UNCHANGED <<selected, client_tasks>>
    /\ Clients!ReturnResult(r)

Client(r) ==
    /\ ReturnCredit(r) \/ ReturnResult(r)
    /\ UNCHANGED <<client_map, pool, initial_tasks, ids, finished, remaining_tasks, dropped,
                   stop, writer, reader>>
-----------------------------------------------------------------------------
ReaderTake ==
    /\ reader.at = "take"
    /\ UNCHANGED results
    /\ Clients!Take
    /\ reader' = [reader EXCEPT !.at = "decode", !.item = Head(result_queue)]
    /\ UNCHANGED <<client_map, pool, initial_tasks, ids, finished, remaining_tasks, dropped,
                   stop, writer>>

IsCredit(item) == item <= NumRpi

ReaderRelease ==
    /\ reader.at = "decode" /\ IsCredit(reader.item)
    /\ Pool!GiveBack(reader.item)
    /\ reader' = [reader EXCEPT !.at = "take", !.item = Nothing]
    /\ UNCHANGED <<client_map, initial_tasks, ids, clients, results, finished, remaining_tasks,
                   dropped, stop, writer>>

Sibling(t) == CHOOSE c \in Children(Parent(t)) : c # t

(* left.active and right.active of the parent, once t is there.            *)
OtherOperandActive(t) == Sibling(t) \in finished

(* process_matrix_result up to the erasure: the result is a root's, or an  *)
(* operand of the parent, which becomes ready when it has both.  What is   *)
(* passed on is the result_matrix of the task that has the id now: where   *)
(* an id was taken over, the result of the older task makes the newer one  *)
(* count as finished, whether or not it has a result_matrix yet.           *)
ReaderProcess ==
    /\ reader.at = "decode" /\ ~IsCredit(reader.item)
    /\ IF reader.item \in DOMAIN on_fly_tasks
       THEN LET t == on_fly_tasks[reader.item]
            IN /\ finished' = finished \cup {t}
               /\ remaining_tasks' = IF IsRoot(t) THEN remaining_tasks - 1 ELSE remaining_tasks
               /\ initial_tasks' = IF ~IsRoot(t) /\ OtherOperandActive(t)
                                   THEN Append(initial_tasks, Parent(t)) ELSE initial_tasks
               /\ reader' = [reader EXCEPT !.at = "erase"]
       ELSE /\ reader' = [reader EXCEPT !.at = "not found"]
            /\ UNCHANGED <<finished, remaining_tasks, initial_tasks>>
    /\ UNCHANGED <<client_map, pool, ids, clients, results, dropped, stop, writer>>

(* The erasure, in the two steps of its element count.                     *)
WithoutEntry(id) == Restrict(on_fly_tasks, DOMAIN on_fly_tasks \ {id})

ReaderErase ==
    /\ reader.at = "erase"
    /\ on_fly_tasks' = WithoutEntry(reader.item)
    /\ reader' = [reader EXCEPT !.at = "erased", !.size = element_count]
    /\ UNCHANGED <<client_map, pool, initial_tasks, element_count, count, clients, results,
                   finished, remaining_tasks, dropped, stop, writer>>

AllRootsDone == remaining_tasks = 0

ReaderCheck ==
    /\ reader.at \in {"erased", "not found"}
    /\ element_count' = IF reader.at = "erased" THEN reader.size - 1 ELSE element_count
    /\ reader' = [at |-> IF AllRootsDone THEN "cleanup" ELSE "take", item |-> Nothing, size |-> 0]
    /\ stop' = AllRootsDone
    /\ UNCHANGED <<client_map, pool, initial_tasks, on_fly_tasks, count, clients, results,
                   finished, remaining_tasks, dropped, writer>>

(* clean_up after its assertions: DistMultClient::Stop on every client.    *)
CleanUp ==
    /\ reader.at = "cleanup"
    /\ UNCHANGED results
    /\ Clients!Close(client_map)
    /\ reader' = [reader EXCEPT !.at = "done"]
    /\ UNCHANGED <<client_map, pool, initial_tasks, ids, finished, remaining_tasks, dropped,
                   stop, writer>>

(* The destructor has joined both threads.                                 *)
Finished == writer.at = "done" /\ reader.at = "done" /\ UNCHANGED vars

Writer == WriterPick \/ WriterAssign \/ WriterAdd \/ WriterStop
Reader == ReaderTake \/ ReaderRelease \/ ReaderProcess \/ ReaderErase \/ ReaderCheck \/ CleanUp
Constructor == StartThreads \/ \E r \in Rpi : Register(r) \/ InitializeSecondaryResources(r)

Next == Constructor \/ Writer \/ Reader \/ Finished \/ \E r \in Rpi : Client(r)

(* The threads are scheduled, a credit that is in the pool is granted, and *)
(* no node is lost: every task sent is answered in the end.                *)
Fairness == /\ WF_vars(Constructor) /\ WF_vars(Writer) /\ WF_vars(Reader)
            /\ \A r \in Rpi : WF_vars(Client(r))

Spec == Init /\ [][Next]_vars /\ Fairness
-----------------------------------------------------------------------------
IsDropped(t) == \E r \in Rpi : t \in Range(dropped[r])

Place(r) == (Range(client_queue[r]) \ {Clients!Stop})
            \cup (IF answering[r] = Nothing THEN {} ELSE {answering[r]})

TypeOK ==
    /\ client_map \subseteq Rpi /\ joined \subseteq Rpi /\ asking \subseteq {"writer"}
    /\ held \in [Rpi -> 0..Units]
    /\ initial_tasks \in Seq(Task) /\ finished \subseteq Task
    /\ Range(on_fly_tasks) \subseteq Task
    /\ DOMAIN on_fly_tasks \subseteq TaskIds
    /\ \A r \in Rpi : Place(r) \subseteq TaskIds
    /\ computed \subseteq Task /\ Range(answered) \subseteq Task \cup {Nothing}
    /\ remaining_tasks \in 0..Subtrees /\ stop \in BOOLEAN

(* No credit is made on its way around, and the only place to lose one is  *)
(* a writer that finds no client: the ones a node is out of are with the   *)
(* writer, with the tasks its client has, in the result queue, in the      *)
(* reader's hand or gone with a task that was dropped.                     *)
CountIn(s, S) == Cardinality({n \in DOMAIN s : s[n] \in S})

CreditsAccounted ==
    \A r \in Rpi :
        held[r] = CountIn(client_queue[r], TaskIds) + CountIn(result_queue, {r})
                  + (IF writer.at = "add" /\ writer.rpi = r THEN 1 ELSE 0)
                  + (IF reader.item = r THEN 1 ELSE 0)
                  + Len(dropped[r])

(* Ids on their way: with the writer, with a client, in the result queue,  *)
(* with the reader until it has erased the entry.                          *)
IdsUnderway ==
    (IF writer.at = "add" THEN {writer.task} ELSE {})
    \cup (UNION {Place(r) : r \in Rpi})
    \cup {n \in Range(result_queue) : ~IsCredit(n)}
    \cup (IF reader.at \in {"decode", "erase"} /\ ~IsCredit(reader.item) THEN {reader.item} ELSE {})

(* No task is lost to the reuse of ids: every task that has been taken and *)
(* is not finished is in the map under an id of its own that is underway.  *)
(* Ids start again after IdSpan tasks, and a credit comes back before the  *)
(* id of its task is free.  With one node the ids suffice all the same, as *)
(* its client answers in order; with several nothing in the code sees to   *)
(* it, and one may keep an id while the others use up the rest.            *)
NoTaskLost ==
    /\ DOMAIN on_fly_tasks = IdsUnderway
    /\ \A t \in Task \ finished :
          \/ t \in Range(initial_tasks)
          \/ writer.at = "credit" /\ writer.task = t
          \/ t \in Range(on_fly_tasks)
          \/ IsDropped(t)
          \/ ~IsLeaf(t) /\ ~(Children(t) \subseteq finished)

(* "Done both children -> Add parent to the task queue!"                   *)
(* (distmult_client.cc:640): what is in the queue of ready tasks has both  *)
(* operands, the result matrices of its children.  It holds with one node, *)
(* and with several where the ids suffice: a result that comes back under  *)
(* an id that was given to another task makes that task an active operand  *)
(* of its parent, whose matrix is not there.                               *)
DoneBothChildren == \A t \in Range(initial_tasks) : Children(t) \subseteq computed

CreditIsThere == \E r \in joined : held[r] < Units

IdIsFree ==
    writer.at = "credit" /\ CreditIsThere => IdStart + (count % IdSpan) \notin IdsUnderway

NoneInVain == \A r \in Rpi : DOMAIN client_tasks[r] = Range(client_queue[r]) \ {Clients!Stop}

(* All that it takes is that the id is free when the writer is about to    *)
(* use it: then no task is lost, every result that is passed on, as an     *)
(* operand or into results_, is that of its task, and a client finds the   *)
(* task of every id that it has been given and has not answered.           *)
FreeIdsSuffice ==
    []IdIsFree => [](NoTaskLost /\ DoneBothChildren /\ finished \subseteq computed /\ NoneInVain)

(* clean_up starts when everything has come to rest: no task is ready, in  *)
(* the map or with a client, every credit is back and the queue of results *)
(* is empty; the -1 it sends is the last thing a client's queue holds.     *)
QuietAtCleanUp ==
    /\ reader.at \in {"cleanup", "done"} =>
          /\ initial_tasks = <<>> /\ DOMAIN on_fly_tasks = {}
          /\ result_queue = <<>> /\ finished = Task
          /\ \A r \in Rpi : held[r] = 0 /\ answering[r] = Nothing /\ dropped[r] = <<>>
    /\ \A r \in Rpi : client_queue[r] # <<>> /\ reader.at = "done" => client_queue[r] = <<Clients!Stop>>

(* The primary runs the job: each task is taken at most once, after a      *)
(* result has been processed for each of its operands, to the end, unless  *)
(* one is dropped.  A task is running from the moment the writer takes it, *)
(* and done when a result has been processed for it; that the result was   *)
(* its own is for DoneBothChildren and FreeIdsSuffice to say.              *)
JobStatus ==
    [t \in Task |->
        IF t \in finished THEN "done"
        ELSE IF IsDropped(t) THEN "lost"
        ELSE IF Children(t) \subseteq finished /\ t \notin Range(initial_tasks) THEN "running"
        ELSE "waiting"]

TheJob == INSTANCE Job WITH status <- JobStatus, over <- stop
JobSpec == TheJob!Spec

(* assert(on_fly_tasks.size() == 0) in clean_up (distmult_client.cc:663):  *)
(* the map is empty there, but what size() returns is a count that two     *)
(* threads updated without a lock.                                         *)
CleanUpAssertion == reader.at = "cleanup" => element_count = 0
=============================================================================
