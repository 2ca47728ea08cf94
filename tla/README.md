# A verification project for the Raspberry Pi matrix cluster

One *primary* (`distmult_client.cc`) cuts a matrix job into a forest of tasks and
spreads them over *secondary* nodes (`distmult_server.cc`, `matrix_handler.cc`), each
reached by one bidirectional gRPC stream. This directory models that protocol in TLA+,
checks small instances with TLC, and proves with TLAPS, for every number of nodes,
credits, blocks and ids, the safety of the scheduler, of `create_tasks`, of the manager,
of the client and of the secondary.

## Inventory

| part | state it keeps | operations | what is hard about it |
|---|---|---|---|
| `ResourceScheduler` (`resource_scheduler.cc`) | linked list of (node, units left), `tail`, a lock, a condition variable | `add_entry_head`, `consume_resource`, `produce_resource` | list surgery by hand; a consumer that sleeps |
| `create_tasks` (`utils.cc`) | the vectors of tasks it fills | one call | index arithmetic, sizes that are not powers of two |
| `ClusterManager` (`distmult_client.cc`) | ready tasks, `on_fly_tasks`, `result_queue_`, `remaining_tasks_`, `stop_` | constructor, `writer`, `reader`, `process_matrix_result`, `clean_up` | two threads and one more per node; ids that are reused; a map without a lock |
| `DistMultClient` (`distmult_client.cc`) | `task_queue_`, its own map of tasks, `done_` | `add_task`, `Stop`, the reactions of its `ComputeRPC` | reactions of gRPC threads, shutdown |
| `DistMultImpl::ComputeRPC` (`distmult_server.cc`) | `current_buffer_`, `response_` | the reactions for reads and writes | reads and writes overlap; a reaction that blocks |
| `MatrixClass` (`matrix_handler.cc`) | eight buffers, free counts, two queues, `stop_flag_` | `select_next_buffer`, `process_request`, `check_response`, `add_resource`, `stop_threads`, the compute thread | buffers shared by four threads; stopping |

How they interact. The manager's *writer* takes a ready task, asks the scheduler for a
unit (a **credit**) of some node, gives the task an id, puts it into `on_fly_tasks` and
calls `add_task` of that node's client. The client sends it; the secondary reads it into
a free buffer, queues the buffer for its compute thread, and writes the result back from
the same buffer. The client's `OnReadDone` pushes *two* items into the manager's one
`result_queue_`: the node's number (the credit comes back), then the task id (the
result). The manager's *reader* takes them in order: a credit goes to the scheduler, a
result is an operand of the parent task, which becomes ready when it has both. When the
last root is done the reader sets `stop_` and tells every client to stop, which sends a
request with id -1 and ends the stream.

What makes the parts correct:

* scheduler: the list keeps its shape; no unit is lost or made; nobody sleeps while
  there is something to consume;
* `create_tasks`: it builds full binary trees or asserts, and never indexes outside;
* manager: every task runs once, after its operands, on the results of its children, and
  the job ends; credits and ids are accounted for; nothing is underway when it cleans up;
* client: every task handed over is sent and answered once; it can be shut down;
* secondary: buffers are neither shared nor exhausted; requests are answered in order,
  each once; it can be shut down.

`PROJECT.json` lists every component (those without a model too) and every hazard at
its line.

## Modules

| module | models | note |
|---|---|---|
| `CreditPool` | what the scheduler promises | abstract; five actions |
| `ResourceScheduler` | `resource_scheduler.cc` | implements `CreditPool` |
| `TaskForest` | the tasks in closed form | no state |
| `MatrixBlocks` | `Submatrix`, `get_submatrix_data` | no state |
| `CreateTasks` | `create_tasks`, loop by loop | arrives at `TaskForest`; uses `MatrixBlocks` |
| `Job` | what the primary promises | abstract; start, complete, lose, end |
| `ClientQueues` | what the clients of the nodes promise the manager | abstract |
| `ClusterManager` | the primary's two threads and its constructor | uses `CreditPool`, `ClientQueues` and `TaskForest`; implements `Job` |
| `Session` | one node's `DistMultClient` and `ComputeRPC`, over a stream that may break | implements `ClientQueues` |
| `MatrixHandler` | `MatrixClass` | the operations and the compute thread |
| `ServerRpc` | the secondary's end of a stream, with a primary at the other end | extends `MatrixHandler` |
| `MCServerRpc` | | for TLC: the symmetry of `ServerRpc`'s task ids, and the bound on late `add_resource` calls |
| `MCCreateTasks` | | `PowerOfTwo` compared with the powers of 2 |
| `ResourceSchedulerProofs`, `CreateTasksProofs`, `SessionProofs`, `ServerRpcProofs` | | theorems about each |
| `ClusterManagerProofs`, `JobProofs`, `ClusterIdsProofs` | | theorems about the manager: its credits, its tasks, its ids |
| `QueueLemmas` | | sequences as queues, least numbers: what several proofs need |

How they fit together. `ClusterManager` does not contain the scheduler or the clients: it
contains what they promise, `CreditPool` and `ClientQueues`, and `ResourceScheduler` and
`Session` are shown to keep those promises. In the other direction each of them assumes
something of the manager that is shown of the manager: it gives back only credits it
holds (`CreditsAccounted`), it never has more than `Units` tasks with a client
(`WindowOfAClient`), and it calls `Stop` when nothing is underway (`QuietAtCleanUp`).

One thing the client needs the manager does not give in general: ids that the client does
not hold already. `Session` therefore takes any id, and says what is lost when one comes
twice. The manager's ids are free where there is one node (`OneNode`), or an id for every task
(`EnoughIds`); with several nodes and more tasks than ids they need not be (`manager_reuse`).
`FreeIdsSuffice` says that this is all that is missing.

`Session` assumes of the node that it answers in order, each request once, and `ServerRpc`
shows that; `ServerRpc` assumes the window of its primary, and ids that the primary does
not hold.

### ResourceScheduler

`list` is the chain from `head`. An entry is identified by its node, since it is shown
that no node has two. `tail` is a variable of its own, as the code keeps it by hand. A
call that holds `list_lock_` from beginning to end is one action; a consumer that finds
the list empty goes through `Wait`, and `ProduceIntoEmpty` or a `SpuriousWakeup` brings
it back. Entries of equal count, where the code's loops stop, decide the place of an
insertion, so `SkipsAbove` says exactly where each loop ends. The comparison with the
head in `produce_resource` (line 135) is modelled as it is written.

`held` has no variable in the code: it counts, per node, units consumed and not given
back. The manager gives back only what it consumed (`CreditsAccounted` of
`ClusterManager` shows that), which is the guard of `ProduceResource`.

### CreateTasks and TaskForest

`CreateTasks` has one action per loop body. The division of the matrix size by the block size
truncates: `rest` is what it leaves, rows and columns that are in no task. `tasks_init` holds
names instead of pointers. `Leaf` makes the two `Submatrix` operands with the code's arithmetic, and
`MatrixBlocks` says which elements of the big matrix `get_submatrix_data` copies for them,
its `int` offsets included (`HalfRange` says how wide an `int` is). A power of two is a
number without an odd factor (`PowerOfTwo`); `MCCreateTasks` compares that with `2 ^ e`, of
which the prover knows nothing.

### ClusterManager

One action per stretch of code between two points where another thread can matter. The
scheduler is the `CreditPool` instance: its actions are conjuncts of the manager's
(`Pool!Join`, `Pool!Ask`, `Pool!Grant`, `Pool!GiveBack`), with the writer thread as the
one consumer. The clients are the `ClientQueues` instance in the same way (`Clients!Give`,
`Clients!ReturnCredit`, `Clients!ReturnResult`, `Clients!Take`, `Clients!Close`).

A thread per node registers the client in `client_map`; a sleep of five seconds per node is
all that puts that before what the constructor does next, so `Register` may come at any
time. A writer that is granted a credit of a node without a client logs an error and goes
on: the task and the credit are gone. `dropped` (for each node, such tasks) is a history
variable, with no counterpart in the code; it is there so that properties can say that nothing
else is lost.

What an id leads to is modelled twice, as in the code. The manager's `on_fly_tasks` leads
from an id to the task that has it *now*, and the client's map (`client_tasks`) from an id
to the task it was given last under it. When the response to an id comes back, the client
takes the task out of its map (`answered`), passes on the credit, and stores the response in that
task: `computed` is the set of tasks that have a result matrix. The reader then looks the id up
in the manager's map, and what it finds there is `finished`. The two differ exactly when an id was
taken over while it was underway, and then `finished` does not mean computed.

`on_fly_tasks` is the map's content; `element_count` is what `size()` returns. The
insertion and the erasure each load the count in one step and store it in a later one:
that is the one effect of the unlocked map that is modelled. Other effects (a broken
bucket chain, a rehash under a reader) are not.

### Session

The variables are the client's (`task_queue_`, its map as the set of its ids, `done_`), the
place of the thread of the node (`rpc`), of `NextWrite` (`writer`, with who runs it: the constructor, then
gRPC's reactions) and of the reading side (`reader`), and the stream as two queues. A
sleep on `task_cv_` is a state, since who is woken by what is the question here; the outer
loop of `NextWrite`, whose inner wait returns at once when `done_` is set, is "spinning",
with `task_lock_` held. gRPC's part is `Transmit`, `Break`, and the rule of `OnDone`: the
call has ended, every operation that was started is done, and no reaction is running.

`AddTask` takes any id, as `add_task` does: the entry of one that is in the map is replaced. Where
the code searches the map and uses what it finds without looking (`NextWrite` at line 192,
`OnReadDone` at 93), the model has a place "not found", and what follows is not modelled: it
is undefined. `ClientQueues`, which the manager uses in the client's place, stops in the
same case. When the call is done and `NextWrite` finds a task, it starts a write on a call that
gRPC has freed: "undefined", in the same way. `WriteNull` hands gRPC a message on its stack,
which gRPC serialises before `StartWrite` returns.

### MatrixHandler and ServerRpc

`Thread` *t* owns buffers *t* and *t + 4*. `last_buffer` only matters modulo 2, and
wraps at an even bound. The compute thread's sleep is three steps (test, release the lock
and sleep, wake up), since `stop_threads` takes no lock. The two sides of the stream run
independently: `NextRead`/`OnReadDone`/`ReaderProcess` for reads,
`WriterSleep`/`NextWrite`/`OnWriteDone` for writes. `add_resource` comes after
`StartWrite`, so the write may complete, and the next one begin in another thread,
before it: `releasing` counts these calls, and nothing bounds them in `ServerRpc`, as
nothing but gRPC's pool of threads does in the code. For TLC `MCServerRpc` has a
`CONSTRAINT`. A task id that has been copied to its
response is forgotten in `data_task` (and a processed id in `reader.id`): the code never
reads it again before it writes it, and stale values would only multiply states.

`Pipeline` is the sequence of buffers between the two sides: those in the output queue, the
compute thread's, those in the input queue. `PipelineInOrder` reads the tasks off it and says
that, with what is on the stream, they are the unanswered requests in order, and the request
-1 after them once the primary has closed.

The primary gives a request any id that is not unanswered (the manager counts ids for all
nodes together, so a node sees gaps and, after a while, the same ids again; that one may
come too early is in `Session` and `ClusterManager`). The branch of `process_request` for an
operation it does not know is left out: the primary only sends the two it knows. It keeps at
most `Window` requests unanswered (the scheduler's units), answers
are reliable and in order (gRPC's promise for a stream), and it closes when nothing is
unanswered (`QuietAtCleanUp` of `ClusterManager`).

## Runs

| run | result | what it shows |
|---|---|---|
| `rs_pool` | holds | 4 nodes, 3 units: `TypeOK`, `ListWellFormed`, `UnitsConserved`, `NoLostWakeup`, and the scheduler implements `CreditPool`, liveness included |
| `rs_order` | **violated** | the list is not "in descending order" (`resource_scheduler.cc:53`): line 135 compares the head with itself |
| `create_tasks` | holds | sizes 1..8, each with and without a rest: the assertion fails for exactly the sizes that are no power of two, no index is outside the vector, the trees are those of `TaskForest`, and the client copies the blocks a leaf means where an `int` can count the matrix (`OperandsAreBlocks`) |
| `manager` | holds | 2 x 2 blocks, 2 nodes of 2 units, clients that register at any time, ids enough: `CreditsAccounted`, `QuietAtCleanUp`, and the manager implements `Job`: every task once, after its operands, and the job ends unless a task was dropped |
| `manager_reuse` | **violated** | ids too few for two nodes: what is added to the task queue has not "done both children" (`distmult_client.cc:640`), since the result of an older task was taken for an operand's |
| `manager_free` | holds | the same two nodes with few ids: in every behaviour in which the id is free when the writer is about to use it, no task is lost, every result is that of its task, and no client searches its map in vain (`FreeIdsSuffice`) |
| `manager_size` | **violated** | the assertion on `on_fly_tasks.size()` can fail with an empty map (`distmult_client.cc:663`) |
| `session` | holds | 3 units, any id: only a lost stream strands anybody (`OnlyALossStrands`), the client implements `ClientQueues` step by step, its map is exact if no id that it holds is given to it (`MapHasUnanswered`), and every task is answered unless the stream breaks or a search was in vain |
| `session_stop` | **violated** | a client that was told to stop is never done (`distmult_client.cc:420`), although nothing breaks |
| `server` | holds | window 2, one late `add_resource`: `BufferExclusive`, `NoBufferExhaustion`, `PipelineInOrder`; every request is answered; a closed session ends, but for the lost wakeup and the pop of an empty queue that `SessionEnds` names |
| `server_buffers` | **violated** | window 3: with three late `add_resource` calls the compute thread works on a buffer that is being sent (`matrix_handler.h:66`) |
| `server_stop` | **violated** | after the request -1 `check_response` does not "just wait" (`distmult_server.cc:121`): it pops an empty queue |

### Bounds, and why they are enough

* `rs_pool`: with four nodes the loops stop at the first entry, in the middle and at the
  end, and an entry in the middle can have different counts on either side; the proofs
  cover every other number. `rs_order` needs three nodes: two entries are always in order.
* `create_tasks`: three levels of trees, and sizes that fail at each of them. With blocks
  of two rows, a rest of none or one, and an `int` of eight bits (`HalfRange` = 128), five
  blocks in a row (100 or 121 elements) still fit and six (144) do not, so the run has sizes on
  both sides of the bound of `OperandsAreBlocks`; of the larger ones nothing is claimed. (TLC's
  own integers are too narrow for 32 bits.)
* `manager`: two trees make the two orders in which roots finish, and a task that is
  ready while another tree is unfinished; six tasks and four credits make the writer wait
  for a credit. `IdsPerRpi` is 20 as in the code, so ids do not wrap here.
  `IdStart = NumRpi + 1` is the smallest start that `IsCredit` can tell from a node
  (the ASSUME says so; the program's usage text does not). `manager_size` has the code's
  three units.
* `manager_free`: seven tasks through four ids, on two nodes of one unit. Both what keeps the
  ids free and what does not can happen: `manager_reuse`, with a second tree, is the case that
  the hypothesis excludes. Two ids per node stand for the code's 20: one slow node has to
  sit out the rest of the span, which takes forty tasks with two nodes of the code.
* `session`: the code's three units, and one id more, so that an id may be new while all
  others are underway. Nothing is to be seen of a further id, and the proofs are for any
  number. `session_stop` needs no more than one task underway.
* `server`: a window of two and one late `add_resource` let every side wait for every
  other; three requests, or two late calls, take too long with liveness. That is enough to lose a
  buffer or to take one twice, but not for the case in which no thread has both buffers free, which
  takes four in use or late: there `BufferExclusive` and `NoBufferExhaustion` rest on the proofs,
  which are for every window and any number of late calls. `server_buffers` and `server_stop`
  have the code's window. `LastBufferWrap = 2` keeps the parity that 2^32 keeps. Where there is a
  `SYMMETRY`, no step looks at an id but to copy it.
* The streams' queues are bounded by `Window` + 1 and `Units` + 1, all others by the
  numbers above.

### Fairness

* `ResourceScheduler`: a thread inside `consume_resource` runs on. Nothing is assumed of
  `produce_resource`: the pool's liveness is only that a credit that is there is granted.
* `ClusterManager`: the two threads and the constructor run, and every client answers what
  it is given. The code has no timeouts: if a node were lost the job would wait for ever,
  and a weaker assumption would make "the job ends" false. Every client registers in the end
  (`Register` is all that is left of `Constructor` then), but it may be too late, and a task
  dropped: `Job` promises an end only if no task is lost (`WF(Proceed)`, or some task is
  "lost").
* `Session`: threads and reactions run on, the node answers and ends what it is asked to,
  the manager takes what is in its queue. The manager need not give the client anything,
  no spurious wakeup is owed, and the stream may break at any time or never; the liveness
  properties except that case.
* `ServerRpc`: reactions, compute thread and network run on. Spurious wakeups are allowed
  and never needed. `SF` for `ReaderProcess` only says that the compute thread, waking up
  for no reason infinitely often, does not win `input_locks_[0]` every time. The primary
  need not send or close.
* `CreateTasks`: the function runs.

`CHECK_DEADLOCK FALSE` where the system really may stop: in `server*` and `session*` a
session that has ended, or that was lost, or in which the stop request met the compute
thread between its test and its sleep, or which went on to undefined behaviour; in `manager*` a
job one of whose tasks was dropped, or took the id of another.

## What is proved

TLAPS proves these for every value of the constants that the named assumptions allow. The
properties of the runs are seldom inductive by themselves; each module names the
strengthening that is (`IInv`, and the further invariants below), TLC has checked it on the
run's instance first, and every action has its lemma. Every invariant of a run that
passes is stated by a theorem.

| module | theorem | statement |
|---|---|---|
| `ResourceSchedulerProofs` | `TypeCorrect`, `ListStaysWellFormed`, `UnitsAreConserved`, `WakeupsAreNotLost` | `Spec => []` of `TypeOK`, `ListWellFormed`, `UnitsConserved`, `NoLostWakeup` |
| | `ImplementsPool` | `Spec => Pool!Init /\ [][Pool!Next]_poolVars` |
| `CreateTasksProofs` | `PairsAlwaysExist`, `ForestIsBuilt` | `Spec => []PairsExist`, `Spec => []BuildsForest` |
| | `AbortsExactly`, `OperandsAreRight` | `Spec => []AbortsUnlessPowerOfTwo`, `Spec => []OperandsAreBlocks` |
| `ClusterManagerProofs` | `CreditsGoRound` | `Spec => []CreditsAccounted` |
| | `WindowOfAClient` | `Spec => []ClientWindow`: a client never has more than `Units` tasks |
| `JobProofs` | `TypeCorrect` | `Spec => []TypeOK` |
| | `RemainingIsExact` | `remaining_tasks` is always the number of roots that are not finished |
| | `RunsTheJob` | `Spec => TheJob!Init /\ [][TheJob!Next]_jobVars` |
| `ClusterIdsProofs` | `QuietEnd` | `Spec => []QuietAtCleanUp` |
| | `FreeIds` | `Spec => FreeIdsSuffice` |
| | `EnoughIds` | all that `FreeIdsSuffice` promises, if `Subtrees * (2 * K - 1) <= IdSpan` |
| | `OneNode` | the same, if `NumRpi = 1` and `Units < IdsPerRpi` |
| `SessionProofs` | `TypeCorrect`, `NothingStrandsWithoutLoss` | `Spec => []TypeOK`, `Spec => []OnlyALossStrands` |
| | `MapIsExact` | `Spec => MapHasUnanswered`, which has the hypothesis that no id is given twice |
| | `ImplementsClients` | `Spec => ClientsStep`: each step is one of `ClientQueues` or changes nothing of it |
| `ServerRpcProofs` | `TypeCorrect`, `InOrder` | `Spec => []TypeOK`, `Spec => []PipelineInOrder` |
| | `NoExhaustion`, `Exclusive` | `Spec => []NoBufferExhaustion`, `Spec => []BufferExclusive` |
| | `ExclusiveWhileFewLate` | `Spec => ([]FewLate => []OneThreadPerBuffer)`, where `FewLate` is `Window + Releasing <= 5` |

**Scheduler**, for every set of nodes, every positive `Units` and at most one consumer.
Assumptions: `UnitsAssumption`, `NoRpiAssumption` (null is not a node) and
`OneConsumer`, without which `NoLostWakeup` is false. The code satisfies it: the
manager's writer is the only caller. That an append behind
`tail` keeps the list needs `ListWellFormed`; that a new entry does not double a node's
units needs `UnitsConserved`; that a count stays within `1..Units` needs both. `IInv` is
their conjunction with `NoCallBeforeJoins` (no consumer is inside before all nodes have
joined: `add_entry_head` notifies nobody). Two pairs of lemmas carry it:
`InsertAtElements`/`RemoveAtElements` say which elements a list has after an insertion or a
removal, and `InsertEntry`/`RemoveEntry` say the same of the invariants.

**create_tasks**, for every set of sizes (`SizesAssumption`). The heart is `PairsShape`:
while the inner tasks are built, `dependency_counter` is twice their number and exactly the
tasks before it have a parent, so the place of a task in the vector says who its parent and
its children are (`Linked`): the closed form of `TaskForest`. That a level finds its operands is a count:
`Len(tasks) - dep >= 2 * base - j`, which integer halving only makes easier. What the
assertion tests then is that one task without a parent is left, hence `2k - 1` tasks.
That this happens for the powers of two only (`AbortsExactly`) needs no induction over the
exponent. If `k` has no odd factor, every level is even or the last (`PowerShape`); if it has
one, the level being built is a multiple of it or some earlier level left a task over, which no
later one uses up (`OddShape`), and the assertion fails at the first subtree. `OperandsAreRight`
adds that the operands of a leaf are blocks inside the matrix (`OperandsInv`), whose offsets no
`int` wraps while the matrix has at most `HalfRange` elements (`BlockIsCopied`).

**Credits**, for any forest, nodes, units and ids (`NumRpiAssumption`, `UnitsAssumption`,
`IdsAssumption`, `IdStartAssumption`, `NothingAssumption`, and `TaskForest`'s). `CreditsAccounted`
is an equation between a count and the items of two queues, the locals of two threads and
the dropped tasks, whose credits the code does lose; `CountAppend` and `CountTail` say how counting goes with a queue. It is
inductive with the types of what moves (`Typed`): above all, that what the reader holds in each of
its places is a node, an id or nothing (`ReaderTyped`), for a node number and an id travel
in the same queue and are told apart by size (`IdFacts`). `ClientWindow` follows by
arithmetic from `held[r] <= Units`.

**Tasks** (`JobProofs`), under the same assumptions. `JobInv` says of each task which it can be:
in `finished`, ready, in the writer's hand, in the map, dropped, or waiting for an operand. A ready task is
there once, and a result has been processed for each of its operands; the parent is appended by
the second of them alone; the remaining roots are counted, so `stop_` is set when all are done.
Nothing of this rests on ids being free: an entry that is taken over by another task never runs a
task twice, it only loses one. So `RunsTheJob` holds for any number of ids; that the results
processed were those of the tasks is what *Free ids suffice* below is about.

**Quiet at the end** (`ClusterIdsProofs`). Where every task taken is in the map under an id
that is underway at exactly one place (`Exact`), a finished job has an empty map and so nothing
underway. Where the writer takes an id that is not free that is no longer so. `Fate` says what
else may hold then: a task that could run and is nowhere any more (`SomeStranded`), which stays
so for ever, or a result about to be taken for another task's (`Doomed`), which strands it. In both some task is never
finished, hence `clean_up` is never reached; so `QuietEnd` needs no hypothesis on the ids. That
no credit is left in the queue either follows from `CreditFollowed` (a credit is followed by the
result of its task), and that the -1 is the last item of a client from `StopIsLast`.

**Free ids suffice.** While the id that the writer takes is free, no task is lost (`StepKept`), and
an id means the same task to the manager, the client and the reaction that answers it (`Own`): the
entries of a client are the tasks that have these ids in the manager's map (`TasksFit`), and an id
behind the client is one of a task that has its result (`ResultsThere`). That is `FreeIds`, with the
hypothesis about the behaviour. `EnoughIds` and `OneNode` state two conditions on the constants
that make it true. With as many ids as tasks, `count` is the number of tasks begun (`CountInv`) and
no id is given twice. With one node, ids stay in one line (`Line`): in the order in which they were
given out they are with the client, then in the queue of results, where each follows its credit,
then with the reader. Of the ids underway none is older than the last `Units`
(`UnderwayIsRecent`), since a credit that is back means that the result is the very next item; so
`Units + 1` ids are enough for a job of any size. With several nodes no number of credits bounds
what the others do while one node keeps an id: the code's 20 ids per node are safe as long as no
node falls that far behind.

**Session**, for any number of credits and ids, given in any order (`UnitsAssumption`,
`IdsAssumption`, `NothingAssumption`). Before `Stop` only ids move (`OpenShape`); after it only the request
-1 moves, and it is at one of four places (`ClosedShape`). Without a loss the call ends only
after the -1 was written, and then `NextWrite` is in a reaction, so `OnDone` cannot run:
`done` implies `broken`, which gives `OnlyALossStrands`. The same argument is why
`session_stop` fails. `MapIsExact` (for behaviours in which `Unanswered` never has an id twice) and
`ImplementsClients` (for all) rest on `Unanswered` being one
sequence from the stream to the queue: every step but an answer and a new task only moves the
boundary between two of its parts.

**Secondary** (`ServerRpcProofs`), for any window and ids (`WindowAssumption`,
`FinalIdAssumption`, `LastBufferWrapAssumption`: the wrap of the counter keeps its parity), and any
number of late `add_resource` calls. The buffers from the reading side to the output queue are one
sequence (`InUse`): `NextRead` appends, `NextWrite` takes from the front, everything else moves
a boundary. Of each thread's two buffers, those in use, those free and those a late `add_resource`
will free add up to two (`TwoPerThread`), and one in use that was not selected last has the
other behind it (`LatestBehind`). Hence a buffer is selected only when it is not in
use, which keeps `InUse` free of repetitions and the tasks read off it in order. `NoExhaustion`
counts: the eight buffers are free, late or in use (`EightInAll`), and at most `Window` are in
use (`Credits`). `ExclusiveWhileFewLate` says in addition that the buffer being sent is not
computed meanwhile (`Sent`). If it is selected again before its write ends, its thread has one
buffer free and no thread has two, so at most four are free; its own `add_resource` was one of at
most `5 - Window` late calls and is done, so at most `4 - Window` are late, and a whole window of other
requests is before it in `InUse`: it is not the next to compute. The bound is sharp
for the code's window: two late calls are covered, and three are the counterexample of `server_buffers`.

Only model-checked: all liveness (the fairness of `CreditPool`, `ClientQueues` and `Job`,
`TasksAnswered`, `RequestsAnswered`, `SessionEnds`), which the prover cannot reach. Of `PoolSpec`
and `JobSpec` the initial state and the steps are proved, and the fairness is checked.

## What is not modelled, and why

* `submatrix_size_` is read by the threads of the nodes (line 416) before the constructor
  sets it (345): a client made too early has messages of an arbitrary size. `client_map` and
  the two maps of tasks are hash tables that threads change without a lock: what their
  insides do then is undefined, only `size()` is modelled.
* After the pop of an empty queue, a search of a client's map in vain, or an operation on a call
  that gRPC has freed, anything may happen; the models stop there.
* A `task_id_start` so small that an id looks like a node's number: the models assume a larger one
  (`IdStartAssumption`).
* The rows and columns of a size that is no multiple of the block's: they are in no task, and
  nothing says that they should be.
* The secondary after the end of a session: `OnDone` would delete the reactor, but the
  reaction asleep in `check_response` is not notified, so it is not reached; a second session
  finds `stop_flag_` set. A stream that breaks is modelled on the primary's side (`Session`);
  the secondary then drains its pipeline to nobody. The program has no reconnection.
* A matrix of one block: no subtree, so no result ever comes and the program never ends.
* `resource_scheduler.cc:16` and the unit test speak of eight units, the code starts with
  three: a wrong comment, visible without a model.
* The inner tasks of a tree are made as multiplications where the comments of `create_tasks`
  (`utils.cc:80`, `119`, `138`) speak of the sum of the products of the leaves: one constant, at
  line 125, visible without a model. What a tree computes is not modelled.
* Data: operands, sums and products as floating-point numbers, printing, timing.
* gRPC, protobuf, BLIS; argument parsing; the 2D variant, which no target builds.

## Plan

1. Done: scheduler, `create_tasks`, manager with late registration, client sessions,
   secondary; proofs of every invariant the runs check and of the steps of every refinement.
2. How far a node may fall behind (in tasks given to the others) before `IdIsFree` breaks, as a
   bound on the run: `FreeIdsSuffice` then holds for several nodes without its hypothesis.
3. That `ServerRpc` answers like the node of `Session` (in order, each request once) as a
   refinement of its stream, instead of an assumption that `PipelineInOrder` justifies.
