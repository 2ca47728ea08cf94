------------------------------ MODULE Session ------------------------------
(***************************************************************************)
(* One node's DistMultClient and the ComputeRPC it runs, between the       *)
(* manager's threads and a stream that may break.                          *)
(*                                                                         *)
(* The thread of the node constructs the ComputeRPC and waits for it; the  *)
(* constructor calls NextWrite, and gRPC calls it again when a write is    *)
(* done.  NextWrite waits for a task, in the constructor or in gRPC's      *)
(* reaction.  gRPC calls OnDone once the call has ended, every operation   *)
(* that was started is done, and no reaction is running.                   *)
(*                                                                         *)
(* The manager keeps to its credits, but may give the client an id that it *)
(* still holds.  The node answers in order, which is what ServerRpc shows  *)
(* of it.  When the stream has broken nothing moves on it and every        *)
(* operation fails.                                                        *)
(***************************************************************************)
EXTENDS Integers, FiniteSets, Sequences, SequencesExt

CONSTANTS Rpi,       \* this node
          Units,     \* its credits
          TaskIds,   \* bound: ids of tasks
          Nothing    \* no task

Stop == -1

ASSUME UnitsAssumption == Units \in Nat \ {0}
ASSUME IdsAssumption == Rpi \notin TaskIds /\ Stop \notin TaskIds \cup {Rpi}
ASSUME NothingAssumption == Nothing \notin TaskIds \cup {Rpi, Stop}

VARIABLES
    task_queue,     \* task_queue_: ids to send, and Stop
    on_fly_tasks,   \* the ids in the client's map
    done,           \* done_
    rpc,            \* where the thread of the node is
    writer,         \* where NextWrite is, who runs it, the id that is not sent yet
    reader,         \* where the reading side is, the id it answers
    to_server, to_client,   \* the stream
    ended,          \* the node has finished the call
    broken,         \* the stream has broken
    closed,         \* the manager has called Stop
    result_queue    \* the manager's queue of results

stream == <<to_server, to_client, ended, broken>>
vars == <<task_queue, on_fly_tasks, done, rpc, writer, reader, stream, closed, result_queue>>

(* The constructor up to its NextWrite: the call is started and the        *)
(* request has its size.                                                   *)
Init == /\ task_queue = <<>> /\ on_fly_tasks = {} /\ done = FALSE
        /\ rpc = "constructor"
        /\ writer = [at |-> "test", by |-> "constructor", id |-> Nothing]
        /\ reader = [at |-> "not started", id |-> Nothing]
        /\ to_server = <<>> /\ to_client = <<>> /\ ended = FALSE /\ broken = FALSE
        /\ closed = FALSE
        /\ result_queue = <<>>
-----------------------------------------------------------------------------
(* What is given to the client and not answered, in order; Stop can only   *)
(* be the last of a queue.  An id that was not found or whose write failed *)
(* stays with the writer.                                                  *)
Ids(s) == IF s # <<>> /\ Last(s) = Stop THEN Front(s) ELSE s
Unsent == IF writer.id \in TaskIds THEN <<writer.id>> ELSE <<>>
Unanswered == to_client \o Ids(to_server) \o Unsent \o Ids(task_queue)

Underway == Range(Unanswered) \cup Range(result_queue)
            \cup (IF reader.id = Nothing THEN {} ELSE {reader.id})
CreditsOut == Len(Unanswered) + Cardinality({n \in DOMAIN result_queue : result_queue[n] = Rpi})
-----------------------------------------------------------------------------
(* Wrong versions of definitions below.                                    *)
NotifiesNobody == UNCHANGED writer
NewestFirst(id) == <<id>> \o task_queue
KeepsEntry(id) == on_fly_tasks
UnassignedRpi(id) == <<-1>>
EndOfReadsIsDone ==
    /\ reader.at = "reading" /\ (broken \/ (ended /\ to_client = <<>>))
    /\ reader' = [reader EXCEPT !.at = "over"]
    /\ done' = TRUE
    /\ UNCHANGED <<task_queue, on_fly_tasks, rpc, writer, stream, closed, result_queue>>
-----------------------------------------------------------------------------
(* The manager: add_task, Stop, and the reader that takes results.  While  *)
(* NextWrite spins it never lets go of task_lock_.                         *)
TaskLockFree == writer.at # "spinning"

(* task_cv_.notify_one.                                                    *)
NotifyWriter == writer' = IF writer.at = "asleep" THEN [writer EXCEPT !.at = "test"] ELSE writer

Queued(id) == Append(task_queue, id)

(* An id that is in the map already now leads to the newer task.           *)
AddTask ==
    /\ TaskLockFree /\ ~closed /\ CreditsOut < Units
    /\ \E id \in TaskIds :
          /\ on_fly_tasks' = on_fly_tasks \cup {id}
          /\ task_queue' = Queued(id)
    /\ NotifyWriter
    /\ UNCHANGED <<done, rpc, reader, stream, closed, result_queue>>

(* DistMultClient::Stop, called by clean_up when nothing is underway.      *)
CallStop ==
    /\ TaskLockFree /\ ~closed /\ Underway = {}
    /\ closed' = TRUE
    /\ task_queue' = Append(task_queue, Stop)
    /\ NotifyWriter
    /\ UNCHANGED <<on_fly_tasks, done, rpc, reader, stream, result_queue>>

Take ==
    /\ result_queue # <<>>
    /\ result_queue' = Tail(result_queue)
    /\ UNCHANGED <<task_queue, on_fly_tasks, done, rpc, writer, reader, stream, closed>>
-----------------------------------------------------------------------------
(* NextWrite, with task_lock_.  It waits while the queue is empty; the     *)
(* predicate of the inner wait also holds when the call is done, and then  *)
(* the outer loop goes round and round and keeps the lock.                 *)
NextWriteWaits ==
    /\ writer.at = "test" /\ task_queue = <<>>
    /\ writer' = [writer EXCEPT !.at = IF done THEN "spinning" ELSE "asleep"]
    /\ UNCHANGED <<task_queue, on_fly_tasks, done, rpc, reader, stream, closed, result_queue>>

SpuriousWakeup ==
    /\ writer.at = "asleep"
    /\ writer' = [writer EXCEPT !.at = "test"]
    /\ UNCHANGED <<task_queue, on_fly_tasks, done, rpc, reader, stream, closed, result_queue>>

(* StartWrite of the next request, or of the one with id -1 followed by    *)
(* StartWritesDone (WriteNull).  That one is on the stack of WriteNull:    *)
(* the model sends it as it was, as gRPC does that serialises it at once.  *)
(* A task that is not in the map is used nevertheless: what follows is     *)
(* undefined and not modelled.                                             *)
IsFound(id) == id \in on_fly_tasks

NextWriteStarts ==
    /\ writer.at = "test" /\ task_queue # <<>> /\ ~done
    /\ task_queue' = Tail(task_queue)
    /\ writer' = [writer EXCEPT !.id = Head(task_queue),
                                !.at = IF Head(task_queue) = Stop \/ IsFound(Head(task_queue))
                                       THEN "writing" ELSE "not found"]
    /\ UNCHANGED <<on_fly_tasks, done, rpc, reader, stream, closed, result_queue>>

(* The call is done and the queue is not empty: Stop starts a write on a   *)
(* call that gRPC has freed.  What follows is undefined and not modelled.  *)
NextWriteAfterDone ==
    /\ writer.at = "test" /\ task_queue # <<>> /\ done
    /\ writer' = [writer EXCEPT !.at = "undefined"]
    /\ UNCHANGED <<task_queue, on_fly_tasks, done, rpc, reader, stream, closed, result_queue>>

Transmit ==
    /\ writer.at = "writing" /\ ~broken
    /\ to_server' = Append(to_server, writer.id)
    /\ writer' = [writer EXCEPT !.at = "sent", !.id = Nothing]
    /\ UNCHANGED <<task_queue, on_fly_tasks, done, rpc, reader, to_client, ended, broken,
                   closed, result_queue>>

OnWriteDone ==
    /\ writer.at = "sent"
    /\ writer' = [writer EXCEPT !.at = "test", !.by = "reaction"]
    /\ UNCHANGED <<task_queue, on_fly_tasks, done, rpc, reader, stream, closed, result_queue>>

(* OnWriteDone(false): there will be no other write.                       *)
OnWriteFailed ==
    /\ writer.at \in {"writing", "sent"} /\ broken
    /\ writer' = [writer EXCEPT !.at = "over"]
    /\ UNCHANGED <<task_queue, on_fly_tasks, done, rpc, reader, stream, closed, result_queue>>
-----------------------------------------------------------------------------
(* The thread of the node: NextWrite has returned to the constructor,      *)
(* which starts the reading (on a freed call, if that is done already);    *)
(* then Await.                                                             *)
StartRead ==
    /\ rpc = "constructor" /\ (writer.at \in {"writing", "sent", "over"} \/ writer.by = "reaction")
    /\ IF done THEN rpc' = "undefined" /\ UNCHANGED reader
       ELSE rpc' = "await" /\ reader' = [reader EXCEPT !.at = "reading"]
    /\ UNCHANGED <<task_queue, on_fly_tasks, done, writer, stream, closed, result_queue>>

Await ==
    /\ rpc = "await" /\ done
    /\ rpc' = "returned"
    /\ UNCHANGED <<task_queue, on_fly_tasks, done, writer, reader, stream, closed, result_queue>>

(* OnReadDone: the task leaves the map and the credit is passed on, then   *)
(* the result is stored, its id is passed on and the next read started.    *)
(* A task that is not in the map is used nevertheless, as in NextWrite.    *)
WithoutEntry(id) == on_fly_tasks \ {id}
FirstItem(id) == <<Rpi>>

OnReadDone ==
    /\ reader.at = "reading" /\ to_client # <<>> /\ ~broken /\ IsFound(Head(to_client))
    /\ on_fly_tasks' = WithoutEntry(Head(to_client))
    /\ result_queue' = result_queue \o FirstItem(Head(to_client))
    /\ reader' = [at |-> "credited", id |-> Head(to_client)]
    /\ to_client' = Tail(to_client)
    /\ UNCHANGED <<task_queue, done, rpc, writer, to_server, ended, broken, closed>>

OnReadDoneInVain ==
    /\ reader.at = "reading" /\ to_client # <<>> /\ ~broken /\ ~IsFound(Head(to_client))
    /\ reader' = [reader EXCEPT !.at = "not found"]
    /\ UNCHANGED <<task_queue, on_fly_tasks, done, rpc, writer, stream, closed, result_queue>>

ReturnResult ==
    /\ reader.at = "credited"
    /\ result_queue' = Append(result_queue, reader.id)
    /\ reader' = [at |-> "reading", id |-> Nothing]
    /\ UNCHANGED <<task_queue, on_fly_tasks, done, rpc, writer, stream, closed>>

(* OnReadDone(false).                                                      *)
OnReadEnd ==
    /\ reader.at = "reading" /\ (broken \/ (ended /\ to_client = <<>>))
    /\ reader' = [reader EXCEPT !.at = "over"]
    /\ UNCHANGED <<task_queue, on_fly_tasks, done, rpc, writer, stream, closed, result_queue>>

InReaction ==
    /\ writer.by = "reaction"
    /\ writer.at \in {"test", "asleep", "spinning", "undefined", "not found"}

OnDone ==
    /\ ~done /\ (broken \/ ended)
    /\ reader.at \in {"not started", "over"} /\ writer.at \notin {"writing", "sent"} /\ ~InReaction
    /\ done' = TRUE
    /\ UNCHANGED <<task_queue, on_fly_tasks, rpc, writer, reader, stream, closed, result_queue>>
-----------------------------------------------------------------------------
(* The node answers its oldest request; it finishes the call after -1.     *)
Answer ==
    /\ ~broken /\ to_server # <<>> /\ Head(to_server) # Stop
    /\ to_client' = Append(to_client, Head(to_server))
    /\ to_server' = Tail(to_server)
    /\ UNCHANGED <<task_queue, on_fly_tasks, done, rpc, writer, reader, ended, broken, closed,
                   result_queue>>

Finish ==
    /\ ~broken /\ to_server # <<>> /\ Head(to_server) = Stop
    /\ to_server' = Tail(to_server)
    /\ ended' = TRUE
    /\ UNCHANGED <<task_queue, on_fly_tasks, done, rpc, writer, reader, to_client, broken,
                   closed, result_queue>>

(* A connection that is lost or never was there.                           *)
Break ==
    /\ ~broken /\ ~ended
    /\ broken' = TRUE
    /\ UNCHANGED <<task_queue, on_fly_tasks, done, rpc, writer, reader, to_server, to_client,
                   ended, closed, result_queue>>
-----------------------------------------------------------------------------
Manager == AddTask \/ CallStop \/ Take
Writer == \/ NextWriteWaits \/ NextWriteStarts \/ NextWriteAfterDone
          \/ Transmit \/ OnWriteDone \/ OnWriteFailed
Reader == OnReadDone \/ OnReadDoneInVain \/ ReturnResult \/ OnReadEnd
RpcThread == StartRead \/ Await
Node == Answer \/ Finish

Next == Manager \/ Writer \/ SpuriousWakeup \/ Reader \/ RpcThread \/ OnDone \/ Node \/ Break

(* Threads, reactions and node run on; the manager need not give the       *)
(* client anything, and the stream need not break.                         *)
Fairness == /\ WF_vars(Writer) /\ WF_vars(Reader) /\ WF_vars(RpcThread) /\ WF_vars(OnDone)
            /\ WF_vars(Node) /\ WF_vars(Take)

Spec == Init /\ [][Next]_vars /\ Fairness
-----------------------------------------------------------------------------
TypeOK ==
    /\ task_queue \in Seq(TaskIds \cup {Stop}) /\ to_server \in Seq(TaskIds \cup {Stop})
    /\ to_client \in Seq(TaskIds) /\ result_queue \in Seq(TaskIds \cup {Rpi})
    /\ on_fly_tasks \subseteq TaskIds
    /\ done \in BOOLEAN /\ ended \in BOOLEAN /\ broken \in BOOLEAN /\ closed \in BOOLEAN
    /\ rpc \in {"constructor", "await", "returned", "undefined"}
    /\ writer \in [at : {"test", "asleep", "spinning", "writing", "sent", "over", "undefined",
                         "not found"},
                   by : {"constructor", "reaction"}, id : TaskIds \cup {Stop, Nothing}]
    /\ reader \in [at : {"not started", "reading", "credited", "over", "not found"},
                   id : TaskIds \cup {Nothing}]

(* As long as the manager gives the client no id that it still holds, the  *)
(* map has exactly the tasks that were given and not answered, each at one *)
(* place between the queue and the response, and NextWrite (192) and       *)
(* OnReadDone (93), which search it and use what they find without a       *)
(* check, find their task.                                                 *)
IdsAreFree == IsInjective(Unanswered)

InVain == writer.at = "not found" \/ reader.at = "not found"

MapIsUnanswered == on_fly_tasks = Range(Unanswered) /\ ~InVain

MapHasUnanswered == []IdsAreFree => []MapIsUnanswered

(* Only the loss of the stream leads to where the code is lost: NextWrite  *)
(* in its loop with task_lock_ held, which stops the manager's writer at   *)
(* its next add_task for the node, or an operation on a call that is done. *)
OnlyALossStrands ==
    (writer.at \in {"spinning", "undefined"} \/ rpc = "undefined") => broken

(* The client answers in the order it was given tasks, credit first, each  *)
(* once, whatever happens to the stream, until it does not find a task.    *)
Clients == INSTANCE ClientQueues WITH
    Rpi <- {Rpi},
    client_queue <- [r \in {Rpi} |-> Unanswered \o (IF closed THEN <<Stop>> ELSE <<>>)],
    entries <- [r \in {Rpi} |-> on_fly_tasks],
    answering <- [r \in {Rpi} |-> reader.id]

ClientsStep == Clients!Init /\ [][Clients!Next]_(Clients!clientVars)

(* Unless the stream breaks or a task is not found, a task that is given   *)
(* to the client is answered: NextWrite does not sleep through it, in the  *)
(* constructor nor in a reaction.                                          *)
TasksAnswered ==
    \A id \in TaskIds : id \in on_fly_tasks ~> (id \notin on_fly_tasks \/ broken \/ InVain)

(* "should wait until the client rpc is done" (distmult_client.cc:420),    *)
(* and the destructor until "All client joined!" (380): a client that was  *)
(* told to stop is done in the end, if its stream does not break.          *)
StopEndsTheRpc == closed ~> (rpc = "returned" \/ broken)
=============================================================================
