------------------------------ MODULE ServerRpc ------------------------------
(***************************************************************************)
(* DistMultImpl::ComputeRPC, the secondary's end of a stream, over         *)
(* MatrixHandler, with a primary that keeps at most Window requests        *)
(* unanswered, sends -1 when all are answered, and ends its side.          *)
(*                                                                         *)
(* Requests and responses are task ids.  Reactions for reads and for       *)
(* writes run on different threads of gRPC; a write can complete, and the  *)
(* next one begin, before the thread that started it has called            *)
(* add_resource.  Nothing bounds how many threads are late in that way.    *)
(***************************************************************************)
EXTENDS MatrixHandler, SequencesExt

CONSTANTS Window,        \* the primary's credits for this node; 3 in the code
          TaskIds        \* bound: task ids, enough for Window unanswered requests

FinalId == -1   \* the task id that asks for the end

ASSUME WindowAssumption == Window \in Nat \ {0}
ASSUME FinalIdAssumption == FinalId \notin TaskIds

VARIABLES unanswered,   \* the primary: requests sent and not answered, in order
          closed,       \* the primary has sent -1 and ended its side
          to_server,    \* requests on the stream
          to_client,    \* responses on the stream
          reader,       \* where the reading side is; current_buffer_; the request in it
          writer,       \* where the writing side is, and the buffer it writes
          releasing     \* add_resource calls still to be made, for each thread

clientVars == <<unanswered, closed>>
vars == <<handlerVars, clientVars, to_server, to_client, reader, writer, releasing>>

Init ==
    /\ HandlerInit
    /\ unanswered = <<>> /\ closed = FALSE
    /\ to_server = <<>> /\ to_client = <<>>
    /\ reader = [at |-> "select", buffer |-> NoBuffer, id |-> FinalId]
    /\ writer = [at |-> "check", buffer |-> NoBuffer]
    /\ releasing = [t \in Threads |-> 0]
-----------------------------------------------------------------------------
(* The primary.  The ids of a node's tasks are whatever the manager has    *)
(* reached when it picks the node, and are used again when answered: a     *)
(* client that is given an id it still holds does not get far (Session).   *)
SendRequest ==
    /\ ~closed /\ Len(unanswered) < Window
    /\ \E id \in TaskIds \ Range(unanswered) :
          /\ unanswered' = Append(unanswered, id)
          /\ to_server' = Append(to_server, id)
    /\ UNCHANGED <<handlerVars, closed, to_client, reader, writer, releasing>>

ReceiveResponse ==
    /\ to_client # <<>>
    /\ unanswered' = RemoveFirst(unanswered, Head(to_client))
    /\ to_client' = Tail(to_client)
    /\ UNCHANGED <<handlerVars, closed, to_server, reader, writer, releasing>>

Close ==
    /\ ~closed /\ unanswered = <<>>
    /\ closed' = TRUE
    /\ to_server' = Append(to_server, FinalId)
    /\ UNCHANGED <<handlerVars, unanswered, to_client, reader, writer, releasing>>
-----------------------------------------------------------------------------
(* NextRead: with no free buffer, no read is started and none ever will    *)
(* be.                                                                     *)
NextRead ==
    /\ reader.at = "select"
    /\ IF NothingFree
       THEN /\ reader' = [reader EXCEPT !.at = "stuck", !.buffer = NoBuffer]
            /\ UNCHANGED <<resources, last_buffer>>
       ELSE \E b \in Buffers :
               /\ SelectNextBuffer(b)
               /\ reader' = [reader EXCEPT !.at = "reading", !.buffer = b]
    /\ UNCHANGED <<input_queue, output_queue, data_task, compute, stop_flag, clientVars,
                   to_server, to_client, writer, releasing>>

(* OnReadDone, a request: one with task id -1 stops the compute thread     *)
(* before it is processed like any other.                                  *)
OnReadDone ==
    /\ reader.at = "reading" /\ to_server # <<>>
    /\ reader' = [reader EXCEPT !.at = IF Head(to_server) = FinalId THEN "stop" ELSE "process",
                                !.id = Head(to_server)]
    /\ to_server' = Tail(to_server)
    /\ UNCHANGED <<handlerVars, clientVars, to_client, writer, releasing>>

(* OnReadDone(false): the primary has ended its side.                      *)
OnReadEnd ==
    /\ reader.at = "reading" /\ to_server = <<>> /\ closed
    /\ reader' = [reader EXCEPT !.at = "finished"]
    /\ UNCHANGED <<handlerVars, clientVars, to_server, to_client, writer, releasing>>

ReaderStop ==
    /\ reader.at = "stop"
    /\ StopThreads
    /\ reader' = [reader EXCEPT !.at = "join"]
    /\ UNCHANGED <<resources, last_buffer, input_queue, output_queue, data_task, clientVars,
                   to_server, to_client, writer, releasing>>

ReaderJoin ==
    /\ reader.at = "join" /\ ComputeJoined
    /\ reader' = [reader EXCEPT !.at = "process"]
    /\ UNCHANGED <<handlerVars, clientVars, to_server, to_client, writer, releasing>>

ReaderProcess ==
    /\ reader.at = "process"
    /\ ProcessRequest(reader.buffer, reader.id)
    /\ reader' = [at |-> "select", buffer |-> NoBuffer, id |-> FinalId]
    /\ UNCHANGED <<resources, last_buffer, output_queue, stop_flag, clientVars, to_server,
                   to_client, writer, releasing>>
-----------------------------------------------------------------------------
(* NextWrite: check_response, StartWrite.  check_response waits for a      *)
(* result or for the stop flag, and in both cases takes the front of the   *)
(* output queue.  Nobody notifies it of the flag: it sees it only if it is *)
(* not asleep, or wakes up for no reason.                                  *)
HasResult == output_queue # <<>>

ResponseOf(b) == data_task[b]

WriterSleep ==
    /\ writer.at = "check" /\ ~HasResult /\ ~stop_flag
    /\ writer' = [writer EXCEPT !.at = "asleep"]
    /\ UNCHANGED <<handlerVars, clientVars, to_server, to_client, reader, releasing>>

WriterSpuriousWakeup ==
    /\ writer.at = "asleep"
    /\ writer' = [writer EXCEPT !.at = "check"]
    /\ UNCHANGED <<handlerVars, clientVars, to_server, to_client, reader, releasing>>

(* output_cv_.notify_one after the result is queued.                       *)
ComputeNotify ==
    /\ ComputeFinish
    /\ writer' = IF writer.at = "asleep" THEN [writer EXCEPT !.at = "check"] ELSE writer
    /\ UNCHANGED <<clientVars, to_server, to_client, reader, releasing>>

ComputeWait ==
    /\ ComputeTest \/ ComputeSleep
    /\ UNCHANGED <<clientVars, to_server, to_client, reader, writer, releasing>>

SpuriousWakeup ==
    /\ ComputeSpuriousWakeup
    /\ UNCHANGED <<clientVars, to_server, to_client, reader, writer, releasing>>

Releasing == releasing[0] + releasing[1] + releasing[2] + releasing[3]

NextWrite ==
    /\ writer.at = "check" /\ HasResult
    /\ LET b == Head(output_queue)
       IN /\ to_client' = Append(to_client, ResponseOf(b))
          /\ writer' = [at |-> "writing", buffer |-> b]
          /\ releasing' = [releasing EXCEPT ![Thread(b)] = @ + 1]
    /\ output_queue' = Tail(output_queue)
    /\ data_task' = [data_task EXCEPT ![Head(output_queue)] = FinalId]
    /\ UNCHANGED <<resources, last_buffer, input_queue, compute, stop_flag, clientVars,
                   to_server, reader>>

(* After the stop: the front of an empty queue.  What follows is undefined *)
(* and not modelled.                                                       *)
TakeFromEmptyQueue ==
    /\ writer.at = "check" /\ ~HasResult /\ stop_flag
    /\ writer' = [writer EXCEPT !.at = "undefined"]
    /\ UNCHANGED <<handlerVars, clientVars, to_server, to_client, reader, releasing>>

OnWriteDone ==
    /\ writer.at = "writing"
    /\ writer' = [at |-> "check", buffer |-> NoBuffer]
    /\ UNCHANGED <<handlerVars, clientVars, to_server, to_client, reader, releasing>>

(* The end of a NextWrite.                                                 *)
Release(t) ==
    /\ releasing[t] > 0
    /\ AddResource(t)
    /\ releasing' = [releasing EXCEPT ![t] = @ - 1]
    /\ UNCHANGED <<last_buffer, input_queue, output_queue, data_task, compute, stop_flag,
                   clientVars, to_server, to_client, reader, writer>>
-----------------------------------------------------------------------------
Primary == SendRequest \/ ReceiveResponse \/ Close
Reader == NextRead \/ OnReadDone \/ OnReadEnd \/ ReaderStop \/ ReaderJoin \/ ReaderProcess
Writer == WriterSleep \/ NextWrite \/ TakeFromEmptyQueue \/ OnWriteDone
Compute == ComputeWait \/ ComputeNotify

Next == \/ Primary \/ Reader \/ Writer \/ Compute
        \/ \E t \in Threads : Release(t)
        \/ WriterSpuriousWakeup \/ SpuriousWakeup

(* The threads run and the network delivers.  The primary need not send,   *)
(* and no wakeup without a reason is owed to anyone.  Such wakeups could   *)
(* take the input lock again and again just before the reader does: a lock *)
(* that is free infinitely often is one the reader gets.                   *)
Fairness == /\ WF_vars(Reader) /\ SF_vars(ReaderProcess) /\ WF_vars(Writer) /\ WF_vars(Compute)
            /\ WF_vars(ReceiveResponse)
            /\ WF_vars(\E t \in Threads : Release(t))

Spec == Init /\ [][Next]_vars /\ Fairness
-----------------------------------------------------------------------------
(* No counter leaves its range: a thread never has more than its two       *)
(* buffers free (add_resource, matrix_handler.cc:64).                      *)
TypeOK ==
    /\ resources \in [Threads -> 0..2]
    /\ last_buffer \in [Threads -> 0..(LastBufferWrap - 1)]
    /\ input_queue \in Seq(Buffers) /\ output_queue \in Seq(Buffers)
    /\ data_task \in [Buffers -> TaskIds \cup {FinalId}]
    /\ compute \in [at : {"test", "tested", "asleep", "computing", "done"},
                    buffer : Buffers \cup {NoBuffer}]
    /\ stop_flag \in BOOLEAN /\ closed \in BOOLEAN
    /\ unanswered \in Seq(TaskIds)
    /\ to_server \in Seq(TaskIds \cup {FinalId}) /\ to_client \in Seq(TaskIds)
    /\ reader \in [at : {"select", "reading", "stop", "join", "process", "finished", "stuck"},
                   buffer : Buffers \cup {NoBuffer}, id : TaskIds \cup {FinalId}]
    /\ writer \in [at : {"check", "asleep", "writing", "undefined"},
                   buffer : Buffers \cup {NoBuffer}]
    /\ releasing \in [Threads -> 0..2]

(* The buffers whose request was processed and whose response was not      *)
(* prepared, in the order in which that will happen.                       *)
Holding(b) == IF b = NoBuffer THEN <<>> ELSE <<b>>

Pipeline == output_queue \o Holding(compute.buffer) \o input_queue

(* A buffer counts as free as soon as its write has begun, so a read may   *)
(* fill its request while its response is still being sent; but however    *)
(* late an add_resource is, no request or task id is overwritten before    *)
(* its response is prepared (select_next_buffer, matrix_handler.cc:45).    *)
BufferExclusive == IsInjective(Pipeline \o Holding(reader.buffer))

(* "There should not be threads working on the same buffer"                *)
(* (matrix_handler.h:66): gRPC has the response until OnWriteDone, and     *)
(* none is computed or prepared in its buffer meanwhile.                   *)
OneThreadPerBuffer ==
    IsInjective(Holding(writer.buffer) \o output_queue \o Holding(compute.buffer))

(* So few threads are late that it holds.                                  *)
FewLate == Window + Releasing <= 5

(* No buffer is lost: as long as a window of them and those that wait for  *)
(* a late add_resource are not all eight, NextRead finds one free; without *)
(* one it starts no read, and no other reaction ever will                  *)
(* (distmult_server.cc:137).                                               *)
NoBufferExhaustion == reader.at = "select" /\ Window + Releasing < 8 => ~NothingFree

(* Every unanswered request is at exactly one place of the pipeline, and   *)
(* the requests are answered in the order they were sent: none is lost,    *)
(* answered twice or overtaken (process_request, compute thread,           *)
(* check_response).  The request -1 comes behind them all, and is never    *)
(* answered.                                                               *)
Tasks == [n \in DOMAIN Pipeline |-> data_task[Pipeline[n]]]

Received == IF reader.at \in {"stop", "join", "process"} THEN <<reader.id>> ELSE <<>>

PipelineInOrder ==
    to_client \o Tasks \o Received \o to_server
        = unanswered \o (IF closed THEN <<FinalId>> ELSE <<>>)

(* Every request is answered, unless NextRead found no buffer: the compute *)
(* thread and the writer do not sleep through a notification, and no       *)
(* buffer is lost on the way.                                              *)
RequestsAnswered ==
    \A id \in TaskIds :
        Contains(unanswered, id) ~> (~Contains(unanswered, id) \/ reader.at = "stuck")

(* A session that the primary has closed ends: the request -1 gets past    *)
(* the pipeline, the compute thread is joined, and the read after it       *)
(* fails.  If a buffer was found for it, the one thing that can prevent it *)
(* is that stop_flag_ was set without the lock of input_cv_, between the   *)
(* test and the sleep of the compute thread (matrix_handler.cc:335).       *)
(* Nothing is said of what follows the pop of an empty queue.              *)
StopWasLost == reader.at = "join" /\ stop_flag /\ compute.at = "asleep"

SessionEnds ==
    closed ~> (reader.at \in {"finished", "stuck"} \/ StopWasLost \/ writer.at = "undefined")

(* "should not come back with all_id = -1, just wait"                      *)
(* (distmult_server.cc:121): with nothing to send, check_response waits.   *)
NothingToSendMeansWait == writer.at # "undefined"
=============================================================================
