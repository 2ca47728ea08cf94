---------------------------- MODULE MatrixHandler ----------------------------
(***************************************************************************)
(* matrixclass::MatrixClass, the secondary's task handler: eight message   *)
(* buffers, two for each of four (former) compute threads, the one compute *)
(* thread there is now, and the two queues of buffers into and out of it.  *)
(* ServerRpc makes the calls.  An operation that waits is a guard, but the *)
(* sleeping and waking of the compute thread is modelled step by step, for *)
(* stop_threads sets stop_flag_ without the lock the thread sleeps with.   *)
(***************************************************************************)
EXTENDS Integers, Sequences

CONSTANT LastBufferWrap   \* last_buffer_ is a uint32_t: 2^32 in the code

Threads == 0..3
Buffers == 0..7
NoBuffer == -1

ASSUME LastBufferWrapAssumption == LastBufferWrap \in Nat \ {0} /\ LastBufferWrap % 2 = 0

VARIABLES resources,     \* free buffers of a thread
          last_buffer,   \* how often a thread's buffers were selected
          input_queue,   \* buffers with a request to compute, input_queue_[0]
          output_queue,  \* buffers with a result to send; tasks_pending is its length
          data_task,     \* buffer.data.task_id
          compute,       \* the compute thread: where it is, its buffer
          stop_flag

handlerVars == <<resources, last_buffer, input_queue, output_queue, data_task, compute, stop_flag>>

Thread(b) == b % 4

HandlerInit ==
    /\ resources = [t \in Threads |-> 2]
    /\ last_buffer = [t \in Threads |-> 1]
    /\ input_queue = <<>> /\ output_queue = <<>>
    /\ data_task = [b \in Buffers |-> -1]
    /\ compute = [at |-> "test", buffer |-> NoBuffer]
    /\ stop_flag = FALSE
-----------------------------------------------------------------------------
(* Wrong versions of definitions below.                                    *)
NotifiesNobody == UNCHANGED compute
FrontOfQueue(b) == <<b>> \o input_queue
ForgetsResource(t) == UNCHANGED resources
ForgetsFlag == stop_flag' = stop_flag /\ NotifiesNobody
BothBuffers(t) == resources' = [resources EXCEPT ![t] = @ + 2]
-----------------------------------------------------------------------------
(* select_next_buffer: the first thread with the most free buffers, and of *)
(* its two buffers the one that was not selected last.                     *)
MostFree(t) ==
    /\ \A u \in Threads : resources[u] <= resources[t]
    /\ \A u \in 0..(t - 1) : resources[u] < resources[t]

NextOfTwo(t) == ((last_buffer[t] + 1) % LastBufferWrap) % 2

NothingFree == \A t \in Threads : resources[t] = 0

\* A wrong version of the next definition.
KeepsResource(b) ==
    \E t \in Threads :
        /\ resources[t] > 0 /\ MostFree(t)
        /\ b = NextOfTwo(t) * 4 + t
        /\ last_buffer' = [last_buffer EXCEPT ![t] = (@ + 1) % LastBufferWrap]
        /\ UNCHANGED resources

SelectNextBuffer(b) ==
    \E t \in Threads :
        /\ resources[t] > 0 /\ MostFree(t)
        /\ b = NextOfTwo(t) * 4 + t
        /\ resources' = [resources EXCEPT ![t] = @ - 1]
        /\ last_buffer' = [last_buffer EXCEPT ![t] = (@ + 1) % LastBufferWrap]

AddResource(t) == resources' = [resources EXCEPT ![t] = @ + 1]

(* input_cv_[0].notify_one or notify_all: the thread tests again.          *)
NotifyCompute == compute' = IF compute.at = "asleep" THEN [compute EXCEPT !.at = "test"] ELSE compute

InputLockFree == compute.at # "tested"

Queued(b) == Append(input_queue, b)

(* process_request after a possible stop: the buffer is queued for the     *)
(* compute thread.  The branch for operations it does not know, which      *)
(* leaves data.task_id as it was, is left out: the primary sends only      *)
(* MULTIPLICATION, which is also what a request with no ops reads as.      *)
ProcessRequest(b, id) ==
    /\ InputLockFree
    /\ data_task' = [data_task EXCEPT ![b] = id]
    /\ input_queue' = Queued(b)
    /\ NotifyCompute

(* stop_threads up to the join: no lock is taken.                          *)
StopThreads ==
    /\ stop_flag' = TRUE
    /\ NotifyCompute

ComputeJoined == compute.at = "done"
-----------------------------------------------------------------------------
(* The compute thread, with the input lock, finds that it has to stop, a   *)
(* buffer to compute, or nothing: then it will sleep, and the lock is not  *)
(* free until it does.                                                     *)
ComputeTest ==
    /\ compute.at = "test"
    /\ IF stop_flag THEN /\ compute' = [compute EXCEPT !.at = "done"]
                         /\ UNCHANGED input_queue
       ELSE IF input_queue = <<>> THEN /\ compute' = [compute EXCEPT !.at = "tested"]
                                       /\ UNCHANGED input_queue
       ELSE /\ compute' = [at |-> "computing", buffer |-> Head(input_queue)]
            /\ input_queue' = Tail(input_queue)
    /\ UNCHANGED <<resources, last_buffer, output_queue, data_task, stop_flag>>

ComputeSleep ==
    /\ compute.at = "tested"
    /\ compute' = [compute EXCEPT !.at = "asleep"]
    /\ UNCHANGED <<resources, last_buffer, input_queue, output_queue, data_task, stop_flag>>

ComputeSpuriousWakeup ==
    /\ compute.at = "asleep"
    /\ compute' = [compute EXCEPT !.at = "test"]
    /\ UNCHANGED <<resources, last_buffer, input_queue, output_queue, data_task, stop_flag>>

(* The result is in the response of the buffer and queued for              *)
(* check_response; ServerRpc has the notification of the writer.           *)
ComputeFinish ==
    /\ compute.at = "computing"
    /\ output_queue' = Append(output_queue, compute.buffer)
    /\ compute' = [at |-> "test", buffer |-> NoBuffer]
    /\ UNCHANGED <<resources, last_buffer, input_queue, data_task, stop_flag>>

=============================================================================
