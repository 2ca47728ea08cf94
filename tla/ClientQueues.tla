---------------------------- MODULE ClientQueues ----------------------------
(***************************************************************************)
(* What the clients of the secondary nodes promise the manager, without    *)
(* their streams, locks and threads: a client answers the tasks it is      *)
(* given one after the other, and passes on first the node's credit and    *)
(* then the result, into the one queue that all clients share.  It finds   *)
(* the task by its id: the second of two tasks that it is given with the   *)
(* same id replaces the first, and once one is answered it searches for    *)
(* the other in vain and uses what it has not found.  What follows is      *)
(* undefined; here the client stops.                                       *)
(***************************************************************************)
EXTENDS Integers, Sequences

CONSTANTS Rpi,       \* the nodes
          TaskIds,   \* the ids of tasks
          Nothing    \* no task

Stop == -1

VARIABLES client_queue,  \* ids given to a client and not answered, Stop at the end
          entries,       \* the ids in a client's map of tasks
          answering,     \* the id whose credit has been passed on, and not its result
          result_queue   \* node numbers (credits) and task ids (results)

clientVars == <<client_queue, entries, answering, result_queue>>

Init == /\ client_queue = [r \in Rpi |-> <<>>]
        /\ entries = [r \in Rpi |-> {}]
        /\ answering = [r \in Rpi |-> Nothing]
        /\ result_queue = <<>>
-----------------------------------------------------------------------------
(* A wrong version of a definition below.                                  *)
LosesCredit(r) == result_queue
-----------------------------------------------------------------------------
Give(r, id) ==
    /\ client_queue' = [client_queue EXCEPT ![r] = Append(@, id)]
    /\ entries' = [entries EXCEPT ![r] = @ \cup {id}]
    /\ UNCHANGED <<answering, result_queue>>

Close(S) ==
    /\ client_queue' = [r \in Rpi |-> IF r \in S THEN Append(client_queue[r], Stop)
                                      ELSE client_queue[r]]
    /\ UNCHANGED <<entries, answering, result_queue>>

IsFound(r) == client_queue[r] # <<>> /\ Head(client_queue[r]) \in entries[r]

WithCredit(r) == Append(result_queue, r)

ReturnCredit(r) ==
    /\ answering[r] = Nothing /\ IsFound(r)
    /\ result_queue' = WithCredit(r)
    /\ answering' = [answering EXCEPT ![r] = Head(client_queue[r])]
    /\ entries' = [entries EXCEPT ![r] = @ \ {Head(client_queue[r])}]
    /\ client_queue' = [client_queue EXCEPT ![r] = Tail(@)]

ReturnResult(r) ==
    /\ answering[r] # Nothing
    /\ result_queue' = Append(result_queue, answering[r])
    /\ answering' = [answering EXCEPT ![r] = Nothing]
    /\ UNCHANGED <<client_queue, entries>>

(* The manager takes the oldest item.                                      *)
Take ==
    /\ result_queue # <<>>
    /\ result_queue' = Tail(result_queue)
    /\ UNCHANGED <<client_queue, entries, answering>>

Client(r) == ReturnCredit(r) \/ ReturnResult(r)

Next == \/ \E r \in Rpi : Client(r) \/ \E id \in TaskIds : Give(r, id)
        \/ \E S \in SUBSET Rpi : Close(S)
        \/ Take

(* A client goes on until it has answered everything, or cannot.           *)
Fairness == \A r \in Rpi : WF_clientVars(Client(r))

Spec == Init /\ [][Next]_clientVars /\ Fairness
=============================================================================
