-------------------------------- MODULE Job --------------------------------
(***************************************************************************)
(* What the primary promises of a job: every task of the forest is handed  *)
(* out at most once, and only when both its operands are done; the job is  *)
(* over only when every task is done, and it gets there if no task is      *)
(* lost.  A task is done when a result has been processed for it.          *)
(***************************************************************************)
EXTENDS TaskForest

VARIABLES status,   \* status[t]: "waiting", "running", "done" or "lost"
          over      \* the primary has declared the job finished

jobVars == <<status, over>>

Init == /\ status = [t \in Task |-> "waiting"]
        /\ over = FALSE

Start(t) == /\ status[t] = "waiting"
            /\ \A c \in Children(t) : status[c] = "done"
            /\ status' = [status EXCEPT ![t] = "running"]
            /\ UNCHANGED over

Complete(t) == /\ status[t] = "running"
               /\ status' = [status EXCEPT ![t] = "done"]
               /\ UNCHANGED over

Lose(t) == /\ status[t] = "running"
           /\ status' = [status EXCEPT ![t] = "lost"]
           /\ UNCHANGED over

End == /\ \A t \in Task : status[t] = "done"
       /\ over' = TRUE
       /\ UNCHANGED status

Proceed == End \/ \E t \in Task : Start(t) \/ Complete(t)
Next == Proceed \/ \E t \in Task : Lose(t)

Spec == /\ Init /\ [][Next]_jobVars
        /\ WF_jobVars(Proceed) \/ <>(\E t \in Task : status[t] = "lost")
=============================================================================
