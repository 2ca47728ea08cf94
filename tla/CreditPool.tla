----------------------------- MODULE CreditPool -----------------------------
(***************************************************************************)
(* What the primary's resource scheduler promises its callers, without its *)
(* linked list, its ordering and its condition variable: every secondary   *)
(* node that joined has Units credits; a consumer that asks is granted one *)
(* credit of some node that has one left, and waits only while no node has *)
(* one; a credit that is given back can be granted again.                  *)
(***************************************************************************)
EXTENDS Naturals

CONSTANTS Rpi,        \* the secondary nodes
          Units,      \* credits of a node that joins
          Consumers   \* the threads that ask for credits

VARIABLES joined,     \* the nodes that are in the pool
          held,       \* held[r]: credits of r that consumers hold
          asking      \* the consumers whose request has not been granted

poolVars == <<joined, held, asking>>

Init == /\ joined = {}
        /\ held = [r \in Rpi |-> 0]
        /\ asking = {}

Join(r) == /\ r \notin joined
           /\ joined' = joined \cup {r}
           /\ UNCHANGED <<held, asking>>

Ask(c) == /\ c \notin asking
          /\ joined = Rpi
          /\ asking' = asking \cup {c}
          /\ UNCHANGED <<joined, held>>

(* A wrong version of Grant: it does not look at what is left.             *)
GrantUnchecked(c) == /\ c \in asking
                     /\ \E r \in joined : held' = [held EXCEPT ![r] = @ + 1]
                     /\ asking' = asking \ {c}
                     /\ UNCHANGED joined

Grant(c) == /\ c \in asking
            /\ \E r \in joined : /\ held[r] < Units
                                 /\ held' = [held EXCEPT ![r] = @ + 1]
            /\ asking' = asking \ {c}
            /\ UNCHANGED joined

GiveBack(r) == /\ held[r] > 0
               /\ held' = [held EXCEPT ![r] = @ - 1]
               /\ UNCHANGED <<joined, asking>>

Next == \/ \E r \in Rpi : Join(r) \/ GiveBack(r)
        \/ \E c \in Consumers : Ask(c) \/ Grant(c)

(* A consumer is not left waiting while some node has a credit for it.     *)
Spec == Init /\ [][Next]_poolVars /\ \A c \in Consumers : WF_poolVars(Grant(c))
=============================================================================
