-------------------------- MODULE ResourceScheduler --------------------------
(***************************************************************************)
(* rpiresource::ResourceScheduler, the primary's account of how many more  *)
(* tasks each secondary node can take: a singly linked list of entries     *)
(* (rpi_id, resource_count), guarded by list_lock_, with list_cv_ for      *)
(* consumers that find it empty.                                           *)
(*                                                                         *)
(* list is the chain of entries from head; an entry is identified by its   *)
(* rpi_id.  tail is the entry the tail pointer designates: the code keeps  *)
(* it by hand, so that it designates the last entry is an invariant here   *)
(* and not a definition.                                                   *)
(***************************************************************************)
EXTENDS Naturals, Sequences, SequencesExt

CONSTANTS Rpi,        \* the secondary nodes
          Units,      \* resource_count of an entry that joins; 3 in the code
          Consumers,  \* threads that call consume_resource; one in the code
          NoRpi       \* the null tail pointer

ASSUME UnitsAssumption == Units \in Nat \ {0}
ASSUME NoRpiAssumption == NoRpi \notin Rpi
\* The manager's writer thread is the only caller; produce_resource wakes one
\* consumer, and only when it finds the list empty, so two of them would not do.
ASSUME OneConsumer == \A c, d \in Consumers : c = d

VARIABLES list,    \* the entries from head on
          tail,    \* the entry the tail pointer designates
          joined,  \* the nodes add_entry_head was called for
          held,    \* held[r]: consumed and not yet produced again
          caller   \* each consumer: "out" of consume_resource, "in" it, or
                   \* "waiting" on list_cv_

vars == <<list, tail, joined, held, caller>>

Entry == [rpi : Rpi, count : 1..Units]
Waiting == {c \in Consumers : caller[c] = "waiting"}

Init == /\ list = <<>>
        /\ tail = NoRpi
        /\ joined = {}
        /\ held = [r \in Rpi |-> 0]
        /\ caller = [c \in Consumers |-> "out"]
-----------------------------------------------------------------------------
(* Wrong versions of definitions below, one per property: each is the slip *)
(* a maintainer could make there, and the property must notice it.         *)
NotifyNobody == UNCHANGED caller
ConsumedTailForgotten(rest, p, h) == tail
KeepExhaustedEntry(h) == FALSE
FreshEntryAlways(r) == FALSE
-----------------------------------------------------------------------------
(* add_entry_head: a node joins at the head with Units units.  It notifies *)
(* nobody: the manager calls it before it starts the consumer thread.      *)
AddEntryHead(r) ==
    /\ r \notin joined
    /\ joined' = joined \cup {r}
    /\ list' = <<[rpi |-> r, count |-> Units]>> \o list
    /\ tail' = IF list = <<>> THEN r ELSE tail
    /\ UNCHANGED <<held, caller>>

(* A consumer enters consume_resource.  The threads start once every node  *)
(* has joined (ClusterManager's constructor).                              *)
Call(c) ==
    /\ joined = Rpi
    /\ caller[c] = "out"
    /\ caller' = [caller EXCEPT ![c] = "in"]
    /\ UNCHANGED <<list, tail, joined, held>>

(* list_cv_.wait on the empty list: the lock is released and the thread    *)
(* blocked in one step.                                                    *)
Wait(c) ==
    /\ caller[c] = "in"
    /\ list = <<>>
    /\ caller' = [caller EXCEPT ![c] = "waiting"]
    /\ UNCHANGED <<list, tail, joined, held>>

(* A condition variable may wake a thread that nobody notified.            *)
SpuriousWakeup(c) ==
    /\ caller[c] = "waiting"
    /\ caller' = [caller EXCEPT ![c] = "in"]
    /\ UNCHANGED <<list, tail, joined, held>>

(* The loop over s that stops at the first entry whose count is not above  *)
(* n leaves p entries behind it.                                           *)
SkipsAbove(s, n, p) ==
    /\ \A i \in 1..p : s[i].count > n
    /\ p < Len(s) => s[p + 1].count <= n

(* The head is unlinked and freed when its last unit is consumed.          *)
Exhausted(h) == h.count = 0

(* tail after the head h moved behind the first p entries of rest.         *)
TailAfterMove(rest, p, h) == IF p > 0 /\ p = Len(rest) THEN h.rpi ELSE tail

(* consume_resource with the list not empty: one unit of the head; a head  *)
(* without units is removed, any other goes behind the entries that have   *)
(* more units than it has left.                                            *)
ConsumeResource(c) ==
    /\ caller[c] = "in"
    /\ list # <<>>
    /\ LET h == [Head(list) EXCEPT !.count = @ - 1]
           rest == Tail(list)
       IN /\ IF Exhausted(h)
             THEN /\ list' = rest
                  /\ tail' = IF rest = <<>> THEN NoRpi ELSE tail
             ELSE \E p \in 0..Len(rest) :
                     /\ SkipsAbove(rest, h.count, p)
                     /\ list' = InsertAt(rest, p + 1, h)
                     /\ tail' = TailAfterMove(rest, p, h)
          /\ held' = [held EXCEPT ![h.rpi] = @ + 1]
    /\ caller' = [caller EXCEPT ![c] = "out"]
    /\ UNCHANGED joined

(* list_cv_.notify_one.                                                    *)
NotifyOne ==
    IF Waiting = {} THEN UNCHANGED caller
    ELSE \E c \in Waiting : caller' = [caller EXCEPT ![c] = "in"]

InList(r) == \E i \in DOMAIN list : list[i].rpi = r

(* produce_resource, the list empty: the only case that notifies.          *)
ProduceIntoEmpty(r) ==
    /\ list = <<>>
    /\ list' = <<[rpi |-> r, count |-> 1]>>
    /\ tail' = r
    /\ NotifyOne

(* produce_resource, no entry for r: linked behind the tail entry.         *)
ProduceNewEntry(r) ==
    /\ list # <<>> /\ ~InList(r)
    /\ \E i \in DOMAIN list :
          /\ list[i].rpi = tail
          /\ list' = Append(SubSeq(list, 1, i), [rpi |-> r, count |-> 1])
    /\ tail' = r
    /\ UNCHANGED caller

(* produce_resource, an entry for r: one unit more, and the entry moves    *)
(* forward if its predecessor now has fewer.  The code looks for the new   *)
(* place by comparing the entries it passes with the head, not with the    *)
(* entry it moves.                                                         *)
ProduceExistingEntry(r) ==
    /\ \E i \in DOMAIN list :
          /\ list[i].rpi = r
          /\ LET target == [list[i] EXCEPT !.count = @ + 1]
                 rest == RemoveAt(list, i)
             IN IF i = 1 \/ list[i - 1].count >= target.count
                THEN list' = [list EXCEPT ![i] = target] /\ UNCHANGED tail
                ELSE /\ tail' = IF tail = r THEN list[i - 1].rpi ELSE tail
                     /\ \E p \in 0..Len(rest) :
                           /\ SkipsAbove(rest, Head(rest).count, p)
                           /\ list' = InsertAt(rest, p + 1, target)
    /\ UNCHANGED caller

(* The reader thread gives a unit of r back once r has answered a task.    *)
ProduceResource(r) ==
    /\ held[r] > 0
    /\ held' = [held EXCEPT ![r] = @ - 1]
    /\ UNCHANGED joined
    /\ \/ ProduceIntoEmpty(r)
       \/ ProduceNewEntry(r)
       \/ ProduceExistingEntry(r)

Next == \/ \E r \in Rpi : AddEntryHead(r) \/ ProduceResource(r)
        \/ \E c \in Consumers : Call(c) \/ Wait(c) \/ SpuriousWakeup(c) \/ ConsumeResource(c)

(* A thread inside consume_resource is scheduled again.  Nothing is        *)
(* assumed of the secondary nodes: units may never come back.              *)
Fairness == \A c \in Consumers : WF_vars(Wait(c) \/ ConsumeResource(c))

Spec == Init /\ [][Next]_vars /\ Fairness
-----------------------------------------------------------------------------
TypeOK ==
    /\ list \in Seq(Entry)
    /\ tail \in Rpi \cup {NoRpi}
    /\ joined \in SUBSET Rpi
    /\ held \in [Rpi -> 0..Units]
    /\ caller \in [Consumers -> {"out", "in", "waiting"}]

(* No node has two entries, and tail designates the last entry of the list *)
(* whatever moves and removals there were: an entry linked behind another  *)
(* one would be lost (consume_resource and produce_resource update tail in *)
(* four different places).                                                 *)
ListWellFormed ==
    /\ \A i, j \in DOMAIN list : list[i].rpi = list[j].rpi => i = j
    /\ tail = IF list = <<>> THEN NoRpi ELSE list[Len(list)].rpi

(* No unit is lost or made: what the list holds of a node and what was     *)
(* consumed of it add up to what it joined with, and a node without an     *)
(* entry has all its units out.                                            *)
UnitsConserved ==
    /\ \A i \in DOMAIN list : list[i].count + held[list[i].rpi] = Units
    /\ \A r \in joined : ~InList(r) => held[r] = Units
    /\ \A r \in Rpi \ joined : ~InList(r) /\ held[r] = 0

(* A consumer sleeps on list_cv_ only while there is nothing to consume,   *)
(* although produce_resource notifies only when it found the list empty.   *)
NoLostWakeup == Waiting # {} => list = <<>>

(* The scheduler is a credit pool: never more than Units credits of a node *)
(* are out, and a consumer is not left asleep while a node has one.        *)
Pool == INSTANCE CreditPool WITH asking <- {c \in Consumers : caller[c] # "out"}
PoolSpec == Pool!Spec

(* What the comment "resource_count in descending order" says of the list  *)
(* (resource_scheduler.cc:53); the code breaks it.                         *)
DescendingOrder ==
    \A i \in 1..(Len(list) - 1) : list[i].count >= list[i + 1].count
=============================================================================
