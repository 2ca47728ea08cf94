------------------------- MODULE ClusterIdsProofs -------------------------
(***************************************************************************)
(* Where the ids of tasks are.  As long as the writer takes an id that is  *)
(* free, every id underway is at one place and stands for one task.  When  *)
(* it takes one that is not, a task is stranded for ever and the job does  *)
(* not end; so a job that ends has left nothing underway, however many     *)
(* nodes, credits, blocks and ids there are.                               *)
(***************************************************************************)
EXTENDS JobProofs

(* The places of ids: the clients, by their node's number, and three more. *)
TheWriter == -1
TheQueue == -2
TheReader == -3
Owner == Rpi \cup {TheWriter, TheQueue, TheReader}

WithWriter == IF writer.at = "add" THEN {writer.task} ELSE {}
InQueue == {n \in Range(result_queue) : ~IsCredit(n)}
WithReader == IF reader.at \in {"decode", "erase"} /\ ~IsCredit(reader.item)
              THEN {reader.item} ELSE {}

IdsAt == [o \in Owner |-> IF o = TheWriter THEN WithWriter
                          ELSE IF o = TheQueue THEN InQueue
                          ELSE IF o = TheReader THEN WithReader
                          ELSE Place(o)]

Once(s) == \A i, j \in DOMAIN s : s[i] \in TaskIds /\ s[i] = s[j] => i = j

Apart == \A o, p \in Owner : \A n \in IdsAt[o] : n \in IdsAt[p] => o = p

InOnePlace ==
    /\ Apart
    /\ Once(result_queue)
    /\ \A r \in Rpi : Once(client_queue[r]) /\ answering[r] \notin Range(client_queue[r])

(* Every id underway stands for a task, and the one of a result that has   *)
(* been processed for a finished one.                                      *)
Exact ==
    /\ InOnePlace
    /\ DOMAIN on_fly_tasks = IdsUnderway
    /\ reader.at = "erase" => on_fly_tasks[reader.item] \in finished

(* A task that could be run, and nobody is going to.                       *)
Stranded(t) ==
    /\ Runnable(t) /\ t \notin finished
    /\ t \notin Range(initial_tasks) \cup InHand
    /\ \A n \in DOMAIN on_fly_tasks : on_fly_tasks[n] # t

SomeStranded == \E t \in Task : Stranded(t)

(* The reader is about to erase the entry of another task.                 *)
Doomed ==
    /\ reader.at = "erase" /\ reader.item \in DOMAIN on_fly_tasks
    /\ on_fly_tasks[reader.item] \notin finished

(* Whatever the ids do.                                                    *)
Fate == Exact \/ Doomed \/ SomeStranded

(* A credit in the queue of results comes before the result of its task.   *)
CreditFollowed ==
    \A i \in DOMAIN result_queue :
        IsCredit(result_queue[i]) =>
            \/ answering[result_queue[i]] # Nothing
            \/ \E j \in DOMAIN result_queue : j > i /\ ~IsCredit(result_queue[j])

StopIsLast ==
    \A r \in Rpi : /\ reader.at # "done" => -1 \notin Range(client_queue[r])
                   /\ reader.at = "done" => client_queue[r] = <<>> \/ client_queue[r] = <<-1>>

IdsInv == Fate /\ CreditFollowed /\ StopIsLast
-----------------------------------------------------------------------------
(* Queues in which every id is once.                                       *)
LEMMA OnceAppend ==
  ASSUME NEW S, NEW s \in Seq(S), NEW x \in S, Once(s), x \in TaskIds => x \notin Range(s)
  PROVE  Once(Append(s, x))
<1> DEFINE t == Append(s, x)
<1>1. /\ Len(s) \in Nat /\ DOMAIN s = 1..Len(s) /\ DOMAIN t = 1..(Len(s) + 1)
      /\ \A i \in 1..Len(s) : t[i] = s[i]
      /\ t[Len(s) + 1] = x
  BY AppendProperties, LenProperties
<1> HIDE DEF t
<1>2. \A i \in 1..Len(s) : x \in TaskIds => s[i] # x
  BY <1>1 DEF Range
<1>3. Once(t)
  BY <1>1, <1>2 DEF Once
<1> QED BY <1>3 DEF t

LEMMA OnceTail ==
  ASSUME NEW S, NEW s \in Seq(S), s # <<>>, Once(s)
  PROVE  /\ Once(Tail(s)) /\ Range(s) = Range(Tail(s)) \cup {Head(s)}
         /\ Head(s) \in TaskIds => Head(s) \notin Range(Tail(s))
<1> DEFINE t == Tail(s)
<1>1. /\ Len(s) \in Nat \ {0} /\ DOMAIN s = 1..Len(s) /\ DOMAIN t = 1..(Len(s) - 1)
      /\ \A i \in 1..(Len(s) - 1) : t[i] = s[i + 1]
      /\ Head(s) = s[1]
  BY HeadTailProperties, LenProperties, EmptySeq
<1> HIDE DEF t
<1>2. Once(t)
  BY <1>1 DEF Once
<1>3. Range(s) = Range(t) \cup {Head(s)}
  <2>1. ASSUME NEW i \in 1..Len(s), i # 1 PROVE s[i] \in Range(t)
    <3>1. i - 1 \in DOMAIN t /\ t[i - 1] = s[i]
      BY <1>1, <2>1
    <3> QED BY <3>1 DEF Range
  <2>2. \A i \in DOMAIN t : t[i] \in Range(s)
    BY <1>1 DEF Range
  <2>3. s[1] \in Range(s)
    BY <1>1 DEF Range
  <2> QED BY <1>1, <2>1, <2>2, <2>3 DEF Range
<1>4. ASSUME Head(s) \in TaskIds, NEW i \in DOMAIN t PROVE t[i] # Head(s)
  BY <1>1, <1>4 DEF Once
<1> QED BY <1>2, <1>3, <1>4 DEF t, Range
-----------------------------------------------------------------------------
(* The ids underway are those at the places.                               *)
Located ==
    /\ IdsAt[TheWriter] = WithWriter /\ IdsAt[TheQueue] = InQueue /\ IdsAt[TheReader] = WithReader
    /\ \A r \in Rpi : IdsAt[r] = Place(r)
    /\ \A n : n \in IdsUnderway <=> \E o \in Owner : n \in IdsAt[o]

LEMMA OwnersDiffer ==
  /\ TheWriter \in Owner /\ TheQueue \in Owner /\ TheReader \in Owner /\ Rpi \subseteq Owner
  /\ TheWriter # TheQueue /\ TheWriter # TheReader /\ TheQueue # TheReader
  /\ \A r \in Rpi : r # TheWriter /\ r # TheQueue /\ r # TheReader
BY NumRpiAssumption DEF Owner, Rpi, TheWriter, TheQueue, TheReader

LEMMA AlwaysLocated == Located
<1>1. /\ IdsAt[TheWriter] = WithWriter /\ IdsAt[TheQueue] = InQueue /\ IdsAt[TheReader] = WithReader
      /\ \A r \in Rpi : IdsAt[r] = Place(r)
  BY OwnersDiffer DEF IdsAt
<1>2. ASSUME NEW n PROVE n \in IdsUnderway <=> \/ n \in WithWriter \/ n \in InQueue
                                               \/ n \in WithReader \/ \E r \in Rpi : n \in Place(r)
  <2> DEFINE U == UNION {Place(r) : r \in Rpi}
  <2>1. IdsUnderway = WithWriter \cup U \cup InQueue \cup WithReader
    BY DEF IdsUnderway, WithWriter, InQueue, WithReader
  <2>2. n \in U <=> \E r \in Rpi : n \in Place(r)
    OBVIOUS
  <2> HIDE DEF U
  <2> QED BY <2>1, <2>2
<1>3. ASSUME NEW n PROVE n \in IdsUnderway <=> \E o \in Owner : n \in IdsAt[o]
  BY <1>1, <1>2, OwnersDiffer DEF Owner
<1> QED BY <1>1, <1>3 DEF Located

LEMMA LocatedNext == Located'
BY AlwaysLocated, PTL

LEMMA UnderwayAreIds == IInv => IdsUnderway \subseteq TaskIds
<1> SUFFICES ASSUME IInv PROVE IdsUnderway \subseteq TaskIds
  OBVIOUS
<1>1. WithWriter \subseteq TaskIds
  BY DEF WithWriter, IInv, Typed, WriterTyped
<1>2. InQueue \subseteq TaskIds
  <2>1. Range(result_queue) \subseteq Item
    BY RangeOfSeq DEF IInv, Typed, ClientsTyped
  <2> QED BY <2>1, IdFacts DEF InQueue, Item
<1>3. WithReader \subseteq TaskIds
  BY IdFacts DEF WithReader, Item, IInv, Typed, ReaderTyped
<1>4. ASSUME NEW r \in Rpi PROVE Place(r) \subseteq TaskIds
  <2>1. client_queue[r] \in Seq(QueueItem) /\ answering[r] \in TaskIds \cup {Nothing}
    BY DEF IInv, Typed, ClientsTyped
  <2>2. Range(client_queue[r]) \subseteq QueueItem
    BY <2>1, RangeOfSeq
  <2> QED BY <2>1, <2>2 DEF Place, QueueItem, Clients!Stop
<1> QED BY <1>1, <1>2, <1>3, <1>4, AlwaysLocated DEF Located, Owner

LEMMA PlacesKept ==
  ASSUME Apart, UNCHANGED <<WithWriter, InQueue, WithReader>>,
         \A r \in Rpi : Place(r)' = Place(r)
  PROVE  Apart' /\ IdsUnderway' = IdsUnderway
<1>1. \A o \in Owner : IdsAt'[o] = IdsAt[o]
  BY OwnersDiffer, AlwaysLocated, LocatedNext DEF Located, Owner
<1>2. Apart'
  BY <1>1 DEF Apart
<1>3. \A n : n \in IdsUnderway' <=> n \in IdsUnderway
  BY <1>1, AlwaysLocated, LocatedNext DEF Located
<1> QED BY <1>2, <1>3

LEMMA PlaceEntered ==
  ASSUME Apart, NEW b \in Owner, NEW n, n \notin IdsUnderway,
         \A o \in Owner : IdsAt'[o] = IF o = b THEN IdsAt[o] \cup {n} ELSE IdsAt[o]
  PROVE  Apart' /\ IdsUnderway' = IdsUnderway \cup {n}
<1>1. \A o \in Owner : n \notin IdsAt[o]
  BY AlwaysLocated DEF Located
<1>2. \A o \in Owner : \A x : x \in IdsAt'[o] <=> x \in IdsAt[o] \/ (o = b /\ x = n)
  OBVIOUS
<1>3. Apart'
  BY <1>1, <1>2 DEF Apart
<1>4. \A x : x \in IdsUnderway' <=> x \in IdsUnderway \/ x = n
  BY <1>2, AlwaysLocated, LocatedNext DEF Located
<1> QED BY <1>3, <1>4

LEMMA PlaceLeft ==
  ASSUME Apart, NEW a \in Owner, NEW n \in IdsAt[a],
         \A o \in Owner : IdsAt'[o] = IF o = a THEN IdsAt[o] \ {n} ELSE IdsAt[o]
  PROVE  Apart' /\ IdsUnderway' = IdsUnderway \ {n}
<1>1. \A o \in Owner : \A x : x \in IdsAt'[o] <=> x \in IdsAt[o] /\ ~(o = a /\ x = n)
  OBVIOUS
<1>2. Apart'
  BY <1>1 DEF Apart
<1>3. \A x : x \in IdsUnderway' <=> x \in IdsUnderway /\ x # n
  BY <1>1, AlwaysLocated, LocatedNext DEF Located, Apart
<1> QED BY <1>2, <1>3

(* An id moves from one place to another.                                  *)
Moved(a, b, n) ==
    \A o \in Owner : IdsAt'[o] = IF o = a THEN IdsAt[o] \ {n}
                                 ELSE IF o = b THEN IdsAt[o] \cup {n} ELSE IdsAt[o]

LEMMA PlaceMoved ==
  ASSUME Apart, NEW a \in Owner, NEW b \in Owner, a # b, NEW n \in IdsAt[a], Moved(a, b, n)
  PROVE  Apart' /\ IdsUnderway' = IdsUnderway
<1>1. \A o \in Owner : \A x : x \in IdsAt'[o] <=> \/ x \in IdsAt[o] /\ ~(o = a /\ x = n)
                                                  \/ o = b /\ x = n
  BY DEF Moved
<1>2. Apart'
  BY <1>1 DEF Apart
<1>3. \A x : x \in IdsUnderway' <=> x \in IdsUnderway
  BY <1>1, AlwaysLocated, LocatedNext DEF Located, Apart
<1> QED BY <1>2, <1>3

(* Steps that move no id.                                                  *)
LEMMA ExactKept ==
  ASSUME Exact, UNCHANGED <<WithWriter, WithReader, clients, on_fly_tasks>>,
         finished \subseteq finished',
         reader'.at = "erase" => reader.at = "erase" /\ reader'.item = reader.item
  PROVE  Exact'
<1>1. UNCHANGED <<client_queue, answering, result_queue>>
  BY DEF clients
<1>2. InQueue' = InQueue /\ \A r \in Rpi : Place(r)' = Place(r)
  BY <1>1 DEF InQueue, Place
<1>3. Apart' /\ IdsUnderway' = IdsUnderway
  BY <1>2, PlacesKept DEF Exact, InOnePlace
<1>4. InOnePlace'
  BY <1>1, <1>3 DEF Exact, InOnePlace, Once
<1> QED BY <1>3, <1>4 DEF Exact

LEMMA InsertExact ==
  ASSUME IInv, Exact, writer.at = "credit", NEW r \in Rpi, WriterInsert(r),
         IdStart + (count % IdSpan) \notin IdsUnderway,
         UNCHANGED <<clients, finished, reader>>
  PROVE  Exact'
<1>1. PICK n : n = IdStart + (count % IdSpan)
  OBVIOUS
<1>2. /\ DOMAIN on_fly_tasks' = DOMAIN on_fly_tasks \cup {n}
      /\ \A m \in DOMAIN on_fly_tasks : m # n => on_fly_tasks'[m] = on_fly_tasks[m]
      /\ writer'.at = "add" /\ writer'.task = n
      /\ UNCHANGED <<client_queue, answering, result_queue>>
  BY <1>1 DEF WriterInsert, clients
<1>3. /\ WithWriter = {} /\ WithWriter' = {n} /\ InQueue' = InQueue /\ WithReader' = WithReader
      /\ \A q \in Rpi : Place(q)' = Place(q)
  BY <1>2 DEF WithWriter, InQueue, WithReader, Place
<1>4. \A o \in Owner : IdsAt'[o] = IF o = TheWriter THEN IdsAt[o] \cup {n} ELSE IdsAt[o]
  BY <1>3, OwnersDiffer, AlwaysLocated, LocatedNext DEF Located, Owner
<1>5. Apart' /\ IdsUnderway' = IdsUnderway \cup {n}
  BY <1>1, <1>4, PlaceEntered, OwnersDiffer DEF Exact, InOnePlace
<1>6. InOnePlace'
  BY <1>2, <1>5 DEF Exact, InOnePlace, Once
<1>7. reader.at = "erase" => reader.item \in IdsUnderway
  BY AlwaysLocated, OwnersDiffer, IdFacts DEF Located, WithReader, IInv, Typed, ReaderTyped
<1> QED BY <1>1, <1>2, <1>5, <1>6, <1>7 DEF Exact

LEMMA AddExact == ASSUME IInv, Exact, WriterAdd PROVE Exact'
<1>1. PICK r \in Rpi, n \in TaskIds : r = writer.rpi /\ n = writer.task
  BY DEF WriterAdd, IInv, Typed, WriterTyped
<1>2. /\ writer.at = "add" /\ writer'.at = "pick"
      /\ client_queue' = [client_queue EXCEPT ![r] = Append(client_queue[r], n)]
      /\ UNCHANGED <<answering, result_queue, on_fly_tasks, finished, reader>>
  BY <1>1 DEF WriterAdd, Clients!Give
<1>3. client_queue \in [Rpi -> Seq(QueueItem)] /\ n \in QueueItem /\ n # -1
  BY IdFacts DEF IInv, Typed, ClientsTyped, QueueItem
<1>4. /\ Range(client_queue'[r]) = Range(client_queue[r]) \cup {n}
      /\ \A q \in Rpi : q # r => client_queue'[q] = client_queue[q]
  BY <1>2, <1>3, AppendRange
<1>5. /\ WithWriter = {n} /\ WithWriter' = {} /\ InQueue' = InQueue /\ WithReader' = WithReader
      /\ \A q \in Rpi : Place(q)' = IF q = r THEN Place(q) \cup {n} ELSE Place(q)
  BY <1>1, <1>2, <1>3, <1>4 DEF WithWriter, InQueue, WithReader, Place, Clients!Stop
<1>6. Moved(TheWriter, r, n)
  BY <1>5, OwnersDiffer, AlwaysLocated, LocatedNext DEF Located, Owner, Moved
<1>7. n \in IdsAt[TheWriter]
  BY <1>5, AlwaysLocated DEF Located
<1>8. Apart' /\ IdsUnderway' = IdsUnderway
  <2>1. Apart /\ TheWriter \in Owner /\ r \in Owner /\ TheWriter # r
    BY OwnersDiffer DEF Exact, InOnePlace
  <2> QED BY <1>6, <1>7, <2>1, PlaceMoved
<1>9. n \notin Place(r)
  BY <1>7, OwnersDiffer, AlwaysLocated DEF Located, Exact, InOnePlace, Apart
<1>10. n \notin Range(client_queue[r]) /\ n # answering[r]
  BY <1>3, <1>9, IdFacts DEF Place, Clients!Stop
<1>11. Once(client_queue'[r])
  BY <1>2, <1>3, <1>10, OnceAppend DEF Exact, InOnePlace
<1>12. answering'[r] \notin Range(client_queue'[r])
  BY <1>2, <1>4, <1>10 DEF Exact, InOnePlace
<1>13. InOnePlace'
  <2>1. \A q \in Rpi : Once(client_queue'[q]) /\ answering'[q] \notin Range(client_queue'[q])
    BY <1>2, <1>4, <1>11, <1>12 DEF Exact, InOnePlace
  <2>2. Once(result_queue')
    BY <1>2 DEF Exact, InOnePlace
  <2> QED BY <1>8, <2>1, <2>2 DEF InOnePlace, Once
<1> QED BY <1>2, <1>8, <1>13 DEF Exact

LEMMA ReturnCreditExact ==
  ASSUME IInv, Exact, NEW r \in Rpi, CreditReturned(r) PROVE Exact'
<1>1. PICK n : n = Head(client_queue[r])
  OBVIOUS
<1>2. /\ client_queue[r] # <<>> /\ n \in DOMAIN client_tasks[r] /\ answering[r] = Nothing
      /\ result_queue' = Append(result_queue, r)
      /\ answering' = [answering EXCEPT ![r] = n]
      /\ client_queue' = [client_queue EXCEPT ![r] = Tail(client_queue[r])]
      /\ UNCHANGED <<on_fly_tasks, finished, writer, reader>>
  BY <1>1 DEF CreditReturned, ids
<1>3. /\ client_queue \in [Rpi -> Seq(QueueItem)] /\ result_queue \in Seq(Item) /\ r \in Item
      /\ answering \in [Rpi -> TaskIds \cup {Nothing}]
  BY DEF IInv, Typed, ClientsTyped, Item
<1>4. n \in TaskIds
  BY <1>2 DEF IInv, Typed, ResultsTyped
<1>5. /\ Once(client_queue'[r]) /\ Range(client_queue[r]) = Range(client_queue'[r]) \cup {n}
      /\ n \notin Range(client_queue'[r])
      /\ \A q \in Rpi : q # r => client_queue'[q] = client_queue[q]
  <2>1. Once(client_queue[r])
    BY DEF Exact, InOnePlace
  <2>2. /\ Once(Tail(client_queue[r]))
        /\ Range(client_queue[r]) = Range(Tail(client_queue[r])) \cup {n}
        /\ n \notin Range(Tail(client_queue[r]))
    BY <1>1, <1>2, <1>3, <1>4, <2>1, OnceTail
  <2> QED BY <1>2, <1>3, <2>2
<1>6. \A q \in Rpi : answering'[q] = IF q = r THEN n ELSE answering[q]
  BY <1>2, <1>3
<1>7. \A q \in Rpi : Place(q)' = Place(q)
  BY <1>2, <1>4, <1>5, <1>6, IdFacts, ZenonT(30) DEF Place, Clients!Stop
<1>8. Once(result_queue') /\ Range(result_queue') = Range(result_queue) \cup {r}
  <2>1. Range(result_queue') = Range(result_queue) \cup {r}
    BY <1>2, <1>3, AppendRange
  <2>2. Once(result_queue')
    BY <1>2, <1>3, IdFacts, OnceAppend DEF Exact, InOnePlace
  <2> QED BY <2>1, <2>2
<1>9. InQueue' = InQueue /\ WithWriter' = WithWriter /\ WithReader' = WithReader
  BY <1>2, <1>8, IdFacts DEF InQueue, WithWriter, WithReader
<1>10. Apart' /\ IdsUnderway' = IdsUnderway
  BY <1>7, <1>9, PlacesKept DEF Exact, InOnePlace
<1>11. InOnePlace'
  <2>1. \A q \in Rpi : Once(client_queue'[q]) /\ answering'[q] \notin Range(client_queue'[q])
    BY <1>5, <1>6 DEF Exact, InOnePlace
  <2> QED BY <1>8, <1>10, <2>1 DEF InOnePlace, Once
<1> QED BY <1>2, <1>10, <1>11 DEF Exact

LEMMA ReturnResultExact ==
  ASSUME IInv, Exact, NEW r \in Rpi, ResultReturned(r) PROVE Exact'
<1>1. PICK n : n = answering[r]
  OBVIOUS
<1>2. /\ n # Nothing
      /\ result_queue' = Append(result_queue, n)
      /\ answering' = [answering EXCEPT ![r] = Nothing]
      /\ UNCHANGED <<client_queue, on_fly_tasks, finished, writer, reader>>
  BY <1>1 DEF ResultReturned, ids
<1>3. /\ client_queue \in [Rpi -> Seq(QueueItem)] /\ result_queue \in Seq(Item)
      /\ answering \in [Rpi -> TaskIds \cup {Nothing}] /\ n \in TaskIds /\ n \in Item
  BY <1>1, <1>2 DEF IInv, Typed, ClientsTyped, Item
<1>4. \A q \in Rpi : answering'[q] = IF q = r THEN Nothing ELSE answering[q]
  BY <1>2, <1>3
<1>5. n \notin Range(client_queue[r])
  BY <1>1 DEF Exact, InOnePlace
<1>6. \A q \in Rpi : Place(q)' = IF q = r THEN Place(q) \ {n} ELSE Place(q)
  BY <1>1, <1>2, <1>4, <1>5 DEF Place, Clients!Stop
<1>7. Range(result_queue') = Range(result_queue) \cup {n}
  BY <1>2, <1>3, AppendRange
<1>8. InQueue' = InQueue \cup {n} /\ WithWriter' = WithWriter /\ WithReader' = WithReader
  BY <1>2, <1>3, <1>7, IdFacts DEF InQueue, WithWriter, WithReader
<1>9. Moved(r, TheQueue, n)
  BY <1>6, <1>8, OwnersDiffer, AlwaysLocated, LocatedNext DEF Located, Owner, Moved
<1>10. n \in IdsAt[r]
  BY <1>1, <1>2, AlwaysLocated DEF Located, Place
<1>11. Apart' /\ IdsUnderway' = IdsUnderway
  <2>1. Apart /\ TheQueue \in Owner /\ r \in Owner /\ r # TheQueue
    BY OwnersDiffer DEF Exact, InOnePlace
  <2> QED BY <1>9, <1>10, <2>1, PlaceMoved
<1>12. n \notin Range(result_queue)
  <2>1. n \notin InQueue
    BY <1>10, OwnersDiffer, AlwaysLocated DEF Located, Exact, InOnePlace, Apart
  <2> QED BY <1>3, <2>1, IdFacts DEF InQueue
<1>13. Once(result_queue')
  BY <1>2, <1>3, <1>12, OnceAppend DEF Exact, InOnePlace
<1>14. \A q \in Rpi : Nothing \notin Range(client_queue[q])
  <2>1. \A q \in Rpi : Range(client_queue[q]) \subseteq QueueItem
    BY <1>3, RangeOfSeq
  <2>2. Nothing \notin QueueItem
    <3>1. Nothing # -1
      BY NothingAssumption
    <3>2. Nothing \notin TaskIds
      BY IdFacts
    <3> QED BY <3>1, <3>2 DEF QueueItem
  <2> QED BY <2>1, <2>2
<1>15. InOnePlace'
  <2>1. \A q \in Rpi : Once(client_queue'[q]) /\ answering'[q] \notin Range(client_queue'[q])
    BY <1>2, <1>4, <1>14 DEF Exact, InOnePlace
  <2> QED BY <1>11, <1>13, <2>1 DEF InOnePlace, Once
<1> QED BY <1>2, <1>11, <1>15 DEF Exact

LEMMA TakeExact == ASSUME IInv, Exact, ReaderTake PROVE Exact'
<1>1. PICK n : n = Head(result_queue)
  OBVIOUS
<1>2. /\ result_queue # <<>> /\ result_queue' = Tail(result_queue) /\ reader.at = "take"
      /\ reader'.at = "decode" /\ reader'.item = n
      /\ UNCHANGED <<client_queue, answering, on_fly_tasks, finished, writer>>
  BY <1>1 DEF ReaderTake, Clients!Take, ids, IInv, Typed, ReaderTyped
<1>3. result_queue \in Seq(Item) /\ n \in Item
  BY <1>1, <1>2, TailSeq DEF IInv, Typed, ClientsTyped
<1>4. n \in Rpi \/ n \in TaskIds
  BY <1>3 DEF Item
<1>5. /\ Once(result_queue') /\ Range(result_queue) = Range(result_queue') \cup {n}
      /\ n \in TaskIds => n \notin Range(result_queue')
  <2>1. Once(result_queue)
    BY DEF Exact, InOnePlace
  <2> QED BY <1>1, <1>2, <1>3, <2>1, OnceTail
<1>6. \A q \in Rpi : Place(q)' = Place(q)
  BY <1>2 DEF Place
<1>7. WithWriter' = WithWriter /\ WithReader = {}
  BY <1>2 DEF WithWriter, WithReader
<1>8. Apart' /\ IdsUnderway' = IdsUnderway
  <2>1. Apart
    BY DEF Exact, InOnePlace
  <2>2. CASE n \in Rpi
    <3>1. InQueue' = InQueue /\ WithReader' = {}
      BY <1>2, <1>5, <2>2, IdFacts DEF InQueue, WithReader
    <3> QED BY <1>6, <1>7, <2>1, <3>1, PlacesKept
  <2>3. CASE n \in TaskIds
    <3>1. n \in InQueue /\ InQueue' = InQueue \ {n} /\ WithReader' = {n}
      BY <1>2, <1>5, <2>3, IdFacts DEF InQueue, WithReader
    <3>2. Moved(TheQueue, TheReader, n)
      BY <1>6, <1>7, <3>1, OwnersDiffer, AlwaysLocated, LocatedNext DEF Located, Owner, Moved
    <3>3. n \in IdsAt[TheQueue] /\ TheQueue \in Owner /\ TheReader \in Owner /\ TheQueue # TheReader
      BY <3>1, OwnersDiffer, AlwaysLocated DEF Located
    <3> QED BY <2>1, <3>2, <3>3, PlaceMoved
  <2> QED BY <1>4, <2>2, <2>3
<1>9. InOnePlace'
  BY <1>2, <1>5, <1>8 DEF Exact, InOnePlace, Once
<1> QED BY <1>2, <1>8, <1>9 DEF Exact

LEMMA ProcessExact == ASSUME IInv, Exact, ReaderProcess PROVE Exact' /\ reader.item \in DOMAIN on_fly_tasks
<1>1. /\ reader.at = "decode" /\ ~IsCredit(reader.item)
      /\ UNCHANGED <<clients, on_fly_tasks, writer>>
  BY DEF ReaderProcess, ids
<1>2. reader.item \in DOMAIN on_fly_tasks
  <2>1. reader.item \in WithReader
    BY <1>1 DEF WithReader
  <2> QED BY <2>1, OwnersDiffer, AlwaysLocated DEF Located, Exact
<1>3. /\ finished' = finished \cup {on_fly_tasks[reader.item]}
      /\ reader' = [reader EXCEPT !.at = "erase"]
  BY <1>2 DEF ReaderProcess
<1>4. reader'.at = "erase" /\ reader'.item = reader.item
  BY <1>3 DEF IInv, Typed, ReaderTyped
<1>5. UNCHANGED <<WithWriter, WithReader, InQueue>> /\ \A q \in Rpi : Place(q)' = Place(q)
  BY <1>1, <1>4 DEF WithWriter, WithReader, InQueue, Place, clients
<1>6. Apart' /\ IdsUnderway' = IdsUnderway
  BY <1>5, PlacesKept DEF Exact, InOnePlace
<1>7. InOnePlace'
  BY <1>1, <1>6 DEF Exact, InOnePlace, Once, clients
<1>8. on_fly_tasks'[reader'.item] \in finished'
  BY <1>1, <1>3, <1>4
<1> QED BY <1>1, <1>2, <1>6, <1>7, <1>8 DEF Exact

LEMMA EraseExact == ASSUME IInv, Exact, ReaderErase PROVE Exact'
<1>1. PICK n \in TaskIds : n = reader.item
  BY DEF ReaderErase, IInv, Typed, ReaderTyped
<1>2. /\ reader.at = "erase" /\ reader'.at = "erased"
      /\ on_fly_tasks' = [m \in DOMAIN on_fly_tasks \ {n} |-> on_fly_tasks[m]]
      /\ UNCHANGED <<clients, finished, writer>>
  BY <1>1 DEF ReaderErase, WithoutEntry, Restrict, IInv, Typed, ReaderTyped
<1>3. /\ UNCHANGED <<WithWriter, InQueue>> /\ \A q \in Rpi : Place(q)' = Place(q)
      /\ WithReader = {n} /\ WithReader' = {}
  BY <1>1, <1>2, IdFacts DEF WithWriter, WithReader, InQueue, Place, clients
<1>4. \A o \in Owner : IdsAt'[o] = IF o = TheReader THEN IdsAt[o] \ {n} ELSE IdsAt[o]
  BY <1>3, OwnersDiffer, AlwaysLocated, LocatedNext DEF Located, Owner
<1>5. n \in IdsAt[TheReader] /\ TheReader \in Owner /\ Apart
  BY <1>3, OwnersDiffer, AlwaysLocated DEF Located, Exact, InOnePlace
<1>6. Apart' /\ IdsUnderway' = IdsUnderway \ {n}
  BY <1>4, <1>5, PlaceLeft
<1>7. InOnePlace'
  BY <1>2, <1>6 DEF Exact, InOnePlace, Once, clients
<1>8. DOMAIN on_fly_tasks' = IdsUnderway'
  BY <1>2, <1>6 DEF Exact
<1> QED BY <1>2, <1>7, <1>8 DEF Exact

LEMMA CleanUpExact == ASSUME IInv, Exact, CleanUp PROVE Exact'
<1>1. /\ reader.at = "cleanup" /\ reader'.at = "done"
      /\ client_queue' = [r \in Rpi |-> IF r \in client_map THEN Append(client_queue[r], -1)
                                        ELSE client_queue[r]]
      /\ UNCHANGED <<answering, result_queue, on_fly_tasks, finished, writer>>
  BY DEF CleanUp, Clients!Close, Clients!Stop, ids, IInv, Typed, ReaderTyped
<1>2. ASSUME NEW r \in Rpi
      PROVE  /\ Range(client_queue'[r]) \in {Range(client_queue[r]), Range(client_queue[r]) \cup {-1}}
             /\ Once(client_queue'[r]) /\ answering'[r] \notin Range(client_queue'[r])
  <2>1. client_queue[r] \in Seq(QueueItem) /\ -1 \in QueueItem /\ answering[r] \in TaskIds \cup {Nothing}
    BY DEF IInv, Typed, ClientsTyped, QueueItem
  <2>2. Once(client_queue[r]) /\ answering[r] \notin Range(client_queue[r])
    BY DEF Exact, InOnePlace
  <2>3. answering[r] # -1
    BY <2>1, IdFacts, NothingAssumption
  <2>4. /\ Once(Append(client_queue[r], -1))
        /\ Range(Append(client_queue[r], -1)) = Range(client_queue[r]) \cup {-1}
    BY <2>1, <2>2, IdFacts, OnceAppend, AppendRange
  <2> QED BY <1>1, <2>2, <2>3, <2>4
<1>3. \A r \in Rpi : Place(r)' = Place(r)
  BY <1>1, <1>2 DEF Place, Clients!Stop
<1>4. UNCHANGED <<WithWriter, InQueue, WithReader>>
  BY <1>1 DEF WithWriter, InQueue, WithReader
<1>5. Apart' /\ IdsUnderway' = IdsUnderway
  BY <1>3, <1>4, PlacesKept DEF Exact, InOnePlace
<1>6. InOnePlace'
  <2>1. Once(result_queue')
    BY <1>1 DEF Exact, InOnePlace
  <2> QED BY <1>2, <1>5, <2>1 DEF InOnePlace, Once
<1> QED BY <1>1, <1>5, <1>6 DEF Exact

(* Every step that gives out no id keeps the ids exact, and so does the    *)
(* writer when the id it takes is free.                                    *)
FreshId == writer.at = "credit" => IdStart + (count % IdSpan) \notin IdsUnderway

LEMMA FreeIsFresh == ASSUME IInv, IdIsFree, WriterAssign PROVE FreshId
<1>1. CreditIsThere
  <2>1. PICK r \in joined : held[r] < Units
    BY DEF WriterAssign, Pool!Grant
  <2> QED BY <2>1 DEF CreditIsThere
<1> QED BY <1>1 DEF IdIsFree, FreshId

LEMMA StepExact == ASSUME IInv, Exact, WriterAssign => FreshId, [Next]_vars PROVE Exact'
<1>1. CASE Constructor
  <2>1. /\ UNCHANGED <<clients, on_fly_tasks, finished>>
        /\ \/ UNCHANGED <<writer, reader>>
           \/ /\ writer.at = "start" /\ writer'.at = "pick"
              /\ reader.at = "start" /\ reader'.at = "take"
    BY <1>1 DEF Constructor, Register, InitializeSecondaryResources, StartThreads, ids,
                IInv, Typed, WriterTyped, ReaderTyped, StartTogether
  <2>2. UNCHANGED <<WithWriter, WithReader>>
    BY <2>1 DEF WithWriter, WithReader
  <2> QED BY <2>1, <2>2, ExactKept
<1>2. CASE WriterPick \/ WriterStop
  <2>1. /\ UNCHANGED <<clients, on_fly_tasks, finished, reader>>
        /\ writer.at # "add" /\ writer'.at # "add"
    BY <1>2 DEF WriterPick, WriterStop, ids, IInv, Typed, WriterTyped
  <2>2. UNCHANGED <<WithWriter, WithReader>>
    BY <2>1 DEF WithWriter, WithReader
  <2> QED BY <2>1, <2>2, ExactKept
<1>3. CASE WriterAssign
  <2>1. PICK r \in Rpi : IF r \in client_map THEN WriterInsert(r) ELSE WriterDrop(r)
    BY <1>3 DEF WriterAssign
  <2>2. writer.at = "credit" /\ UNCHANGED <<clients, finished, reader>>
    BY <1>3 DEF WriterAssign
  <2>3. CASE WriterInsert(r)
    BY <1>3, <2>2, <2>3, InsertExact DEF FreshId
  <2>4. CASE WriterDrop(r)
    <3>1. writer'.at = "pick" /\ UNCHANGED on_fly_tasks
      BY <2>4 DEF WriterDrop
    <3>2. UNCHANGED <<WithWriter, WithReader>>
      BY <2>2, <3>1 DEF WithWriter, WithReader
    <3> QED BY <2>2, <3>1, <3>2, ExactKept
  <2> QED BY <2>1, <2>3, <2>4
<1>4. CASE WriterAdd
  BY <1>4, AddExact
<1>5. CASE \E r \in Rpi : Client(r)
  BY <1>5, ClientStep, ReturnCreditExact, ReturnResultExact
<1>6. CASE ReaderTake \/ ReaderProcess \/ ReaderErase \/ CleanUp
  BY <1>6, TakeExact, ProcessExact, EraseExact, CleanUpExact
<1>7. CASE ReaderRelease \/ ReaderCheck
  <2>1. UNCHANGED <<clients, on_fly_tasks, finished, writer>> /\ reader'.at \in {"take", "cleanup"}
    <3>1. CASE ReaderRelease
      BY <3>1 DEF ReaderRelease, ids, IInv, Typed, ReaderTyped
    <3>2. CASE ReaderCheck
      BY <3>2 DEF ReaderCheck, AllRootsDone
    <3> QED BY <1>7, <3>1, <3>2
  <2>2. WithReader = {}
    BY <1>7 DEF ReaderRelease, ReaderCheck, WithReader
  <2>3. UNCHANGED <<WithWriter, WithReader>>
    BY <2>1, <2>2 DEF WithWriter, WithReader
  <2> QED BY <2>1, <2>3, ExactKept
<1>8. CASE UNCHANGED vars
  <2>1. UNCHANGED <<clients, on_fly_tasks, finished, writer, reader>>
    BY <1>8 DEF vars, ids
  <2>2. UNCHANGED <<WithWriter, WithReader>>
    BY <2>1 DEF WithWriter, WithReader
  <2> QED BY <2>1, <2>2, ExactKept
<1> QED BY <1>1, <1>2, <1>3, <1>4, <1>5, <1>6, <1>7, <1>8 DEF Next, Writer, Reader, Finished
-----------------------------------------------------------------------------
(* Steps that move no task.                                                *)
LEMMA TasksAtRest ==
  ASSUME IInv, \/ Constructor \/ WriterAdd \/ WriterStop \/ (\E r \in Rpi : Client(r))
               \/ ReaderTake \/ ReaderRelease \/ ReaderCheck \/ CleanUp \/ UNCHANGED vars
  PROVE  UNCHANGED <<initial_tasks, finished, dropped, on_fly_tasks, InHand>>
<1>1. /\ UNCHANGED <<initial_tasks, finished, dropped, on_fly_tasks>>
      /\ \/ writer' = writer
         \/ writer.at # "credit" /\ writer'.at # "credit"
  <2>1. CASE Constructor
    BY <2>1 DEF Constructor, Register, InitializeSecondaryResources, StartThreads, ids,
                IInv, Typed, WriterTyped
  <2>2. CASE WriterAdd \/ WriterStop
    BY <2>2 DEF WriterAdd, WriterStop, ids, IInv, Typed, WriterTyped
  <2>3. CASE \E r \in Rpi : Client(r)
    BY <2>3 DEF Client, ids
  <2>4. CASE ReaderTake \/ ReaderRelease \/ CleanUp
    BY <2>4 DEF ReaderTake, ReaderRelease, CleanUp, ids
  <2>5. CASE ReaderCheck
    BY <2>5 DEF ReaderCheck
  <2>6. CASE UNCHANGED vars
    BY <2>6 DEF vars, ids
  <2> QED BY <2>1, <2>2, <2>3, <2>4, <2>5, <2>6
<1>2. InHand' = InHand
  BY <1>1 DEF InHand
<1> QED BY <1>1, <1>2

(* A stranded task stays where it is.                                      *)
LEMMA StrandedStays ==
  ASSUME IInv, JobInv, [Next]_vars, NEW t \in Task, Stranded(t) PROVE Stranded(t)'
<1> USE DEF JobInv
<1>1. Runnable(t) /\ t \notin finished /\ t \notin Range(initial_tasks) \cup InHand
      /\ \A n \in DOMAIN on_fly_tasks : on_fly_tasks[n] # t
  BY DEF Stranded
<1>2. CASE WriterPick
  <2>1. PICK u \in Task : u = Head(initial_tasks)
    BY <1>2, HeadTailProperties DEF WriterPick, IInv, Typed, TasksTyped
  <2>2. /\ initial_tasks # <<>> /\ initial_tasks' = Tail(initial_tasks)
        /\ writer'.at = "credit" /\ writer'.task = u
        /\ UNCHANGED <<on_fly_tasks, finished, dropped>>
    BY <1>2, <2>1 DEF WriterPick, ids, IInv, Typed, WriterTyped
  <2>3. Range(initial_tasks') \subseteq Range(initial_tasks) /\ u \in Range(initial_tasks)
    <3>1. 1 \in DOMAIN initial_tasks /\ initial_tasks[1] = u
      BY <2>1, <2>2, LenProperties, EmptySeq DEF IInv, Typed, TasksTyped
    <3>2. u \in Range(initial_tasks)
      BY <3>1 DEF Range
    <3> QED BY <2>1, <2>2, <3>2, InjectiveTail DEF IInv, Typed, TasksTyped, ReadyInv
  <2>4. Runnable(t)'
    BY <1>1, <2>2 DEF Runnable, IsDropped
  <2> QED BY <1>1, <2>2, <2>3, <2>4 DEF Stranded, InHand
<1>3. CASE WriterAssign
  <2>1. PICK r \in Rpi : IF r \in client_map THEN WriterInsert(r) ELSE WriterDrop(r)
    BY <1>3 DEF WriterAssign
  <2>2. writer.at = "credit" /\ UNCHANGED <<initial_tasks, finished>>
    BY <1>3 DEF WriterAssign
  <2>3. writer.task # t /\ writer.task \in Task
    BY <1>1, <2>2 DEF InHand, IInv, Typed, WriterTyped
  <2>4. CASE WriterInsert(r)
    <3>1. /\ UNCHANGED dropped /\ writer'.at = "add"
          /\ \A n \in DOMAIN on_fly_tasks' :
                \/ on_fly_tasks'[n] = writer.task
                \/ n \in DOMAIN on_fly_tasks /\ on_fly_tasks'[n] = on_fly_tasks[n]
      BY <2>4 DEF WriterInsert
    <3>2. Runnable(t)'
      BY <1>1, <2>2, <3>1 DEF Runnable, IsDropped
    <3> QED BY <1>1, <2>2, <2>3, <3>1, <3>2 DEF Stranded, InHand
  <2>5. CASE WriterDrop(r)
    <3>1. /\ dropped' = [dropped EXCEPT ![r] = Append(dropped[r], writer.task)]
          /\ UNCHANGED on_fly_tasks /\ writer'.at = "pick"
      BY <2>5 DEF WriterDrop
    <3>2. \A q \in Rpi : t \notin Range(dropped'[q])
      <4>1. dropped \in [Rpi -> Seq(Task)] /\ \A q \in Rpi : t \notin Range(dropped[q])
        BY <1>1 DEF IInv, Typed, TasksTyped, Runnable, IsDropped
      <4>2. Range(Append(dropped[r], writer.task)) = Range(dropped[r]) \cup {writer.task}
        BY <2>3, <4>1, AppendRange
      <4> QED BY <2>3, <3>1, <4>1, <4>2
    <3>3. Runnable(t)'
      BY <1>1, <2>2, <3>2 DEF Runnable, IsDropped
    <3> QED BY <1>1, <2>2, <3>1, <3>3 DEF Stranded, InHand
  <2> QED BY <2>1, <2>4, <2>5
<1>4. CASE ReaderProcess
  <2>1. UNCHANGED <<on_fly_tasks, dropped, writer>>
    BY <1>4 DEF ReaderProcess, ids
  <2>2. CASE reader.item \in DOMAIN on_fly_tasks
    <3>1. PICK u \in Task : u = on_fly_tasks[reader.item]
      BY <2>2 DEF IInv, Typed, TasksTyped
    <3>2. /\ finished' = finished \cup {u}
          /\ initial_tasks' = IF ~IsRoot(u) /\ OtherOperandActive(u)
                              THEN Append(initial_tasks, Parent(u)) ELSE initial_tasks
      BY <1>4, <2>2, <3>1 DEF ReaderProcess
    <3>3. u # t /\ u \notin finished
      BY <1>1, <1>4, <2>2, <3>1 DEF OnFlyInv, ReaderProcess
    <3>4. ASSUME ~IsRoot(u) PROVE Parent(u) # t /\ Parent(u) \in Task
      <4>1. u \in Children(Parent(u)) /\ Parent(u) \in Task
        BY <3>4, ChildrenOfParent, ParentIsTask
      <4> QED BY <1>1, <3>3, <4>1 DEF Runnable
    <3>5. t \notin Range(initial_tasks')
      <4>1. ~IsRoot(u) => Range(Append(initial_tasks, Parent(u)))
                              = Range(initial_tasks) \cup {Parent(u)}
        BY <3>4, AppendRange DEF IInv, Typed, TasksTyped
      <4> QED BY <1>1, <3>2, <3>4, <4>1
    <3>6. Runnable(t)' /\ t \notin finished'
      BY <1>1, <2>1, <3>2, <3>3 DEF Runnable, IsDropped
    <3> QED BY <1>1, <2>1, <3>5, <3>6 DEF Stranded, InHand
  <2>3. CASE reader.item \notin DOMAIN on_fly_tasks
    <3>1. UNCHANGED <<finished, initial_tasks>>
      BY <1>4, <2>3 DEF ReaderProcess
    <3> QED BY <1>1, <2>1, <3>1 DEF Stranded, InHand, Runnable, IsDropped
  <2> QED BY <2>2, <2>3
<1>5. CASE ReaderErase
  <2>1. UNCHANGED <<initial_tasks, finished, dropped, writer>>
        /\ \A n \in DOMAIN on_fly_tasks' :
              n \in DOMAIN on_fly_tasks /\ on_fly_tasks'[n] = on_fly_tasks[n]
    BY <1>5 DEF ReaderErase, WithoutEntry, Restrict
  <2> QED BY <1>1, <2>1 DEF Stranded, InHand, Runnable, IsDropped
<1>6. CASE \/ Constructor \/ WriterAdd \/ WriterStop \/ (\E r \in Rpi : Client(r))
           \/ ReaderTake \/ ReaderRelease \/ ReaderCheck \/ CleanUp \/ UNCHANGED vars
  <2>1. UNCHANGED <<initial_tasks, finished, dropped, on_fly_tasks, InHand>>
    BY <1>6, TasksAtRest
  <2> QED BY <1>1, <2>1 DEF Stranded, Runnable, IsDropped
<1> QED BY <1>2, <1>3, <1>4, <1>5, <1>6 DEF Next, Writer, Reader, Finished

(* The writer that takes an id in use strands the task it stood for, or    *)
(* its own when the reader is about to erase the entry.                    *)
LEMMA TakenOver ==
  ASSUME IInv, JobInv, writer.at = "credit", NEW r \in Rpi, WriterInsert(r),
         NEW id \in DOMAIN on_fly_tasks, id = IdStart + (count % IdSpan),
         UNCHANGED <<initial_tasks, finished, reader>>
  PROVE  Doomed' \/ SomeStranded'
<1> USE DEF JobInv
<1>1. PICK t \in Task : t = on_fly_tasks[id]
  BY DEF IInv, Typed, TasksTyped
<1>2. /\ DOMAIN on_fly_tasks' = DOMAIN on_fly_tasks /\ on_fly_tasks'[id] = writer.task
      /\ \A n \in DOMAIN on_fly_tasks : n # id => on_fly_tasks'[n] = on_fly_tasks[n]
      /\ writer'.at = "add" /\ UNCHANGED dropped
  BY DEF WriterInsert
<1>3. writer.task \notin finished /\ writer.task # t
  BY <1>1 DEF ReadyInv, OnFlyInv, InHand
<1>4. CASE t \in finished
  <2>1. reader.at = "erase" /\ reader.item = id
    BY <1>1, <1>4 DEF OnFlyInv
  <2> QED BY <1>2, <1>3, <2>1 DEF Doomed
<1>5. CASE t \notin finished
  <2>1. Runnable(t) /\ t \notin Range(initial_tasks)
        /\ \A n \in DOMAIN on_fly_tasks : n # id => on_fly_tasks[n] # t
    BY <1>1 DEF OnFlyInv
  <2>2. Stranded(t)'
    BY <1>2, <1>3, <1>5, <2>1 DEF Stranded, Runnable, IsDropped, InHand
  <2> QED BY <2>2 DEF SomeStranded
<1> QED BY <1>4, <1>5

LEMMA DoomedStep ==
  ASSUME IInv, JobInv, Doomed, [Next]_vars PROVE Doomed' \/ SomeStranded'
<1> USE DEF JobInv
<1>1. reader.at = "erase" /\ reader.item \in DOMAIN on_fly_tasks
      /\ on_fly_tasks[reader.item] \notin finished
  BY DEF Doomed
<1>2. CASE WriterAssign
  <2>1. PICK r \in Rpi : IF r \in client_map THEN WriterInsert(r) ELSE WriterDrop(r)
    BY <1>2 DEF WriterAssign
  <2>2. writer.at = "credit" /\ UNCHANGED <<initial_tasks, finished, reader>>
    BY <1>2 DEF WriterAssign
  <2>3. CASE WriterInsert(r)
    <3>1. writer.task \notin finished
      BY <2>2 DEF ReadyInv, InHand
    <3>2. reader.item \in DOMAIN on_fly_tasks'
          /\ on_fly_tasks'[reader.item] \in {writer.task, on_fly_tasks[reader.item]}
      BY <1>1, <2>3 DEF WriterInsert
    <3> QED BY <1>1, <2>2, <3>1, <3>2 DEF Doomed
  <2>4. CASE WriterDrop(r)
    BY <1>1, <2>2, <2>4 DEF WriterDrop, Doomed
  <2> QED BY <2>1, <2>3, <2>4
<1>3. CASE ReaderErase
  <2>1. PICK t \in Task : t = on_fly_tasks[reader.item]
    BY <1>1 DEF IInv, Typed, TasksTyped
  <2>2. /\ on_fly_tasks' = [n \in DOMAIN on_fly_tasks \ {reader.item} |-> on_fly_tasks[n]]
        /\ UNCHANGED <<initial_tasks, finished, dropped, writer>>
    BY <1>3 DEF ReaderErase, WithoutEntry, Restrict
  <2>3. Runnable(t) /\ t \notin finished /\ t \notin Range(initial_tasks) \cup InHand
        /\ \A n \in DOMAIN on_fly_tasks : n # reader.item => on_fly_tasks[n] # t
    BY <1>1, <2>1 DEF OnFlyInv
  <2>4. Stranded(t)'
    BY <2>2, <2>3 DEF Stranded, Runnable, IsDropped, InHand
  <2> QED BY <2>4 DEF SomeStranded
<1>4. CASE ~WriterAssign /\ ~ReaderErase
  <2>1. UNCHANGED <<on_fly_tasks, finished, reader>>
    <3>1. CASE Constructor
      BY <1>1, <3>1 DEF Constructor, Register, InitializeSecondaryResources, StartThreads, ids,
                  IInv, Typed, StartTogether
    <3>2. CASE Writer
      BY <1>4, <3>2 DEF Writer, WriterPick, WriterAdd, WriterStop, ids
    <3>3. CASE \E r \in Rpi : Client(r)
      BY <3>3 DEF Client, ids
    <3>4. CASE UNCHANGED vars
      BY <3>4 DEF vars, ids
    <3>5. ~Reader
      BY <1>1, <1>4 DEF Reader, ReaderTake, ReaderRelease, ReaderProcess, ReaderCheck, CleanUp
    <3> QED BY <3>1, <3>2, <3>3, <3>4, <3>5 DEF Next, Finished
  <2> QED BY <1>1, <2>1 DEF Doomed
<1> QED BY <1>2, <1>3, <1>4

LEMMA StepFate == ASSUME IInv, JobInv, Fate, [Next]_vars PROVE Fate'
<1>1. CASE SomeStranded
  BY <1>1, StrandedStays DEF SomeStranded, Fate
<1>2. CASE Doomed
  BY <1>2, DoomedStep DEF Fate
<1>3. CASE Exact /\ FreshId
  BY <1>3, StepExact DEF Fate
<1>4. CASE Exact /\ ~FreshId
  <2>1. PICK id \in DOMAIN on_fly_tasks : id = IdStart + (count % IdSpan)
    BY <1>4 DEF FreshId, Exact
  <2>2. writer.at = "credit"
    BY <1>4 DEF FreshId
  <2>3. CASE WriterAssign
    <3>1. PICK r \in Rpi : IF r \in client_map THEN WriterInsert(r) ELSE WriterDrop(r)
      BY <2>3 DEF WriterAssign
    <3>2. UNCHANGED <<initial_tasks, clients, finished, reader>>
      BY <2>3 DEF WriterAssign
    <3>3. CASE WriterInsert(r)
      BY <2>1, <2>2, <3>2, <3>3, TakenOver DEF Fate
    <3>4. CASE WriterDrop(r)
      <4>1. writer'.at = "pick" /\ UNCHANGED on_fly_tasks
        BY <3>4 DEF WriterDrop
      <4>2. UNCHANGED <<WithWriter, WithReader>>
        BY <2>2, <3>2, <4>1 DEF WithWriter, WithReader
      <4>3. Exact'
        BY <1>4, <3>2, <4>1, <4>2, ExactKept
      <4> QED BY <4>3 DEF Fate
    <3> QED BY <3>1, <3>3, <3>4
  <2>4. CASE ~WriterAssign
    <3>1. Exact'
      BY <1>4, <2>4, StepExact
    <3> QED BY <3>1 DEF Fate
  <2> QED BY <2>3, <2>4
<1> QED BY <1>1, <1>2, <1>3, <1>4 DEF Fate
-----------------------------------------------------------------------------
(* A credit comes before the result of its task.                           *)
LEMMA StepFollowed == ASSUME IInv, CreditFollowed, [Next]_vars PROVE CreditFollowed'
<1>1. ASSUME NEW r \in Rpi, CreditReturned(r) PROVE CreditFollowed'
  <2>1. PICK n : n = Head(client_queue[r])
    OBVIOUS
  <2>2. /\ client_queue[r] # <<>> /\ n \in DOMAIN client_tasks[r] /\ answering[r] = Nothing
        /\ result_queue' = Append(result_queue, r)
        /\ answering' = [answering EXCEPT ![r] = n]
    BY <1>1, <2>1 DEF CreditReturned
  <2>3. /\ client_queue[r] \in Seq(QueueItem) /\ result_queue \in Seq(Item) /\ r \in Item
        /\ answering \in [Rpi -> TaskIds \cup {Nothing}]
    BY DEF IInv, Typed, ClientsTyped, Item
  <2>4. n \in TaskIds /\ n # Nothing
    <3>1. n \in TaskIds
      BY <2>2 DEF IInv, Typed, ResultsTyped
    <3> QED BY <3>1, IdFacts
  <2>5. answering'[r] # Nothing /\ \A q \in Rpi : q # r => answering'[q] = answering[q]
    BY <2>2, <2>3, <2>4
  <2>6. /\ Len(result_queue) \in Nat /\ DOMAIN result_queue = 1..Len(result_queue)
        /\ DOMAIN result_queue' = 1..(Len(result_queue) + 1)
        /\ \A i \in 1..Len(result_queue) : result_queue'[i] = result_queue[i]
        /\ result_queue'[Len(result_queue) + 1] = r
    BY <2>2, <2>3, AppendProperties, LenProperties
  <2>7. SUFFICES ASSUME NEW i \in DOMAIN result_queue', IsCredit(result_queue'[i])
        PROVE \/ answering'[result_queue'[i]] # Nothing
              \/ \E j \in DOMAIN result_queue' : j > i /\ ~IsCredit(result_queue'[j])
    BY DEF CreditFollowed, IsCredit
  <2>8. CASE result_queue'[i] = r
    BY <2>5, <2>8
  <2>9. CASE result_queue'[i] # r
    <3>1. i \in DOMAIN result_queue /\ result_queue'[i] = result_queue[i]
      BY <2>6, <2>9
    <3>2. result_queue[i] \in Rpi
      <4>1. result_queue[i] \in Item
        BY <2>3, <3>1
      <4>2. IsCredit(result_queue[i])
        BY <2>7, <3>1
      <4> QED BY <4>1, <4>2, IdFacts DEF Item
    <3>3. CASE answering[result_queue[i]] # Nothing
      BY <2>5, <2>9, <3>1, <3>2, <3>3
    <3>4. CASE \E j \in DOMAIN result_queue : j > i /\ ~IsCredit(result_queue[j])
      BY <2>6, <3>4
    <3> QED BY <2>7, <3>1, <3>3, <3>4 DEF CreditFollowed
  <2> QED BY <2>8, <2>9
<1>2. ASSUME NEW r \in Rpi, ResultReturned(r) PROVE CreditFollowed'
  <2>1. PICK n : n = answering[r]
    OBVIOUS
  <2>2. n # Nothing /\ result_queue' = Append(result_queue, n)
    BY <1>2, <2>1 DEF ResultReturned
  <2>3. result_queue \in Seq(Item) /\ n \in TaskIds /\ n \in Item
    BY <2>1, <2>2 DEF IInv, Typed, ClientsTyped, Item
  <2>4. /\ Len(result_queue) \in Nat /\ DOMAIN result_queue = 1..Len(result_queue)
        /\ DOMAIN result_queue' = 1..(Len(result_queue) + 1)
        /\ result_queue'[Len(result_queue) + 1] = n
    BY <2>2, <2>3, AppendProperties, LenProperties
  <2>5. ~IsCredit(n)
    BY <2>3, IdFacts
  <2>6. SUFFICES ASSUME NEW i \in DOMAIN result_queue', IsCredit(result_queue'[i])
        PROVE \E j \in DOMAIN result_queue' : j > i /\ ~IsCredit(result_queue'[j])
    BY DEF CreditFollowed, IsCredit
  <2>7. i # Len(result_queue) + 1
    BY <2>4, <2>5, <2>6
  <2> QED BY <2>4, <2>5, <2>7
<1>3. ASSUME ReaderTake PROVE CreditFollowed'
  <2>1. result_queue # <<>> /\ result_queue' = Tail(result_queue) /\ UNCHANGED answering
    BY <1>3 DEF ReaderTake, Clients!Take
  <2>2. /\ Len(result_queue) \in Nat \ {0} /\ DOMAIN result_queue = 1..Len(result_queue)
        /\ DOMAIN result_queue' = 1..(Len(result_queue) - 1)
        /\ \A i \in 1..(Len(result_queue) - 1) : result_queue'[i] = result_queue[i + 1]
    BY <2>1, HeadTailProperties, LenProperties, EmptySeq DEF IInv, Typed, ClientsTyped
  <2>3. SUFFICES ASSUME NEW i \in DOMAIN result_queue', IsCredit(result_queue'[i])
        PROVE \/ answering[result_queue'[i]] # Nothing
              \/ \E j \in DOMAIN result_queue' : j > i /\ ~IsCredit(result_queue'[j])
    BY <2>1 DEF CreditFollowed, IsCredit
  <2>4. i + 1 \in DOMAIN result_queue /\ result_queue'[i] = result_queue[i + 1]
    BY <2>2
  <2>5. CASE answering[result_queue[i + 1]] # Nothing
    BY <2>4, <2>5
  <2>6. CASE \E j \in DOMAIN result_queue : j > i + 1 /\ ~IsCredit(result_queue[j])
    <3>1. PICK j \in DOMAIN result_queue : j > i + 1 /\ ~IsCredit(result_queue[j])
      BY <2>6
    <3>2. j - 1 \in DOMAIN result_queue' /\ j - 1 > i /\ result_queue'[j - 1] = result_queue[j]
      BY <2>2, <3>1
    <3> QED BY <3>1, <3>2
  <2> QED BY <2>3, <2>4, <2>5, <2>6 DEF CreditFollowed
<1>4. CASE UNCHANGED <<answering, result_queue>>
  BY <1>4 DEF CreditFollowed
<1>5. CASE Constructor \/ Writer
  BY <1>4, <1>5 DEF Constructor, Register, InitializeSecondaryResources, StartThreads, clients,
         Writer, WriterPick, WriterAssign, WriterAdd, WriterStop, Clients!Give
<1>6. CASE ReaderRelease \/ ReaderProcess \/ ReaderErase \/ ReaderCheck \/ CleanUp \/ UNCHANGED vars
  BY <1>4, <1>6 DEF ReaderRelease, ReaderProcess, ReaderErase, ReaderCheck, CleanUp,
         Clients!Close, clients, vars
<1> QED BY <1>1, <1>2, <1>3, <1>5, <1>6, ClientStep DEF Next, Reader, Finished

(* What is left when the reader gets to clean_up.                          *)
LEMMA AtRest ==
  ASSUME IInv, JobInv, Fate, reader.at \in {"cleanup", "done"}
  PROVE  /\ Exact /\ finished = Task /\ initial_tasks = <<>>
         /\ DOMAIN on_fly_tasks = {} /\ IdsUnderway = {}
<1> USE DEF JobInv
<1>1. finished = Task
  BY AllDone DEF StopInv
<1>2. Exact
  BY <1>1 DEF Fate, Doomed, SomeStranded, Stranded
<1>3. DOMAIN on_fly_tasks = {}
  BY <1>1 DEF OnFlyInv, IInv, Typed, TasksTyped
<1>4. initial_tasks = <<>>
  <2>1. Range(initial_tasks) \subseteq Task /\ initial_tasks \in Seq(Task)
    BY RangeOfSeq DEF IInv, Typed, TasksTyped
  <2>2. Range(initial_tasks) = {}
    BY <1>1, <2>1 DEF ReadyInv
  <2>3. ASSUME initial_tasks # <<>> PROVE FALSE
    <3>1. 1 \in DOMAIN initial_tasks
      BY <2>1, <2>3, LenProperties, EmptySeq
    <3> QED BY <2>2, <3>1 DEF Range
  <2> QED BY <2>3
<1> QED BY <1>1, <1>2, <1>3, <1>4 DEF Exact

LEMMA NothingUnderway ==
  ASSUME IInv, JobInv, Fate, reader.at \in {"cleanup", "done"}
  PROVE  /\ writer.at # "add" /\ InHand = {}
         /\ \A r \in Rpi : /\ answering[r] = Nothing
                           /\ Range(client_queue[r]) \subseteq {-1}
         /\ \A n \in Range(result_queue) : IsCredit(n)
<1>1. IdsUnderway = {} /\ finished = Task
  BY AtRest
<1>2. WithWriter = {} /\ InQueue = {} /\ \A r \in Rpi : Place(r) = {}
  BY <1>1, OwnersDiffer, AlwaysLocated DEF Located
<1>3. writer.at # "add" /\ \A n \in Range(result_queue) : IsCredit(n)
  BY <1>2 DEF WithWriter, InQueue
<1>4. InHand = {}
  BY <1>1 DEF InHand, JobInv, ReadyInv, IInv, Typed, WriterTyped
<1>5. ASSUME NEW r \in Rpi PROVE answering[r] = Nothing /\ Range(client_queue[r]) \subseteq {-1}
  BY <1>2 DEF Place, Clients!Stop
<1> QED BY <1>3, <1>4, <1>5

LEMMA StepStopIsLast ==
  ASSUME IInv, JobInv, Fate, StopIsLast, [Next]_vars PROVE StopIsLast'
<1>1. CASE CleanUp
  <2>1. /\ reader.at = "cleanup" /\ reader'.at = "done"
        /\ client_queue' = [r \in Rpi |-> IF r \in client_map THEN Append(client_queue[r], -1)
                                          ELSE client_queue[r]]
    BY <1>1 DEF CleanUp, Clients!Close, Clients!Stop, IInv, Typed, ReaderTyped
  <2>2. ASSUME NEW r \in Rpi PROVE client_queue[r] = <<>>
    <3>1. Range(client_queue[r]) = {}
      BY <2>1, NothingUnderway DEF StopIsLast
    <3>2. client_queue[r] \in Seq(QueueItem)
      BY DEF IInv, Typed, ClientsTyped
    <3>3. ASSUME client_queue[r] # <<>> PROVE FALSE
      <4>1. 1 \in DOMAIN client_queue[r]
        BY <3>2, <3>3, LenProperties, EmptySeq
      <4> QED BY <3>1, <4>1 DEF Range
    <3> QED BY <3>3
  <2>3. Append(<<>>, -1) = <<-1>>
    OBVIOUS
  <2> QED BY <2>1, <2>2, <2>3 DEF StopIsLast
<1>2. ASSUME NEW r \in Rpi, CreditReturned(r) PROVE StopIsLast'
  <2>1. /\ client_queue[r] # <<>> /\ Head(client_queue[r]) \in DOMAIN client_tasks[r]
        /\ client_queue' = [client_queue EXCEPT ![r] = Tail(client_queue[r])] /\ reader' = reader
    BY <1>2 DEF CreditReturned
  <2>2. client_queue \in [Rpi -> Seq(QueueItem)]
    BY DEF IInv, Typed, ClientsTyped
  <2>3. reader.at # "done"
    <3>1. Head(<<-1>>) = -1
      OBVIOUS
    <3>2. Head(client_queue[r]) \in TaskIds
      BY <2>1 DEF IInv, Typed, ResultsTyped
    <3> QED BY <2>1, <3>1, <3>2, IdFacts DEF StopIsLast
  <2>4. Range(Tail(client_queue[r])) \subseteq Range(client_queue[r])
    <3>1. client_queue[r] \in Seq(QueueItem)
      BY <2>2
    <3>2. /\ Len(client_queue[r]) \in Nat \ {0} /\ DOMAIN client_queue[r] = 1..Len(client_queue[r])
          /\ DOMAIN Tail(client_queue[r]) = 1..(Len(client_queue[r]) - 1)
          /\ \A i \in 1..(Len(client_queue[r]) - 1) : Tail(client_queue[r])[i] = client_queue[r][i + 1]
      BY <2>1, <3>1, HeadTailProperties, LenProperties, EmptySeq
    <3> QED BY <3>2 DEF Range
  <2> QED BY <2>1, <2>2, <2>3, <2>4 DEF StopIsLast
<1>3. CASE WriterAdd
  <2>1. PICK r \in Rpi, n \in TaskIds : r = writer.rpi /\ n = writer.task
    BY <1>3 DEF WriterAdd, IInv, Typed, WriterTyped
  <2>2. /\ client_queue' = [client_queue EXCEPT ![r] = Append(client_queue[r], n)]
        /\ reader' = reader
    BY <1>3, <2>1 DEF WriterAdd, Clients!Give
  <2>3. client_queue \in [Rpi -> Seq(QueueItem)] /\ n \in QueueItem /\ n # -1
    BY IdFacts DEF IInv, Typed, ClientsTyped, QueueItem
  <2>4. reader.at # "done"
    BY <1>3, NothingUnderway DEF WriterAdd
  <2>5. Range(Append(client_queue[r], n)) = Range(client_queue[r]) \cup {n}
    BY <2>3, AppendRange
  <2> QED BY <2>2, <2>3, <2>4, <2>5 DEF StopIsLast
<1>4. CASE client_queue' = client_queue /\ (reader'.at = "done" <=> reader.at = "done")
  BY <1>4 DEF StopIsLast
<1>5. CASE Constructor
  <2>1. CASE StartThreads
    <3>1. client_queue' = client_queue /\ reader'.at = "take" /\ reader.at = "start"
      BY <2>1 DEF StartThreads, clients, IInv, Typed, StartTogether, ReaderTyped
    <3> QED BY <1>4, <3>1
  <2>2. CASE \E r \in Rpi : Register(r) \/ InitializeSecondaryResources(r)
    BY <1>4, <2>2 DEF Register, InitializeSecondaryResources, clients
  <2> QED BY <1>5, <2>1, <2>2 DEF Constructor
<1>6. CASE WriterPick \/ WriterAssign \/ WriterStop
  BY <1>4, <1>6 DEF WriterPick, WriterAssign, WriterStop, clients
<1>7. ASSUME NEW r \in Rpi, ResultReturned(r) PROVE StopIsLast'
  BY <1>4, <1>7 DEF ResultReturned
<1>8. CASE ReaderTake \/ ReaderRelease \/ ReaderProcess \/ ReaderErase
  BY <1>4, <1>8 DEF ReaderTake, ReaderRelease, ReaderProcess, ReaderErase, Clients!Take, clients,
         IInv, Typed, ReaderTyped
<1>9. CASE ReaderCheck
  BY <1>4, <1>9 DEF ReaderCheck, clients
<1>10. CASE UNCHANGED vars
  BY <1>4, <1>10 DEF vars, clients
<1> QED BY <1>1, <1>2, <1>3, <1>5, <1>6, <1>7, <1>8, <1>9, <1>10, ClientStep
        DEF Next, Writer, Reader, Finished
-----------------------------------------------------------------------------
LEMMA InitIdsInv == Init => IdsInv /\ Exact
<1> SUFFICES ASSUME Init PROVE IdsInv /\ Exact
  OBVIOUS
<1>1. /\ on_fly_tasks = <<>> /\ result_queue = <<>> /\ writer.at = "start" /\ reader.at = "start"
      /\ client_queue = [r \in Rpi |-> <<>>] /\ answering = [r \in Rpi |-> Nothing]
  BY DEF Init, Clients!Init
<1>2. Range(<<>>) = {} /\ DOMAIN <<>> = {} /\ Once(<<>>)
  BY DEF Range, Once
<1>3. WithWriter = {} /\ InQueue = {} /\ WithReader = {} /\ \A r \in Rpi : Place(r) = {}
  BY <1>1, <1>2 DEF WithWriter, InQueue, WithReader, Place
<1>4. \A o \in Owner : IdsAt[o] = {}
  BY <1>3, AlwaysLocated DEF Located, Owner
<1>5. Apart /\ IdsUnderway = {}
  BY <1>4, AlwaysLocated DEF Apart, Located
<1>6. Exact
  BY <1>1, <1>2, <1>5 DEF Exact, InOnePlace
<1>7. CreditFollowed /\ StopIsLast
  BY <1>1, <1>2 DEF CreditFollowed, StopIsLast
<1> QED BY <1>6, <1>7 DEF IdsInv, Fate

LEMMA SpecIdsInv == Spec => [](IInv /\ JobInv /\ IdsInv)
<1>1. Init => IdsInv
  BY InitIdsInv
<1>2. IInv /\ JobInv /\ IdsInv /\ [Next]_vars => IdsInv'
  BY StepFate, StepFollowed, StepStopIsLast DEF IdsInv
<1> QED BY <1>1, <1>2, SpecJobInv, PTL DEF Spec

(* When the reader gets to clean_up, whatever the number of nodes, of      *)
(* credits, of blocks and of ids, and in whatever order credits and        *)
(* results arrived: every task is done, none is ready or in the map, every *)
(* credit is back, no node's client has a task, and the -1 is the last     *)
(* that a client is given.  It needs no bound on the ids: a job in which a *)
(* task lost its id never gets there.                                      *)
THEOREM QuietEnd == Spec => []QuietAtCleanUp
<1>1. ASSUME IInv, JobInv, IdsInv PROVE QuietAtCleanUp
  <2>1. ASSUME reader.at \in {"cleanup", "done"}, NEW r \in Rpi
        PROVE  held[r] = 0 /\ answering[r] = Nothing /\ dropped[r] = <<>> /\ result_queue = <<>>
    <3>1. Fate /\ finished = Task
      BY <1>1, <2>1, AtRest DEF IdsInv
    <3>2. /\ writer.at # "add" /\ \A q \in Rpi : answering[q] = Nothing
          /\ Range(client_queue[r]) \subseteq {-1} /\ \A n \in Range(result_queue) : IsCredit(n)
      BY <1>1, <2>1, <3>1, NothingUnderway
    <3>3. result_queue = <<>>
      <4>1. result_queue \in Seq(Item)
        BY <1>1 DEF IInv, Typed, ClientsTyped
      <4>2. ASSUME result_queue # <<>> PROVE FALSE
        <5>1. 1 \in DOMAIN result_queue
          BY <4>1, <4>2, LenProperties, EmptySeq
        <5>2. IsCredit(result_queue[1]) /\ result_queue[1] \in Item
          BY <3>2, <4>1, <5>1 DEF Range
        <5>3. result_queue[1] \in Rpi
          BY <5>2, IdFacts DEF Item
        <5>4. PICK j \in DOMAIN result_queue : ~IsCredit(result_queue[j])
          BY <1>1, <3>2, <5>1, <5>2, <5>3 DEF IdsInv, CreditFollowed
        <5> QED BY <3>2, <5>4 DEF Range
      <4> QED BY <4>2
    <3>4. dropped[r] = <<>>
      <4>1. dropped[r] \in Seq(Task)
        BY <1>1 DEF IInv, Typed, TasksTyped
      <4>2. ASSUME dropped[r] # <<>> PROVE FALSE
        <5>1. 1 \in DOMAIN dropped[r] /\ dropped[r][1] \in Task
          BY <4>1, <4>2, LenProperties, EmptySeq
        <5>2. IsDropped(dropped[r][1])
          BY <5>1 DEF IsDropped, Range
        <5> QED BY <1>1, <3>1, <5>1, <5>2 DEF JobInv, DoneInv
      <4> QED BY <4>2
    <3>5. CountIn(client_queue[r], TaskIds) = 0
      <4>1. \A n \in DOMAIN client_queue[r] : client_queue[r][n] \notin TaskIds
        BY <3>2, IdFacts DEF Range
      <4>2. {n \in DOMAIN client_queue[r] : client_queue[r][n] \in TaskIds} = {}
        BY <4>1
      <4> QED BY <4>2, FS_EmptySet DEF CountIn
    <3>6. CountIn(result_queue, {r}) = 0
      BY <1>1, <3>3, CountNat DEF IInv, Typed, ClientsTyped
    <3>7. InWriter(r) = 0 /\ InReader(r) = 0
      BY <1>1, <2>1, <3>2, IdFacts DEF InWriter, InReader, IInv, Typed, ReaderTyped
    <3>8. held[r] = CountIn(client_queue[r], TaskIds) + CountIn(result_queue, {r})
                    + InWriter(r) + InReader(r) + Len(dropped[r])
      BY <1>1 DEF IInv, CreditsAccounted, InWriter, InReader
    <3>9. Len(dropped[r]) = 0
      BY <3>4
    <3> QED BY <3>2, <3>3, <3>4, <3>5, <3>6, <3>7, <3>8, <3>9
  <2>2. \E r : r \in Rpi
    BY NumRpiAssumption DEF Rpi
  <2>3. reader.at \in {"cleanup", "done"} =>
            initial_tasks = <<>> /\ DOMAIN on_fly_tasks = {} /\ finished = Task
    BY <1>1, AtRest DEF IdsInv
  <2>4. \A r \in Rpi : client_queue[r] # <<>> /\ reader.at = "done" => client_queue[r] = <<-1>>
    BY <1>1 DEF IdsInv, StopIsLast
  <2> QED BY <2>1, <2>2, <2>3, <2>4 DEF QuietAtCleanUp, Clients!Stop
<1> QED BY <1>1, SpecIdsInv, PTL
-----------------------------------------------------------------------------
(* As long as the writer takes free ids, no task is lost.                  *)
LEMMA StepNoneStranded ==
  ASSUME IInv, JobInv, Exact, WriterAssign => FreshId, [Next]_vars, ~SomeStranded
  PROVE  ~SomeStranded'
<1> SUFFICES ASSUME NEW t \in Task, Stranded(t)' PROVE FALSE
  BY DEF SomeStranded
<1> USE DEF JobInv
<1>1. ~Stranded(t)
  BY DEF SomeStranded
<1>2. /\ Children(t) \subseteq finished' /\ ~IsDropped(t)' /\ t \notin finished'
      /\ t \notin Range(initial_tasks') /\ t \notin InHand'
      /\ \A n \in DOMAIN on_fly_tasks' : on_fly_tasks'[n] # t
  BY DEF Stranded, Runnable
<1>3. CASE WriterPick
  <2>1. PICK u \in Task : u = Head(initial_tasks)
    BY <1>3, HeadTailProperties DEF WriterPick, IInv, Typed, TasksTyped
  <2>2. /\ initial_tasks # <<>> /\ initial_tasks' = Tail(initial_tasks)
        /\ writer.at = "pick" /\ writer'.at = "credit" /\ writer'.task = u
        /\ UNCHANGED <<on_fly_tasks, finished, dropped>>
    BY <1>3, <2>1 DEF WriterPick, ids, IInv, Typed, WriterTyped
  <2>3. Range(initial_tasks') = Range(initial_tasks) \ {u}
    BY <2>1, <2>2, InjectiveTail DEF IInv, Typed, TasksTyped, ReadyInv
  <2> QED BY <1>1, <1>2, <2>2, <2>3 DEF Stranded, Runnable, IsDropped, InHand
<1>4. CASE WriterAssign
  <2>1. PICK r \in Rpi : IF r \in client_map THEN WriterInsert(r) ELSE WriterDrop(r)
    BY <1>4 DEF WriterAssign
  <2>2. PICK u \in Task : u = writer.task
    BY <1>4 DEF WriterAssign, IInv, Typed, WriterTyped
  <2>3. writer.at = "credit" /\ InHand = {u} /\ UNCHANGED <<initial_tasks, finished>>
    BY <1>4, <2>2 DEF WriterAssign, InHand
  <2>4. CASE WriterInsert(r)
    <3>1. PICK id : id = IdStart + (count % IdSpan)
      OBVIOUS
    <3>2. id \notin DOMAIN on_fly_tasks
      BY <1>4, <2>3, <3>1 DEF FreshId, Exact
    <3>3. /\ UNCHANGED dropped /\ on_fly_tasks'[id] = u /\ id \in DOMAIN on_fly_tasks'
          /\ \A n \in DOMAIN on_fly_tasks : n \in DOMAIN on_fly_tasks' /\ on_fly_tasks'[n] = on_fly_tasks[n]
      BY <2>2, <2>4, <3>1, <3>2 DEF WriterInsert
    <3>4. t # u
      BY <1>2, <3>3
    <3> QED BY <1>1, <1>2, <2>3, <3>3, <3>4 DEF Stranded, Runnable, IsDropped
  <2>5. CASE WriterDrop(r)
    <3>1. dropped' = [dropped EXCEPT ![r] = Append(dropped[r], u)] /\ UNCHANGED on_fly_tasks
      BY <2>2, <2>5 DEF WriterDrop
    <3>2. dropped \in [Rpi -> Seq(Task)]
      BY DEF IInv, Typed, TasksTyped
    <3>3. Range(dropped'[r]) = Range(dropped[r]) \cup {u}
          /\ \A q \in Rpi : Range(dropped[q]) \subseteq Range(dropped'[q])
      BY <3>1, <3>2, AppendRange
    <3>4. t # u /\ ~IsDropped(t)
      BY <1>2, <3>3 DEF IsDropped
    <3> QED BY <1>1, <1>2, <2>3, <3>1, <3>4 DEF Stranded, Runnable
  <2> QED BY <2>1, <2>4, <2>5
<1>5. CASE ReaderProcess
  <2>1. UNCHANGED <<on_fly_tasks, dropped, writer>> /\ reader.item \in DOMAIN on_fly_tasks
    BY <1>5, ProcessExact DEF ReaderProcess, ids
  <2>2. PICK u \in Task : u = on_fly_tasks[reader.item]
    BY <2>1 DEF IInv, Typed, TasksTyped
  <2>3. /\ finished' = finished \cup {u}
        /\ initial_tasks' = IF ~IsRoot(u) /\ OtherOperandActive(u)
                            THEN Append(initial_tasks, Parent(u)) ELSE initial_tasks
    BY <1>5, <2>1, <2>2 DEF ReaderProcess
  <2>4. ~IsRoot(u) => Range(Append(initial_tasks, Parent(u))) = Range(initial_tasks) \cup {Parent(u)}
    BY ParentIsTask, AppendRange DEF IInv, Typed, TasksTyped
  <2>5. t \notin Range(initial_tasks) /\ t \notin InHand /\ ~IsDropped(t) /\ t \notin finished
    BY <1>2, <2>1, <2>3, <2>4 DEF InHand, IsDropped
  <2>6. ~(Children(t) \subseteq finished)
    BY <1>1, <1>2, <2>1, <2>5 DEF Stranded, Runnable
  <2>7. u \in Children(t)
    BY <1>2, <2>3, <2>6
  <2>8. ~IsRoot(u) /\ t = Parent(u)
    BY <2>7, ParentOfChild
  <2>9. Sibling(u) \in Children(t) /\ Sibling(u) # u
    BY <2>8, ChildrenOfParent
  <2>10. OtherOperandActive(u)
    BY <1>2, <2>3, <2>9 DEF OtherOperandActive
  <2> QED BY <1>2, <2>3, <2>4, <2>8, <2>10
<1>6. CASE ReaderErase
  <2>1. UNCHANGED <<initial_tasks, finished, dropped, writer>>
        /\ \A n \in DOMAIN on_fly_tasks : n # reader.item =>
              n \in DOMAIN on_fly_tasks' /\ on_fly_tasks'[n] = on_fly_tasks[n]
    BY <1>6 DEF ReaderErase, WithoutEntry, Restrict
  <2>2. on_fly_tasks[reader.item] \in finished
    BY <1>6 DEF ReaderErase, Exact
  <2> QED BY <1>1, <1>2, <2>1, <2>2 DEF Stranded, Runnable, IsDropped, InHand
<1>7. CASE \/ Constructor \/ WriterAdd \/ WriterStop \/ (\E r \in Rpi : Client(r))
           \/ ReaderTake \/ ReaderRelease \/ ReaderCheck \/ CleanUp \/ UNCHANGED vars
  <2>1. UNCHANGED <<initial_tasks, finished, dropped, on_fly_tasks, InHand>>
    BY <1>7, TasksAtRest
  <2> QED BY <1>1, <1>2, <2>1 DEF Stranded, Runnable, IsDropped
<1> QED BY <1>3, <1>4, <1>5, <1>6, <1>7 DEF Next, Writer, Reader, Finished

(* Then the ids are right.                                                 *)
Kept == Exact /\ ~SomeStranded

LEMMA KeptIsNoTaskLost == Kept => NoTaskLost
<1> SUFFICES ASSUME Kept, NEW t \in Task \ finished
             PROVE  \/ t \in Range(initial_tasks)
                    \/ writer.at = "credit" /\ writer.task = t
                    \/ t \in Range(on_fly_tasks)
                    \/ IsDropped(t)
                    \/ ~IsLeaf(t) /\ ~(Children(t) \subseteq finished)
  BY DEF Kept, Exact, NoTaskLost
<1>1. ~Stranded(t)
  BY DEF Kept, SomeStranded
<1>2. IsLeaf(t) => Children(t) \subseteq finished
  BY DEF Children
<1> QED BY <1>1, <1>2 DEF Stranded, Runnable, InHand, Range

LEMMA InitKept == Init => Kept
<1> SUFFICES ASSUME Init PROVE Kept
  OBVIOUS
<1>1. Exact
  BY InitIdsInv
<1>2. finished = {} /\ initial_tasks = InitialTasks
  BY DEF Init
<1>3. ASSUME NEW t \in Task, Stranded(t) PROVE FALSE
  <2>1. Children(t) \subseteq {} /\ t \notin Range(InitialTasks)
    BY <1>2, <1>3 DEF Stranded, Runnable
  <2>2. IsLeaf(t)
    BY <2>1 DEF Children
  <2> QED BY <2>1, <2>2, InitialFacts
<1> QED BY <1>1, <1>3 DEF Kept, SomeStranded

LEMMA StepKept == ASSUME IInv, JobInv, Kept, WriterAssign => FreshId, [Next]_vars PROVE Kept'
<1>1. Exact'
  BY StepExact DEF Kept
<1>2. ~SomeStranded'
  BY StepNoneStranded DEF Kept
<1> QED BY <1>1, <1>2 DEF Kept
-----------------------------------------------------------------------------
(* Whose tasks the clients hold, and which results are there.  A task and  *)
(* its result are found by the id, in the client's map and in the          *)
(* manager's: where an id is one task's, both find that task.              *)
TasksFit ==
    /\ \A r \in Rpi : \A n \in DOMAIN client_tasks[r] : client_tasks[r][n] = on_fly_tasks[n]
    /\ \A r \in Rpi : answering[r] # Nothing => answered[r] = on_fly_tasks[answering[r]]
    /\ writer.at = "add" => selected = on_fly_tasks[writer.task]

ResultsThere ==
    /\ \A n \in InQueue \cup WithReader : on_fly_tasks[n] \in computed
    /\ finished \subseteq computed

Own == NoneInVain /\ TasksFit /\ ResultsThere

LEMMA OwnKept ==
  ASSUME Own, UNCHANGED <<clients, client_tasks, answered, computed, on_fly_tasks, finished>>,
         writer'.at = "add" =>
             writer.at = "add" /\ writer'.task = writer.task /\ selected' = selected,
         WithReader' \subseteq WithReader
  PROVE  Own'
<1>1. UNCHANGED <<client_queue, answering, result_queue>>
  BY DEF clients
<1>2. NoneInVain'
  BY <1>1 DEF Own, NoneInVain
<1>3. TasksFit'
  BY <1>1 DEF Own, TasksFit
<1>4. ResultsThere'
  BY <1>1 DEF Own, ResultsThere, InQueue
<1> QED BY <1>2, <1>3, <1>4 DEF Own

(* The ids that Own speaks of are in the map.                              *)
LEMMA OwnIdsUnderway ==
  ASSUME IInv, Exact, Own
  PROVE  /\ \A r \in Rpi : DOMAIN client_tasks[r] \subseteq IdsUnderway
         /\ \A r \in Rpi : answering[r] # Nothing => answering[r] \in IdsUnderway
         /\ InQueue \cup WithReader \subseteq IdsUnderway
         /\ writer.at = "add" => writer.task \in IdsUnderway
<1>1. ASSUME NEW r \in Rpi
      PROVE  /\ DOMAIN client_tasks[r] \subseteq Place(r)
             /\ answering[r] # Nothing => answering[r] \in Place(r)
  BY DEF Own, NoneInVain, Place
<1>2. writer.at = "add" => writer.task \in WithWriter
  BY DEF WithWriter
<1> QED BY <1>1, <1>2, OwnersDiffer, AlwaysLocated DEF Located

LEMMA InsertOwn ==
  ASSUME IInv, Exact, Own, NEW r \in Rpi, WriterInsert(r),
         IdStart + (count % IdSpan) \notin IdsUnderway,
         UNCHANGED <<clients, client_tasks, answered, computed, finished, reader>>
  PROVE  Own'
<1>1. PICK id : id = IdStart + (count % IdSpan)
  OBVIOUS
<1>2. /\ \A n \in DOMAIN on_fly_tasks : on_fly_tasks'[n] = on_fly_tasks[n]
      /\ on_fly_tasks'[id] = writer.task /\ selected' = writer.task
      /\ writer'.at = "add" /\ writer'.task = id
      /\ UNCHANGED <<client_queue, answering, result_queue>>
  BY <1>1 DEF WriterInsert, clients, Exact
<1>3. \A n \in IdsUnderway : on_fly_tasks'[n] = on_fly_tasks[n]
  BY <1>2 DEF Exact
<1>4. NoneInVain'
  BY <1>2 DEF Own, NoneInVain
<1>5. TasksFit'
  BY <1>2, <1>3, OwnIdsUnderway DEF Own, TasksFit
<1>6. InQueue' = InQueue /\ WithReader' = WithReader
  BY <1>2 DEF InQueue, WithReader
<1>7. ResultsThere'
  BY <1>3, <1>6, OwnIdsUnderway DEF Own, ResultsThere
<1> QED BY <1>4, <1>5, <1>7 DEF Own

LEMMA AddOwn == ASSUME IInv, Own, WriterAdd PROVE Own'
<1>1. PICK r \in Rpi, n \in TaskIds : r = writer.rpi /\ n = writer.task
  BY DEF WriterAdd, IInv, Typed, WriterTyped
<1>2. /\ writer.at = "add" /\ writer'.at = "pick"
      /\ client_queue' = [client_queue EXCEPT ![r] = Append(client_queue[r], n)]
      /\ client_tasks' = [client_tasks EXCEPT ![r] =
                              [m \in DOMAIN client_tasks[r] \cup {n} |->
                                  IF m = n THEN selected ELSE client_tasks[r][m]]]
      /\ UNCHANGED <<answering, answered, result_queue, on_fly_tasks, finished, computed, reader>>
  BY <1>1 DEF WriterAdd, Clients!Give
<1>3. client_queue \in [Rpi -> Seq(QueueItem)] /\ n \in QueueItem /\ n # -1
  BY IdFacts DEF IInv, Typed, ClientsTyped, QueueItem
<1>4. /\ Range(client_queue'[r]) = Range(client_queue[r]) \cup {n}
      /\ \A q \in Rpi : q # r => client_queue'[q] = client_queue[q]
  BY <1>2, <1>3, AppendRange
<1>5. /\ client_tasks'[r] = [m \in DOMAIN client_tasks[r] \cup {n} |->
                                IF m = n THEN selected ELSE client_tasks[r][m]]
      /\ \A q \in Rpi : q # r => client_tasks'[q] = client_tasks[q]
  BY <1>2 DEF IInv, Typed, ResultsTyped
<1>6. NoneInVain'
  <2>1. DOMAIN client_tasks'[r] = Range(client_queue'[r]) \ {-1}
    BY <1>3, <1>4, <1>5 DEF Own, NoneInVain, Clients!Stop
  <2> QED BY <1>4, <1>5, <2>1 DEF Own, NoneInVain, Clients!Stop
<1>7. selected = on_fly_tasks[n]
  BY <1>1, <1>2 DEF Own, TasksFit
<1>8. TasksFit'
  BY <1>2, <1>5, <1>7 DEF Own, TasksFit
<1>9. ResultsThere'
  BY <1>2 DEF Own, ResultsThere, InQueue, WithReader
<1> QED BY <1>6, <1>8, <1>9 DEF Own

LEMMA ReturnCreditOwn ==
  ASSUME IInv, Exact, Own, NEW r \in Rpi, CreditReturned(r) PROVE Own'
<1>1. PICK n : n = Head(client_queue[r])
  OBVIOUS
<1>2. /\ client_queue[r] # <<>> /\ n \in DOMAIN client_tasks[r]
      /\ result_queue' = Append(result_queue, r)
      /\ answering' = [answering EXCEPT ![r] = n]
      /\ answered' = [answered EXCEPT ![r] = client_tasks[r][n]]
      /\ client_queue' = [client_queue EXCEPT ![r] = Tail(client_queue[r])]
      /\ client_tasks' = [client_tasks EXCEPT ![r] =
                              [m \in DOMAIN client_tasks[r] \ {n} |-> client_tasks[r][m]]]
      /\ UNCHANGED <<selected, computed, on_fly_tasks, finished, writer, reader>>
  BY <1>1 DEF CreditReturned, ids
<1>3. /\ client_queue \in [Rpi -> Seq(QueueItem)] /\ result_queue \in Seq(Item) /\ r \in Item
      /\ answering \in [Rpi -> TaskIds \cup {Nothing}] /\ n \in TaskIds
  BY <1>2 DEF IInv, Typed, ClientsTyped, ResultsTyped, Item
<1>4. /\ Range(client_queue[r]) = Range(client_queue'[r]) \cup {n}
      /\ n \notin Range(client_queue'[r])
      /\ \A q \in Rpi : q # r => client_queue'[q] = client_queue[q]
  <2>1. Once(client_queue[r])
    BY DEF Exact, InOnePlace
  <2>2. /\ Range(client_queue[r]) = Range(Tail(client_queue[r])) \cup {n}
        /\ n \notin Range(Tail(client_queue[r]))
    BY <1>1, <1>2, <1>3, <2>1, OnceTail
  <2> QED BY <1>2, <1>3, <2>2
<1>5. /\ client_tasks'[r] = [m \in DOMAIN client_tasks[r] \ {n} |-> client_tasks[r][m]]
      /\ answered'[r] = client_tasks[r][n] /\ answering'[r] = n
      /\ \A q \in Rpi : q # r => /\ client_tasks'[q] = client_tasks[q]
                                 /\ answered'[q] = answered[q] /\ answering'[q] = answering[q]
  BY <1>2, <1>3 DEF IInv, Typed, ResultsTyped
<1>6. NoneInVain'
  <2>1. DOMAIN client_tasks'[r] = Range(client_queue'[r]) \ {-1}
    BY <1>4, <1>5 DEF Own, NoneInVain, Clients!Stop
  <2> QED BY <1>4, <1>5, <2>1 DEF Own, NoneInVain, Clients!Stop
<1>7. TasksFit'
  BY <1>2, <1>5 DEF Own, TasksFit
<1>8. InQueue' = InQueue /\ WithReader' = WithReader
  <2>1. Range(result_queue') = Range(result_queue) \cup {r}
    BY <1>2, <1>3, AppendRange
  <2> QED BY <1>2, <2>1, IdFacts DEF InQueue, WithReader
<1>9. ResultsThere'
  BY <1>2, <1>8 DEF Own, ResultsThere
<1> QED BY <1>6, <1>7, <1>9 DEF Own

LEMMA ReturnResultOwn ==
  ASSUME IInv, Own, NEW r \in Rpi, ResultReturned(r) PROVE Own'
<1>1. PICK n : n = answering[r]
  OBVIOUS
<1>2. /\ n # Nothing
      /\ result_queue' = Append(result_queue, n)
      /\ answering' = [answering EXCEPT ![r] = Nothing]
      /\ computed' = computed \cup {answered[r]}
      /\ answered' = [answered EXCEPT ![r] = Nothing]
      /\ UNCHANGED <<client_queue, client_tasks, selected, on_fly_tasks, finished, writer, reader>>
  BY <1>1 DEF ResultReturned, ids
<1>3. /\ result_queue \in Seq(Item) /\ n \in Item
      /\ answering \in [Rpi -> TaskIds \cup {Nothing}]
  BY <1>1, <1>2 DEF IInv, Typed, ClientsTyped, Item
<1>4. answered[r] = on_fly_tasks[n]
  BY <1>1, <1>2 DEF Own, TasksFit
<1>5. NoneInVain'
  BY <1>2 DEF Own, NoneInVain
<1>6. TasksFit'
  <2>1. \A q \in Rpi : answering'[q] # Nothing =>
            q # r /\ answering'[q] = answering[q] /\ answered'[q] = answered[q]
    BY <1>2, <1>3 DEF IInv, Typed, ResultsTyped
  <2> QED BY <1>2, <2>1 DEF Own, TasksFit
<1>7. InQueue' \subseteq InQueue \cup {n} /\ WithReader' = WithReader
  <2>1. Range(result_queue') = Range(result_queue) \cup {n}
    BY <1>2, <1>3, AppendRange
  <2> QED BY <1>2, <2>1 DEF InQueue, WithReader, IsCredit
<1>8. ResultsThere'
  BY <1>2, <1>4, <1>7 DEF Own, ResultsThere
<1> QED BY <1>5, <1>6, <1>8 DEF Own

LEMMA TakeOwn == ASSUME IInv, Own, ReaderTake PROVE Own'
<1>1. PICK n : n = Head(result_queue)
  OBVIOUS
<1>2. /\ result_queue # <<>> /\ result_queue' = Tail(result_queue)
      /\ reader'.at = "decode" /\ reader'.item = n
      /\ UNCHANGED <<client_queue, answering, client_tasks, answered, selected, computed,
                     on_fly_tasks, finished, writer>>
  BY <1>1 DEF ReaderTake, Clients!Take, ids, results, IInv, Typed, ReaderTyped
<1>3. n \in Range(result_queue) /\ Range(result_queue') \subseteq Range(result_queue)
  <2>1. /\ Len(result_queue) \in Nat \ {0} /\ DOMAIN result_queue = 1..Len(result_queue)
        /\ DOMAIN Tail(result_queue) = 1..(Len(result_queue) - 1) /\ n = result_queue[1]
        /\ \A i \in 1..(Len(result_queue) - 1) : Tail(result_queue)[i] = result_queue[i + 1]
    BY <1>1, <1>2, HeadTailProperties, LenProperties, EmptySeq DEF IInv, Typed, ClientsTyped
  <2> QED BY <1>2, <2>1 DEF Range
<1>4. InQueue' \cup WithReader' \subseteq InQueue
  BY <1>2, <1>3 DEF InQueue, WithReader, IsCredit
<1>5. NoneInVain' /\ TasksFit'
  BY <1>2 DEF Own, NoneInVain, TasksFit
<1>6. ResultsThere'
  BY <1>2, <1>4 DEF Own, ResultsThere
<1> QED BY <1>5, <1>6 DEF Own

LEMMA ProcessOwn == ASSUME IInv, Exact, Own, ReaderProcess PROVE Own'
<1>1. /\ reader.at = "decode" /\ ~IsCredit(reader.item) /\ reader.item \in DOMAIN on_fly_tasks
      /\ UNCHANGED <<client_queue, answering, result_queue, client_tasks, answered, selected,
                     computed, on_fly_tasks, writer>>
  BY ProcessExact DEF ReaderProcess, ids, clients, results
<1>2. /\ finished' = finished \cup {on_fly_tasks[reader.item]}
      /\ reader'.item = reader.item
  BY <1>1 DEF ReaderProcess, IInv, Typed, ReaderTyped
<1>3. reader.item \in WithReader
  BY <1>1 DEF WithReader
<1>4. InQueue' = InQueue /\ WithReader' \subseteq WithReader
  BY <1>1, <1>2, <1>3 DEF InQueue, WithReader
<1>5. NoneInVain' /\ TasksFit'
  BY <1>1 DEF Own, NoneInVain, TasksFit
<1>6. ResultsThere'
  BY <1>1, <1>2, <1>3, <1>4 DEF Own, ResultsThere
<1> QED BY <1>5, <1>6 DEF Own

(* The reader's id is at no other place.                                   *)
LEMMA EraseOwn == ASSUME IInv, Exact, Own, ReaderErase PROVE Own'
<1>1. PICK n \in TaskIds : n = reader.item
  BY DEF ReaderErase, IInv, Typed, ReaderTyped
<1>2. /\ reader.at = "erase" /\ reader'.at = "erased"
      /\ \A m \in DOMAIN on_fly_tasks : m # n => on_fly_tasks'[m] = on_fly_tasks[m]
      /\ UNCHANGED <<client_queue, answering, result_queue, client_tasks, answered, selected,
                     computed, finished, writer>>
  BY <1>1 DEF ReaderErase, WithoutEntry, Restrict, clients, results, IInv, Typed, ReaderTyped
<1>3. n \in WithReader /\ WithReader' = {} /\ InQueue' = InQueue
  BY <1>1, <1>2, IdFacts DEF WithReader, InQueue
<1>4. /\ n \notin InQueue /\ n \notin WithWriter /\ \A r \in Rpi : n \notin Place(r)
  BY <1>3, OwnersDiffer, AlwaysLocated DEF Located, Exact, InOnePlace, Apart
<1>5. \A m \in IdsUnderway : m # n => on_fly_tasks'[m] = on_fly_tasks[m]
  BY <1>2 DEF Exact
<1>6. NoneInVain'
  BY <1>2 DEF Own, NoneInVain
<1>7. TasksFit'
  <2>1. \A r \in Rpi : \A m \in DOMAIN client_tasks[r] : m # n
    BY <1>4 DEF Own, NoneInVain, Place
  <2>2. \A r \in Rpi : answering[r] # Nothing => answering[r] # n
    BY <1>4 DEF Place
  <2>3. writer.at = "add" => writer.task # n
    BY <1>4 DEF WithWriter
  <2>4. \A r \in Rpi : \A m \in DOMAIN client_tasks[r] : on_fly_tasks'[m] = on_fly_tasks[m]
    BY <1>5, <2>1, OwnIdsUnderway
  <2>5. \A r \in Rpi : answering[r] # Nothing =>
            on_fly_tasks'[answering[r]] = on_fly_tasks[answering[r]]
    BY <1>5, <2>2, OwnIdsUnderway
  <2>6. writer.at = "add" => on_fly_tasks'[writer.task] = on_fly_tasks[writer.task]
    BY <1>5, <2>3, OwnIdsUnderway
  <2> QED BY <1>2, <2>4, <2>5, <2>6 DEF Own, TasksFit
<1>8. ResultsThere'
  BY <1>2, <1>3, <1>4, <1>5, OwnIdsUnderway DEF Own, ResultsThere
<1> QED BY <1>6, <1>7, <1>8 DEF Own

LEMMA CleanUpOwn == ASSUME IInv, Own, CleanUp PROVE Own'
<1>1. /\ client_queue' = [r \in Rpi |-> IF r \in client_map THEN Append(client_queue[r], -1)
                                        ELSE client_queue[r]]
      /\ reader'.at = "done"
      /\ UNCHANGED <<answering, result_queue, client_tasks, answered, selected, computed,
                     on_fly_tasks, finished, writer>>
  BY DEF CleanUp, Clients!Close, Clients!Stop, ids, results, IInv, Typed, ReaderTyped
<1>2. ASSUME NEW r \in Rpi
      PROVE  Range(client_queue'[r]) \ {-1} = Range(client_queue[r]) \ {-1}
  <2>1. client_queue[r] \in Seq(QueueItem) /\ -1 \in QueueItem
    BY DEF IInv, Typed, ClientsTyped, QueueItem
  <2>2. Range(Append(client_queue[r], -1)) = Range(client_queue[r]) \cup {-1}
    BY <2>1, AppendRange
  <2> QED BY <1>1, <2>2
<1>3. NoneInVain'
  BY <1>1, <1>2 DEF Own, NoneInVain, Clients!Stop
<1>4. TasksFit'
  BY <1>1 DEF Own, TasksFit
<1>5. ResultsThere'
  BY <1>1 DEF Own, ResultsThere, InQueue, WithReader
<1> QED BY <1>3, <1>4, <1>5 DEF Own

LEMMA StepOwn == ASSUME IInv, Exact, Own, WriterAssign => FreshId, [Next]_vars PROVE Own'
<1>1. CASE Constructor
  <2>1. /\ UNCHANGED <<clients, results, on_fly_tasks, finished>>
        /\ \/ UNCHANGED <<writer, reader>>
           \/ writer'.at = "pick" /\ reader'.at = "take"
    BY <1>1 DEF Constructor, Register, InitializeSecondaryResources, StartThreads, ids,
                IInv, Typed, WriterTyped, ReaderTyped, StartTogether
  <2>2. WithReader' \subseteq WithReader
    BY <2>1 DEF WithReader
  <2> QED BY <2>1, <2>2, OwnKept DEF results
<1>2. CASE WriterPick \/ WriterStop
  <2>1. UNCHANGED <<clients, results, on_fly_tasks, finished, reader>> /\ writer'.at # "add"
    BY <1>2 DEF WriterPick, WriterStop, ids, IInv, Typed, WriterTyped
  <2>2. WithReader' \subseteq WithReader
    BY <2>1 DEF WithReader
  <2> QED BY <2>1, <2>2, OwnKept DEF results
<1>3. CASE WriterAssign
  <2>1. PICK r \in Rpi : IF r \in client_map THEN WriterInsert(r) ELSE WriterDrop(r)
    BY <1>3 DEF WriterAssign
  <2>2. /\ writer.at = "credit"
        /\ UNCHANGED <<clients, client_tasks, answered, computed, finished, reader>>
    BY <1>3 DEF WriterAssign
  <2>3. CASE WriterInsert(r)
    BY <1>3, <2>2, <2>3, InsertOwn DEF FreshId
  <2>4. CASE WriterDrop(r)
    <3>1. writer'.at = "pick" /\ UNCHANGED on_fly_tasks
      BY <2>4 DEF WriterDrop
    <3>2. WithReader' \subseteq WithReader
      BY <2>2 DEF WithReader
    <3> QED BY <2>2, <3>1, <3>2, OwnKept
  <2> QED BY <2>1, <2>3, <2>4
<1>4. CASE WriterAdd
  BY <1>4, AddOwn
<1>5. CASE \E r \in Rpi : Client(r)
  BY <1>5, ClientStep, ReturnCreditOwn, ReturnResultOwn
<1>6. CASE ReaderTake \/ ReaderProcess \/ ReaderErase \/ CleanUp
  BY <1>6, TakeOwn, ProcessOwn, EraseOwn, CleanUpOwn
<1>7. CASE ReaderRelease \/ ReaderCheck
  <2>1. /\ UNCHANGED <<clients, results, on_fly_tasks, finished, writer>>
        /\ reader'.at \in {"take", "cleanup"}
    <3>1. CASE ReaderRelease
      BY <3>1 DEF ReaderRelease, ids, IInv, Typed, ReaderTyped
    <3>2. CASE ReaderCheck
      BY <3>2 DEF ReaderCheck, AllRootsDone
    <3> QED BY <1>7, <3>1, <3>2
  <2>2. WithReader' \subseteq WithReader
    BY <2>1 DEF WithReader
  <2> QED BY <2>1, <2>2, OwnKept DEF results
<1>8. CASE UNCHANGED vars
  <2>1. UNCHANGED <<clients, results, on_fly_tasks, finished, writer, reader>>
    BY <1>8 DEF vars, ids
  <2>2. WithReader' \subseteq WithReader
    BY <2>1 DEF WithReader
  <2> QED BY <2>1, <2>2, OwnKept DEF results
<1> QED BY <1>1, <1>2, <1>3, <1>4, <1>5, <1>6, <1>7, <1>8 DEF Next, Writer, Reader, Finished

LEMMA InitOwn == Init => Own
<1> SUFFICES ASSUME Init PROVE Own
  OBVIOUS
<1>1. /\ result_queue = <<>> /\ writer.at = "start" /\ reader.at = "start" /\ finished = {}
      /\ client_queue = [r \in Rpi |-> <<>>] /\ answering = [r \in Rpi |-> Nothing]
      /\ client_tasks = [r \in Rpi |-> <<>>]
  BY DEF Init, Clients!Init
<1>2. Range(<<>>) = {} /\ DOMAIN <<>> = {}
  BY DEF Range
<1>3. NoneInVain
  BY <1>1, <1>2 DEF NoneInVain
<1>4. TasksFit /\ ResultsThere
  BY <1>1, <1>2 DEF TasksFit, ResultsThere, InQueue, WithReader
<1> QED BY <1>3, <1>4 DEF Own

(* What is ready has the results of both operands.                         *)
LEMMA OwnIsDoneBoth == JobInv /\ Own => DoneBothChildren /\ finished \subseteq computed
BY DEF JobInv, ReadyInv, Runnable, Own, ResultsThere, DoneBothChildren

(* Whatever keeps the writer's ids free, be it the number of ids or the    *)
(* pace of the nodes: no task is lost, what is made ready has the results  *)
(* of both its operands, what is finished has its own result, and no       *)
(* client searches in vain.                                                *)
THEOREM FreeIds == Spec => FreeIdsSuffice
<1>1. Init => Kept /\ Own
  BY InitKept, InitOwn
<1>2. IInv /\ JobInv /\ Kept /\ Own /\ IdIsFree /\ [Next]_vars => Kept' /\ Own'
  BY StepKept, StepOwn, FreeIsFresh DEF Kept
<1>3. JobInv /\ Kept /\ Own =>
          NoTaskLost /\ DoneBothChildren /\ finished \subseteq computed /\ NoneInVain
  BY KeptIsNoTaskLost, OwnIsDoneBoth DEF Own
<1> QED BY <1>1, <1>2, <1>3, SpecJobInv, PTL DEF Spec, FreeIdsSuffice
-----------------------------------------------------------------------------
(* With as many ids as tasks, no id is given twice: the count of ids given *)
(* is that of the tasks begun.                                             *)
Begun == finished \cup Range(on_fly_tasks)

CountInv ==
    /\ count = Cardinality(Begun)
    /\ \A n \in DOMAIN on_fly_tasks : n < IdStart + count

LEMMA TaskCount == IsFiniteSet(Task) /\ Cardinality(Task) = Subtrees * (2 * K - 1)
<1>1. K \in Nat \ {0} /\ Subtrees \in Nat
  BY KAssumption, SubtreesAssumption
<1>2. IsFiniteSet(0..Subtrees - 1) /\ Cardinality(0..Subtrees - 1) = Subtrees
  <2>1. IsFiniteSet(0..Subtrees - 1)
        /\ Cardinality(0..Subtrees - 1) = IF 0 > Subtrees - 1 THEN 0 ELSE (Subtrees - 1) - 0 + 1
    BY <1>1, FS_Interval
  <2> QED BY <1>1, <2>1
<1>3. IsFiniteSet(0..2 * K - 2) /\ Cardinality(0..2 * K - 2) = 2 * K - 1
  <2>1. IsFiniteSet(0..2 * K - 2)
        /\ Cardinality(0..2 * K - 2) = IF 0 > 2 * K - 2 THEN 0 ELSE (2 * K - 2) - 0 + 1
    BY <1>1, FS_Interval
  <2> QED BY <1>1, <2>1
<1> DEFINE I == 0..Subtrees - 1
           P == 0..2 * K - 2
<1>4. Task = I \X P
  BY DEF Task
<1>5. IsFiniteSet(I) /\ IsFiniteSet(P) /\ Cardinality(I) = Subtrees /\ Cardinality(P) = 2 * K - 1
  BY <1>2, <1>3
<1> HIDE DEF I, P
<1>6. IsFiniteSet(I \X P) /\ Cardinality(I \X P) = Cardinality(I) * Cardinality(P)
  BY <1>5, FS_Product
<1> QED BY <1>4, <1>5, <1>6

LEMMA BegunIsFinite == IInv /\ JobInv => Begun \subseteq Task /\ IsFiniteSet(Begun)
<1> SUFFICES ASSUME IInv, JobInv PROVE Begun \subseteq Task /\ IsFiniteSet(Begun)
  OBVIOUS
<1>1. Begun \subseteq Task
  BY DEF Begun, Range, IInv, Typed, TasksTyped, JobInv, DoneInv
<1> QED BY <1>1, TaskCount, FS_Subset

LEMMA CountedFresh ==
  ASSUME IInv, JobInv, Exact, CountInv, Subtrees * (2 * K - 1) <= IdSpan PROVE FreshId
<1> SUFFICES ASSUME writer.at = "credit" PROVE IdStart + (count % IdSpan) \notin IdsUnderway
  BY DEF FreshId
<1>1. PICK t \in Task : t = writer.task
  BY DEF IInv, Typed, WriterTyped
<1>2. t \notin Begun
  BY <1>1 DEF Begun, Range, JobInv, ReadyInv, OnFlyInv, InHand
<1>3. Cardinality(Begun \cup {t}) = Cardinality(Begun) + 1
  BY <1>2, BegunIsFinite, FS_AddElement
<1>4. Cardinality(Begun \cup {t}) <= Cardinality(Task)
  BY BegunIsFinite, TaskCount, FS_Subset
<1>5. count \in Nat /\ IdStart \in Nat /\ IdSpan \in Nat \ {0} /\ Subtrees * (2 * K - 1) \in Nat
  BY TaskCount, IdStartAssumption, NumRpiAssumption, IdsAssumption, FS_CardinalityType
     DEF IInv, Typed, TasksTyped, IdSpan
<1>6. count < IdSpan
  <2>1. count + 1 <= Subtrees * (2 * K - 1)
    BY <1>3, <1>4, TaskCount DEF CountInv
  <2> QED BY <1>5, <2>1
<1>7. count % IdSpan = count
  BY <1>5, <1>6
<1>8. IdStart + count \notin DOMAIN on_fly_tasks
  BY <1>5 DEF CountInv
<1> QED BY <1>7, <1>8 DEF Exact

LEMMA StepCount ==
  ASSUME IInv, JobInv, Exact, CountInv, Subtrees * (2 * K - 1) <= IdSpan, [Next]_vars
  PROVE  CountInv'
<1>1. CASE UNCHANGED <<finished, on_fly_tasks, count>>
  BY <1>1 DEF CountInv, Begun
<1>2. CASE WriterAssign
  <2>1. PICK r \in Rpi : IF r \in client_map THEN WriterInsert(r) ELSE WriterDrop(r)
    BY <1>2 DEF WriterAssign
  <2>2. writer.at = "credit" /\ finished' = finished
    BY <1>2 DEF WriterAssign
  <2>3. CASE WriterDrop(r)
    BY <1>1, <2>2, <2>3 DEF WriterDrop
  <2>4. CASE WriterInsert(r)
    <3>1. PICK t \in Task : t = writer.task
      BY <2>2 DEF IInv, Typed, WriterTyped
    <3>2. PICK id \in TaskIds : id = IdStart + (count % IdSpan)
      BY IdFacts DEF IInv, Typed, TasksTyped
    <3>3. id \notin DOMAIN on_fly_tasks
      BY <2>2, <3>2, CountedFresh DEF FreshId, Exact
    <3>4. /\ DOMAIN on_fly_tasks' = DOMAIN on_fly_tasks \cup {id} /\ on_fly_tasks'[id] = t
          /\ \A n \in DOMAIN on_fly_tasks : on_fly_tasks'[n] = on_fly_tasks[n]
          /\ count' = count + 1
      BY <2>4, <3>1, <3>2, <3>3 DEF WriterInsert
    <3>5. Begun' = Begun \cup {t}
      BY <2>2, <3>4 DEF Begun, Range
    <3>6. t \notin Begun
      BY <2>2, <3>1 DEF Begun, Range, JobInv, ReadyInv, OnFlyInv, InHand
    <3>7. count' = Cardinality(Begun')
      BY <3>4, <3>5, <3>6, BegunIsFinite, FS_AddElement DEF CountInv
    <3>8. count \in Nat /\ IdStart \in Nat /\ IdSpan \in Nat \ {0} /\ TaskIds \subseteq Int
      BY IdStartAssumption, NumRpiAssumption, IdsAssumption, IdFacts
         DEF IInv, Typed, TasksTyped, IdSpan
    <3>9. id < IdStart + count'
      <4>1. \A n \in Nat, s \in Nat \ {0} : n % s <= n
        OBVIOUS
      <4>2. count % IdSpan <= count
        BY <3>8, <4>1
      <4> QED BY <3>2, <3>4, <3>8, <4>2
    <3>10. \A n \in DOMAIN on_fly_tasks : n < IdStart + count'
      <4>1. ASSUME NEW n \in DOMAIN on_fly_tasks PROVE n \in Int
        <5>1. DOMAIN on_fly_tasks \subseteq Int
          BY UnderwayAreIds, IdFacts DEF Exact
        <5> QED BY <5>1
      <4> QED BY <3>4, <3>8, <4>1 DEF CountInv
    <3> QED BY <3>4, <3>7, <3>9, <3>10 DEF CountInv
  <2> QED BY <2>1, <2>3, <2>4
<1>3. CASE ReaderProcess
  <2>1. UNCHANGED <<on_fly_tasks, count>> /\ reader.item \in DOMAIN on_fly_tasks
    BY <1>3, ProcessExact DEF ReaderProcess, ids
  <2>2. finished' = finished \cup {on_fly_tasks[reader.item]}
    BY <1>3, <2>1 DEF ReaderProcess
  <2>3. Begun' = Begun
    BY <2>1, <2>2 DEF Begun, Range
  <2> QED BY <2>1, <2>3 DEF CountInv
<1>4. CASE ReaderErase
  <2>1. /\ UNCHANGED <<finished, count>>
        /\ DOMAIN on_fly_tasks' = DOMAIN on_fly_tasks \ {reader.item}
        /\ \A n \in DOMAIN on_fly_tasks' : on_fly_tasks'[n] = on_fly_tasks[n]
    BY <1>4 DEF ReaderErase, WithoutEntry, Restrict
  <2>2. on_fly_tasks[reader.item] \in finished
    BY <1>4 DEF ReaderErase, Exact
  <2>3. Begun' = Begun
    BY <2>1, <2>2 DEF Begun, Range
  <2> QED BY <2>1, <2>3 DEF CountInv
<1>5. CASE \/ Constructor \/ WriterPick \/ WriterAdd \/ WriterStop \/ (\E r \in Rpi : Client(r))
           \/ ReaderTake \/ ReaderRelease \/ ReaderCheck \/ CleanUp \/ UNCHANGED vars
  <2>1. UNCHANGED <<finished, on_fly_tasks, count>>
    BY <1>5 DEF Constructor, Register, InitializeSecondaryResources, StartThreads, WriterPick,
           WriterAdd, WriterStop, Client, ReaderTake, ReaderRelease, ReaderCheck, CleanUp, vars, ids
  <2> QED BY <1>1, <2>1
<1> QED BY <1>2, <1>3, <1>4, <1>5 DEF Next, Writer, Reader, Finished

(* With an id for every task, no task is lost: a result that arrives finds *)
(* the task it is of, however long it took.                                *)
THEOREM EnoughIds ==
  ASSUME Subtrees * (2 * K - 1) <= IdSpan
  PROVE  Spec => [](NoTaskLost /\ DoneBothChildren /\ finished \subseteq computed /\ NoneInVain)
<1>1. Init => Kept /\ CountInv
  <2>1. ASSUME Init PROVE CountInv
    <3>1. on_fly_tasks = <<>> /\ finished = {} /\ count = 0
      BY <2>1 DEF Init
    <3>2. Begun = {} /\ DOMAIN on_fly_tasks = {}
      BY <3>1 DEF Begun, Range
    <3> QED BY <3>1, <3>2, FS_EmptySet DEF CountInv
  <2> QED BY <2>1, InitKept
<1>2. IInv /\ JobInv /\ Kept /\ CountInv => IdIsFree
  BY CountedFresh DEF Kept, FreshId, IdIsFree
<1>3. IInv /\ JobInv /\ Kept /\ CountInv /\ [Next]_vars => Kept' /\ CountInv'
  <2> SUFFICES ASSUME IInv, JobInv, Kept, CountInv, [Next]_vars PROVE Kept' /\ CountInv'
    OBVIOUS
  <2>1. Exact
    BY DEF Kept
  <2>2. CountInv' /\ FreshId
    BY <2>1, StepCount, CountedFresh
  <2> QED BY <2>2, StepKept
<1> QED BY <1>1, <1>2, <1>3, SpecJobInv, FreeIds, PTL DEF Spec, FreeIdsSuffice
-----------------------------------------------------------------------------
(* With one node the ids are in one line: the writer, the client, the      *)
(* queue of results and the reader handle them in the order in which they  *)
(* were given out, the k-th task with the k-th id.                         *)
IdOf(k) == IdStart + (k % IdSpan)

Given == IF writer.at = "add" THEN count - 1 ELSE count
Passed == Given - Len(client_queue[0])
Sent == IF answering[0] = Nothing THEN 2 * Passed ELSE 2 * Passed - 1
Taken == Sent - Len(result_queue)

(* The j-th item that the client passes on: credits and results by turns.  *)
IsItem(x, j) == \A k \in Nat : /\ j = 2 * k + 1 => x = 0
                               /\ j = 2 * k + 2 => x = IdOf(k)

Busy == reader.at \in {"decode", "erase"}

IdsInLine ==
    /\ Passed \in Nat /\ Taken \in Nat
    /\ writer.at = "add" => writer.task = IdOf(Given) /\ Given \in Nat
    /\ \A i \in 1..Len(client_queue[0]) : client_queue[0][i] = IdOf(Passed + i - 1)
    /\ answering[0] # Nothing => Passed > 0 /\ answering[0] = IdOf(Passed - 1)

ItemsInLine ==
    /\ \A i \in 1..Len(result_queue) : IsItem(result_queue[i], Taken + i)
    /\ Busy => IsItem(reader.item, Taken) /\ Taken > 0

(* Every second item taken gave a credit back.                             *)
HeldInLine ==
    \A k \in Nat :
        /\ Taken = 2 * k => held[0] = count + Len(dropped[0]) - k
        /\ Taken = 2 * k + 1 =>
              held[0] = count + Len(dropped[0]) - (IF reader.at = "decode" THEN k ELSE k + 1)

Line == IdsInLine /\ ItemsInLine /\ HeldInLine
LineInv == reader.at # "done" => Line

LEMMA LineFacts ==
  ASSUME NumRpi = 1, IInv
  PROVE  /\ Rpi = {0} /\ count \in Nat /\ held[0] \in 0..Units
         /\ client_queue[0] \in Seq(QueueItem) /\ Len(client_queue[0]) \in Nat
         /\ result_queue \in Seq(Item) /\ Len(result_queue) \in Nat
         /\ dropped[0] \in Seq(Task) /\ Len(dropped[0]) \in Nat
         /\ answering[0] \in TaskIds \cup {Nothing}
         /\ \A k \in Nat : IdOf(k) \in TaskIds
<1>1. Rpi = {0}
  BY DEF Rpi
<1>2. /\ client_queue[0] \in Seq(QueueItem) /\ result_queue \in Seq(Item)
      /\ dropped[0] \in Seq(Task) /\ count \in Nat /\ held[0] \in 0..Units
      /\ answering[0] \in TaskIds \cup {Nothing}
  BY <1>1 DEF IInv, Typed, ClientsTyped, TasksTyped, PoolTyped
<1> QED BY <1>1, <1>2, LenProperties, IdFacts DEF IdOf

(* Steps that leave the line as it is.                                     *)
LEMMA LineKept ==
  ASSUME Line, UNCHANGED <<clients, dropped, held, count, Given>>,
         writer'.at = "add" => writer.at = "add" /\ writer'.task = writer.task,
         Busy' => Busy /\ reader'.item = reader.item,
         (\E k \in Nat : Taken = 2 * k + 1) => (reader'.at = "decode" <=> reader.at = "decode")
  PROVE  Line'
<1>1. UNCHANGED <<client_queue, answering, result_queue, Passed, Sent, Taken>>
  BY DEF clients, Passed, Sent, Taken
<1>2. IdsInLine'
  BY <1>1 DEF Line, IdsInLine, IdOf
<1>3. ItemsInLine'
  BY <1>1 DEF Line, ItemsInLine, IsItem, IdOf
<1>4. HeldInLine'
  <2> SUFFICES ASSUME NEW k \in Nat
      PROVE  /\ Taken = 2 * k => held[0] = count + Len(dropped[0]) - k
             /\ Taken = 2 * k + 1 =>
                   held[0] = count + Len(dropped[0]) - (IF reader'.at = "decode" THEN k ELSE k + 1)
    BY <1>1 DEF HeldInLine
  <2> QED BY DEF Line, HeldInLine
<1> QED BY <1>2, <1>3, <1>4 DEF Line

LEMMA AssignLine == ASSUME NumRpi = 1, IInv, Line, WriterAssign PROVE Line'
<1>1. Rpi = {0}
  BY LineFacts
<1>2. /\ held'[0] = held[0] + 1 /\ (WriterInsert(0) \/ WriterDrop(0))
      /\ writer.at = "credit" /\ UNCHANGED <<client_queue, answering, result_queue, reader>>
  BY <1>1 DEF WriterAssign, Pool!Grant, IInv, Typed, PoolTyped, clients
<1>3. \/ /\ count' = count + 1 /\ Len(dropped'[0]) = Len(dropped[0])
         /\ writer'.at = "add" /\ writer'.task = IdOf(count)
      \/ count' = count /\ Len(dropped'[0]) = Len(dropped[0]) + 1 /\ writer'.at = "pick"
  <2>1. CASE WriterInsert(0)
    BY <2>1 DEF WriterInsert, IdOf
  <2>2. CASE WriterDrop(0)
    <3>1. writer.task \in Task /\ dropped[0] \in Seq(Task)
      BY <1>2, LineFacts DEF IInv, Typed, WriterTyped
    <3>2. Len(Append(dropped[0], writer.task)) = Len(dropped[0]) + 1
      BY <3>1, AppendProperties
    <3>3. 0 \in DOMAIN dropped
      BY <1>1 DEF IInv, Typed, TasksTyped
    <3> QED BY <2>2, <3>2, <3>3 DEF WriterDrop
  <2> QED BY <1>2, <2>1, <2>2
<1>4. Given' = Given /\ Given = count
  BY <1>2, <1>3, LineFacts DEF Given
<1>5. UNCHANGED <<Passed, Sent, Taken>>
  BY <1>2, <1>4 DEF Passed, Sent, Taken
<1>6. IdsInLine'
  <2>1. writer'.at = "add" => writer'.task = IdOf(Given) /\ Given \in Nat
    BY <1>3, <1>4, LineFacts
  <2> QED BY <1>2, <1>4, <1>5, <2>1 DEF Line, IdsInLine, IdOf
<1>7. ItemsInLine'
  BY <1>2, <1>5 DEF Line, ItemsInLine, IsItem, IdOf, Busy
<1>8. HeldInLine'
  <2>1. PICK d : d = Len(dropped[0])
    OBVIOUS
  <2>2. d \in Nat /\ count \in Nat /\ held[0] \in Int
    BY <2>1, LineFacts
  <2>3. ASSUME NEW h \in Int, held[0] = count + d - h
        PROVE  held'[0] = count' + Len(dropped'[0]) - h
    <3>1. CASE count' = count + 1 /\ Len(dropped'[0]) = d
      BY <1>2, <2>2, <2>3, <3>1
    <3>2. CASE count' = count /\ Len(dropped'[0]) = d + 1
      BY <1>2, <2>2, <2>3, <3>2
    <3> QED BY <1>3, <2>1, <3>1, <3>2
  <2>4. reader' = reader /\ Taken' = Taken
    BY <1>2, <1>5
  <2>5. ASSUME NEW k \in Nat, Taken = 2 * k PROVE held'[0] = count' + Len(dropped'[0]) - k
    <3>1. held[0] = count + Len(dropped[0]) - k
      BY <2>5 DEF Line, HeldInLine
    <3>2. PICK h \in Int : h = k
      OBVIOUS
    <3> QED BY <2>1, <2>3, <3>1, <3>2
  <2>6. ASSUME NEW k \in Nat, Taken = 2 * k + 1
        PROVE  held'[0] = count' + Len(dropped'[0]) - (IF reader.at = "decode" THEN k ELSE k + 1)
    <3>1. PICK h \in Int : h = IF reader.at = "decode" THEN k ELSE k + 1
      OBVIOUS
    <3>2. held[0] = count + d - h
      BY <2>1, <2>6, <3>1 DEF Line, HeldInLine
    <3> QED BY <2>3, <3>1, <3>2
  <2> QED BY <2>4, <2>5, <2>6 DEF HeldInLine
<1> QED BY <1>6, <1>7, <1>8 DEF Line

LEMMA AddLine == ASSUME NumRpi = 1, IInv, Line, WriterAdd PROVE Line'
<1>1. PICK n \in TaskIds : n = writer.task
  BY DEF WriterAdd, IInv, Typed, WriterTyped
<1>2. Rpi = {0} /\ writer.rpi = 0
  BY LineFacts DEF WriterAdd, IInv, Typed, WriterTyped
<1>3. /\ client_queue'[0] = Append(client_queue[0], n)
      /\ writer.at = "add" /\ writer'.at = "pick"
      /\ UNCHANGED <<held, dropped, count, answering, result_queue, reader>>
  BY <1>1, <1>2 DEF WriterAdd, Clients!Give, IInv, Typed, ClientsTyped, pool
<1>4. n \in QueueItem
  BY DEF QueueItem
<1>5. /\ Len(client_queue'[0]) = Len(client_queue[0]) + 1
      /\ \A i \in 1..Len(client_queue[0]) : client_queue'[0][i] = client_queue[0][i]
      /\ client_queue'[0][Len(client_queue[0]) + 1] = n
  BY <1>3, <1>4, LineFacts, AppendProperties
<1>6. Given' = Given + 1 /\ Given \in Nat /\ n = IdOf(Given)
  BY <1>1, <1>3, LineFacts DEF Given, Line, IdsInLine
<1>7. Passed' = Passed /\ Given = Passed + Len(client_queue[0])
  <2>1. PICK l \in Nat : l = Len(client_queue[0])
    BY LineFacts
  <2>2. Len(client_queue'[0]) = l + 1
    BY <1>5, <2>1
  <2> QED BY <1>6, <2>1, <2>2 DEF Passed
<1>8. Sent' = Sent /\ Taken' = Taken
  BY <1>3, <1>7 DEF Sent, Taken
<1>9. IdsInLine'
  <2>1. ASSUME NEW i \in 1..Len(client_queue'[0])
        PROVE  client_queue'[0][i] = IdOf(Passed + i - 1)
    <3>1. CASE i \in 1..Len(client_queue[0])
      BY <1>5, <3>1 DEF Line, IdsInLine
    <3>2. CASE i = Len(client_queue[0]) + 1
      <4>1. Passed + i - 1 = Given
        BY <1>7, <3>2, LineFacts DEF Line, IdsInLine
      <4> QED BY <1>5, <1>6, <3>2, <4>1
    <3> QED BY <1>5, <3>1, <3>2, LineFacts
  <2> QED BY <1>3, <1>7, <1>8, <2>1 DEF Line, IdsInLine, IdOf
<1>10. ItemsInLine'
  BY <1>3, <1>8 DEF Line, ItemsInLine, IsItem, IdOf, Busy
<1>11. HeldInLine'
  BY <1>3, <1>8 DEF Line, HeldInLine
<1> QED BY <1>9, <1>10, <1>11 DEF Line

LEMMA ReturnCreditLine ==
  ASSUME NumRpi = 1, IInv, Line, CreditReturned(0) PROVE Line'
<1>1. PICK n : n = Head(client_queue[0])
  OBVIOUS
<1>2. /\ client_queue[0] # <<>> /\ n \in DOMAIN client_tasks[0] /\ answering[0] = Nothing
      /\ result_queue' = Append(result_queue, 0)
      /\ answering'[0] = n /\ client_queue'[0] = Tail(client_queue[0])
      /\ UNCHANGED <<held, dropped, count, writer, reader>>
  BY <1>1, LineFacts DEF CreditReturned, pool, ids, IInv, Typed, ClientsTyped
<1>3. /\ Len(client_queue[0]) \in Nat \ {0} /\ n = client_queue[0][1] /\ n \in QueueItem
      /\ Len(client_queue'[0]) = Len(client_queue[0]) - 1
      /\ \A i \in 1..Len(client_queue'[0]) : client_queue'[0][i] = client_queue[0][i + 1]
  BY <1>1, <1>2, LineFacts, HeadTailProperties, LenProperties, EmptySeq
<1>4. n \in TaskIds /\ n # Nothing
  BY <1>2, LineFacts, IdFacts DEF IInv, Typed, ResultsTyped
<1>5. 0 \in Item
  BY LineFacts DEF Item
<1>6. /\ Len(result_queue') = Len(result_queue) + 1
      /\ \A i \in 1..Len(result_queue) : result_queue'[i] = result_queue[i]
      /\ result_queue'[Len(result_queue) + 1] = 0
  BY <1>2, <1>5, LineFacts, AppendProperties
<1>7. Passed \in Nat /\ Given' = Given /\ Given = Passed + Len(client_queue[0])
  <2>1. Given \in Int
    BY LineFacts DEF Given
  <2> QED BY <1>2, <2>1, LineFacts DEF Given, Passed, Line, IdsInLine
<1>8. Passed' = Passed + 1
  BY <1>3, <1>7 DEF Passed
<1>9. Sent = 2 * Passed /\ Sent' = 2 * Passed + 1
  BY <1>2, <1>4, <1>7, <1>8 DEF Sent
<1>10. Taken' = Taken /\ Taken \in Nat /\ Taken + Len(result_queue) = 2 * Passed
  BY <1>6, <1>7, <1>9, LineFacts DEF Taken, Line, IdsInLine
<1>11. IdsInLine'
  <2>1. ASSUME NEW i \in 1..Len(client_queue'[0])
        PROVE  client_queue'[0][i] = IdOf(Passed + 1 + i - 1)
    <3>1. i + 1 \in 1..Len(client_queue[0]) /\ Passed + (i + 1) - 1 = Passed + 1 + i - 1
      BY <1>3, <1>7
    <3> QED BY <1>3, <3>1 DEF Line, IdsInLine
  <2>2. answering'[0] = IdOf(Passed + 1 - 1)
    <3>1. n = IdOf(Passed + 1 - 1)
      BY <1>3 DEF Line, IdsInLine
    <3> QED BY <1>2, <3>1
  <2> QED BY <1>2, <1>7, <1>8, <1>10, <2>1, <2>2 DEF Line, IdsInLine, IdOf
<1>12. ItemsInLine'
  <2>1. ASSUME NEW i \in 1..Len(result_queue') PROVE IsItem(result_queue'[i], Taken + i)
    <3>1. CASE i \in 1..Len(result_queue)
      BY <1>6, <3>1 DEF Line, ItemsInLine
    <3>2. CASE i = Len(result_queue) + 1
      <4>1. Len(result_queue) \in Nat
        BY LineFacts
      <4>2. Taken + i = 2 * Passed + 1
        BY <1>7, <1>10, <3>2, <4>1
      <4>3. result_queue'[i] = 0
        BY <1>6, <3>2
      <4> QED BY <1>7, <4>2, <4>3 DEF IsItem
    <3> QED BY <1>6, <3>1, <3>2, LineFacts
  <2> QED BY <1>2, <1>10, <2>1 DEF Line, ItemsInLine, IsItem, IdOf, Busy
<1>13. HeldInLine'
  BY <1>2, <1>10 DEF Line, HeldInLine
<1> QED BY <1>11, <1>12, <1>13 DEF Line

LEMMA ReturnResultLine ==
  ASSUME NumRpi = 1, IInv, Line, ResultReturned(0) PROVE Line'
<1>1. PICK n : n = answering[0]
  OBVIOUS
<1>2. /\ n # Nothing /\ result_queue' = Append(result_queue, n) /\ answering'[0] = Nothing
      /\ UNCHANGED <<client_queue, held, dropped, count, writer, reader>>
  BY <1>1, LineFacts DEF ResultReturned, pool, ids, IInv, Typed, ClientsTyped
<1>3. n \in Item
  BY <1>1, <1>2, LineFacts DEF Item
<1>4. /\ Len(result_queue') = Len(result_queue) + 1
      /\ \A i \in 1..Len(result_queue) : result_queue'[i] = result_queue[i]
      /\ result_queue'[Len(result_queue) + 1] = n
  BY <1>2, <1>3, LineFacts, AppendProperties
<1>5. Passed' = Passed /\ Given' = Given /\ Passed \in Nat /\ Passed > 0 /\ n = IdOf(Passed - 1)
  BY <1>1, <1>2 DEF Passed, Given, Line, IdsInLine
<1>6. Sent = 2 * Passed - 1 /\ Sent' = 2 * Passed
  BY <1>1, <1>2, <1>5 DEF Sent
<1>7. Taken' = Taken /\ Taken \in Nat /\ Taken + Len(result_queue) = 2 * Passed - 1
  BY <1>4, <1>5, <1>6, LineFacts DEF Taken, Line, IdsInLine
<1>8. IdsInLine'
  BY <1>2, <1>5, <1>7 DEF Line, IdsInLine, IdOf
<1>9. ItemsInLine'
  <2>1. ASSUME NEW i \in 1..Len(result_queue') PROVE IsItem(result_queue'[i], Taken + i)
    <3>1. CASE i \in 1..Len(result_queue)
      BY <1>4, <3>1 DEF Line, ItemsInLine
    <3>2. CASE i = Len(result_queue) + 1
      <4>1. Taken + i = 2 * Passed /\ result_queue'[i] = n
        BY <1>4, <1>5, <1>7, <3>2, LineFacts
      <4>2. \A k \in Nat : Taken + i # 2 * k + 1 /\ (Taken + i = 2 * k + 2 => k = Passed - 1)
        BY <1>5, <4>1
      <4> QED BY <1>5, <4>1, <4>2 DEF IsItem
    <3> QED BY <1>4, <3>1, <3>2, LineFacts
  <2> QED BY <1>2, <1>7, <2>1 DEF Line, ItemsInLine, IsItem, IdOf, Busy
<1>10. HeldInLine'
  BY <1>2, <1>7 DEF Line, HeldInLine
<1> QED BY <1>8, <1>9, <1>10 DEF Line

LEMMA TakeLine == ASSUME NumRpi = 1, IInv, Line, ReaderTake PROVE Line'
<1>1. PICK n : n = Head(result_queue)
  OBVIOUS
<1>2. /\ result_queue # <<>> /\ result_queue' = Tail(result_queue) /\ reader.at = "take"
      /\ reader'.at = "decode" /\ reader'.item = n
      /\ UNCHANGED <<client_queue, answering, held, dropped, count, writer>>
  BY <1>1 DEF ReaderTake, Clients!Take, pool, ids, IInv, Typed, ReaderTyped
<1>3. /\ Len(result_queue) \in Nat \ {0} /\ n = result_queue[1]
      /\ Len(result_queue') = Len(result_queue) - 1
      /\ \A i \in 1..Len(result_queue') : result_queue'[i] = result_queue[i + 1]
  BY <1>1, <1>2, LineFacts, HeadTailProperties, LenProperties, EmptySeq
<1>4. UNCHANGED <<Given, Passed, Sent>> /\ Passed \in Nat /\ Taken \in Nat
  BY <1>2 DEF Given, Passed, Sent, Line, IdsInLine
<1>5. Taken' = Taken + 1
  <2>1. Sent \in Int
    BY <1>4 DEF Sent
  <2> QED BY <1>3, <1>4, <2>1 DEF Taken
<1>6. IdsInLine'
  BY <1>2, <1>4, <1>5 DEF Line, IdsInLine, IdOf
<1>7. ItemsInLine'
  <2>1. ASSUME NEW i \in 1..Len(result_queue') PROVE IsItem(result_queue'[i], Taken + 1 + i)
    <3>1. i + 1 \in 1..Len(result_queue) /\ Taken + (i + 1) = Taken + 1 + i
      BY <1>3, <1>4
    <3> QED BY <1>3, <3>1 DEF Line, ItemsInLine
  <2>2. IsItem(n, Taken + 1)
    BY <1>3 DEF Line, ItemsInLine
  <2> QED BY <1>2, <1>4, <1>5, <2>1, <2>2 DEF ItemsInLine, IsItem, IdOf, Busy
<1>8. HeldInLine'
  <2> SUFFICES ASSUME NEW k \in Nat
      PROVE  /\ Taken + 1 = 2 * k => held[0] = count + Len(dropped[0]) - k
             /\ Taken + 1 = 2 * k + 1 => held[0] = count + Len(dropped[0]) - k
    BY <1>2, <1>5 DEF HeldInLine
  <2>1. ASSUME Taken + 1 = 2 * k PROVE held[0] = count + Len(dropped[0]) - k
    <3>1. k - 1 \in Nat /\ Taken = 2 * (k - 1) + 1
      BY <1>4, <2>1
    <3>2. held[0] = count + Len(dropped[0]) - ((k - 1) + 1)
      BY <1>2, <3>1 DEF Line, HeldInLine
    <3> QED BY <3>2
  <2>2. ASSUME Taken + 1 = 2 * k + 1 PROVE held[0] = count + Len(dropped[0]) - k
    <3>1. Taken = 2 * k
      BY <1>4, <2>2
    <3> QED BY <3>1 DEF Line, HeldInLine
  <2> QED BY <2>1, <2>2
<1> QED BY <1>6, <1>7, <1>8 DEF Line

(* The reader knows a credit from a result: a credit is an odd item.       *)
LEMMA DecodedLine ==
  ASSUME NumRpi = 1, IInv, Line, reader.at = "decode"
  PROVE  /\ IsCredit(reader.item) => \E k \in Nat : Taken = 2 * k + 1
         /\ ~IsCredit(reader.item) => ~\E k \in Nat : Taken = 2 * k + 1
<1>1. Busy /\ reader.item \in Item
  BY DEF Busy, IInv, Typed, ReaderTyped
<1>2. IsItem(reader.item, Taken) /\ Taken \in Nat /\ Taken > 0
  BY <1>1 DEF Line, IdsInLine, ItemsInLine
<1>3. \A k \in Nat : Taken = 2 * k + 2 => ~IsCredit(reader.item)
  BY <1>2, LineFacts, IdFacts DEF IsItem
<1>4. \A k \in Nat : Taken = 2 * k + 1 => IsCredit(reader.item)
  BY <1>2, LineFacts, IdFacts DEF IsItem
<1>5. \A j \in Nat : j > 0 => \E k \in Nat : j = 2 * k + 1 \/ j = 2 * k + 2
  <2> SUFFICES ASSUME NEW j \in Nat, j > 0
      PROVE  \E k \in Nat : j = 2 * k + 1 \/ j = 2 * k + 2
    OBVIOUS
  <2> WITNESS (j - 1) \div 2 \in Nat
  <2> QED OBVIOUS
<1> QED BY <1>2, <1>3, <1>4, <1>5

LEMMA ReleaseLine == ASSUME NumRpi = 1, IInv, Line, ReaderRelease PROVE Line'
<1>1. Rpi = {0} /\ held[0] \in 0..Units /\ count \in Nat /\ Len(dropped[0]) \in Nat
  BY LineFacts
<1>2. reader.at = "decode" /\ IsCredit(reader.item)
  BY DEF ReaderRelease
<1>3. PICK m \in Nat : Taken = 2 * m + 1
  BY <1>2, DecodedLine
<1>4. reader.item = 0
  BY <1>2, <1>3 DEF Line, ItemsInLine, Busy, IsItem
<1>5. /\ held'[0] = held[0] - 1 /\ reader'.at = "take"
      /\ UNCHANGED <<client_queue, answering, result_queue, dropped, count, writer>>
  BY <1>1, <1>4 DEF ReaderRelease, Pool!GiveBack, clients, ids, IInv, Typed, PoolTyped, ReaderTyped
<1>6. UNCHANGED <<Given, Passed, Sent, Taken>>
  BY <1>5 DEF Given, Passed, Sent, Taken
<1>7. IdsInLine'
  BY <1>5, <1>6 DEF Line, IdsInLine, IdOf
<1>8. ItemsInLine'
  BY <1>5, <1>6 DEF Line, ItemsInLine, IsItem, IdOf, Busy
<1>9. HeldInLine'
  <2>1. held'[0] = count + Len(dropped[0]) - (m + 1)
    <3>1. held[0] = count + Len(dropped[0]) - m
      BY <1>2, <1>3 DEF Line, HeldInLine
    <3> QED BY <1>1, <1>5, <3>1
  <2>2. \A k \in Nat : Taken # 2 * k /\ (Taken = 2 * k + 1 => k = m)
    BY <1>3
  <2> QED BY <1>5, <1>6, <2>1, <2>2 DEF HeldInLine
<1> QED BY <1>7, <1>8, <1>9 DEF Line

LEMMA ClientLine ==
  ASSUME NumRpi = 1, IInv, Line, NEW r \in Rpi, Client(r) PROVE Line'
<1>1. r = 0
  BY LineFacts
<1>2. CreditReturned(0) \/ ResultReturned(0)
  BY <1>1, ClientStep
<1> QED BY <1>2, ReturnCreditLine, ReturnResultLine

LEMMA StepLine ==
  ASSUME NumRpi = 1, IInv, LineInv, [Next]_vars PROVE LineInv'
<1>1. CASE reader.at = "done"
  BY <1>1 DEF LineInv, Next, vars, Constructor, StartThreads, Register, InitializeSecondaryResources,
     Writer, WriterPick, WriterAssign, WriterAdd, WriterStop, Client, Reader, ReaderTake,
     ReaderRelease, ReaderProcess, ReaderErase, ReaderCheck, CleanUp, Finished, IInv, Typed,
     StartTogether
<1>2. CASE reader.at # "done"
  <2> USE <1>2
  <2>1. Line
    BY DEF LineInv
  <2>2. CASE WriterAssign \/ WriterAdd \/ ReaderTake \/ ReaderRelease \/ \E r \in Rpi : Client(r)
    BY <2>1, <2>2, AssignLine, AddLine, TakeLine, ReleaseLine, ClientLine DEF LineInv
  <2>3. CASE WriterPick \/ WriterStop \/ Constructor \/ UNCHANGED vars
    <3>1. UNCHANGED <<clients, dropped, held, count>>
      BY <2>3 DEF WriterPick, Pool!Ask, WriterStop, Constructor, StartThreads, Register,
         InitializeSecondaryResources, Pool!Join, vars, pool, ids
    <3>2. (writer.at # "add" /\ writer'.at # "add") \/ writer' = writer
      BY <2>3 DEF WriterPick, WriterStop, Constructor, StartThreads, Register,
         InitializeSecondaryResources, vars, IInv, Typed, WriterTyped
    <3>3. reader' = reader \/ (reader.at = "start" /\ reader'.at = "take")
      <4>1. CASE StartThreads
        BY <4>1 DEF StartThreads, IInv, Typed, ReaderTyped, StartTogether
      <4>2. CASE WriterPick \/ WriterStop \/ UNCHANGED vars
        <5>1. reader' = reader
          BY <4>2 DEF WriterPick, WriterStop, vars
        <5> QED BY <5>1
      <4>3. CASE \E r \in Rpi : Register(r) \/ InitializeSecondaryResources(r)
        <5>1. reader' = reader
          BY <4>3 DEF Register, InitializeSecondaryResources
        <5> QED BY <5>1
      <4> QED BY <2>3, <4>1, <4>2, <4>3 DEF Constructor
    <3>4. UNCHANGED Given
      BY <3>1, <3>2 DEF Given
    <3>5. Line'
      BY <2>1, <3>1, <3>2, <3>3, <3>4, LineKept DEF Busy
    <3> QED BY <3>5 DEF LineInv
  <2>4. CASE ReaderProcess \/ ReaderErase \/ ReaderCheck
    <3>1. UNCHANGED <<clients, dropped, held, count, writer>>
      BY <2>4 DEF ReaderProcess, ReaderErase, ReaderCheck, pool, ids
    <3>2. UNCHANGED Given
      BY <3>1 DEF Given
    <3>3. \/ reader.at = "decode" /\ ~IsCredit(reader.item) /\ reader'.item = reader.item
             /\ reader'.at \in {"erase", "not found"}
          \/ reader.at # "decode" /\ reader'.at \notin {"decode", "erase"}
      <4>1. DOMAIN reader = {"at", "item", "size"}
        BY DEF IInv, Typed, ReaderTyped
      <4>2. CASE ReaderProcess
        BY <4>1, <4>2 DEF ReaderProcess
      <4>3. CASE ReaderErase
        BY <4>1, <4>3 DEF ReaderErase
      <4>4. CASE ReaderCheck
        BY <4>4 DEF ReaderCheck
      <4> QED BY <2>4, <4>2, <4>3, <4>4
    <3>4. /\ Busy' => Busy /\ reader'.item = reader.item
          /\ (\E k \in Nat : Taken = 2 * k + 1) => (reader'.at = "decode" <=> reader.at = "decode")
      BY <2>1, <3>3, DecodedLine DEF Busy
    <3>5. Line'
      BY <2>1, <3>1, <3>2, <3>4, LineKept
    <3> QED BY <3>5 DEF LineInv
  <2>5. CASE CleanUp
    BY <2>5 DEF CleanUp, LineInv, IInv, Typed, ReaderTyped
  <2>6. CASE Finished
    BY <2>6 DEF Finished
  <2> QED BY <2>2, <2>3, <2>4, <2>5, <2>6 DEF Next, Writer, Reader
<1> QED BY <1>1, <1>2

LEMMA InitLine == ASSUME NumRpi = 1, Init PROVE LineInv
<1>1. /\ count = 0 /\ client_queue[0] = <<>> /\ answering[0] = Nothing /\ result_queue = <<>>
      /\ held[0] = 0 /\ dropped[0] = <<>> /\ writer.at = "start" /\ reader.at = "start"
  BY DEF Init, Rpi, Pool!Init, Clients!Init
<1>2. Len(client_queue[0]) = 0 /\ Len(result_queue) = 0 /\ Len(dropped[0]) = 0
  BY <1>1
<1>3. Given = 0
  BY <1>1 DEF Given
<1>4. Passed = 0
  BY <1>2, <1>3 DEF Passed
<1>5. Sent = 0
  BY <1>1, <1>4 DEF Sent
<1>6. Taken = 0
  BY <1>2, <1>5 DEF Taken
<1>7. IdsInLine /\ ItemsInLine
  BY <1>1, <1>2, <1>4, <1>6 DEF IdsInLine, ItemsInLine, Busy
<1>8. HeldInLine
  BY <1>1, <1>2, <1>6 DEF HeldInLine
<1> QED BY <1>7, <1>8 DEF LineInv, Line

(* An id underway was given out for one of the last Units tasks.           *)
LEMMA UnderwayIsRecent ==
  ASSUME NumRpi = 1, IInv, Line, writer.at = "credit", held[0] < Units,
         NEW n \in IdsUnderway
  PROVE  \E k \in Nat : n = IdOf(k) /\ k < count /\ count <= k + Units
<1>1. /\ Rpi = {0} /\ held[0] \in Nat /\ count \in Nat /\ Units \in Nat
      /\ Len(client_queue[0]) \in Nat /\ Len(result_queue) \in Nat /\ Len(dropped[0]) \in Nat
  BY LineFacts, UnitsAssumption
<1>2. Passed \in Nat /\ Taken \in Nat /\ count = Passed + Len(client_queue[0])
  BY <1>1 DEF Passed, Given, Line, IdsInLine
<1>3. Sent <= 2 * Passed /\ Sent \in Int
  BY <1>2 DEF Sent
<1>4. Taken + Len(result_queue) <= 2 * Passed
  BY <1>1, <1>2, <1>3 DEF Taken
<1>5. \A k \in Nat : Taken <= 2 * k + 2 => count <= k + Units
  <2> SUFFICES ASSUME NEW k \in Nat, Taken <= 2 * k + 2 PROVE count <= k + Units
    OBVIOUS
  <2>1. PICK m \in Nat : Taken = 2 * m \/ Taken = 2 * m + 1
    <3>1. \A j \in Nat : j = 2 * (j \div 2) \/ j = 2 * (j \div 2) + 1
      OBVIOUS
    <3>2. Taken \div 2 \in Nat
      BY <1>2
    <3> QED BY <1>2, <3>1, <3>2
  <2>2. CASE Taken = 2 * m
    <3>1. held[0] = count + Len(dropped[0]) - m
      BY <2>2 DEF Line, HeldInLine
    <3> QED BY <1>1, <2>2, <3>1
  <2>3. CASE Taken = 2 * m + 1
    <3>1. PICK h \in {m, m + 1} : held[0] = count + Len(dropped[0]) - h
      BY <2>3 DEF Line, HeldInLine
    <3> QED BY <1>1, <2>3, <3>1
  <2> QED BY <2>1, <2>2, <2>3
<1>6. \A x, j : j \in Nat /\ j > 0 /\ IsItem(x, j) /\ ~IsCredit(x)
                  => \E k \in Nat : j = 2 * k + 2 /\ x = IdOf(k)
  <2> SUFFICES ASSUME NEW x, NEW j \in Nat, j > 0, IsItem(x, j), ~IsCredit(x)
      PROVE  \E k \in Nat : j = 2 * k + 2 /\ x = IdOf(k)
    OBVIOUS
  <2>1. PICK k \in Nat : j = 2 * k + 1 \/ j = 2 * k + 2
    <3>1. (j - 1) \div 2 \in Nat
          /\ (j = 2 * ((j - 1) \div 2) + 1 \/ j = 2 * ((j - 1) \div 2) + 2)
      OBVIOUS
    <3> QED BY <3>1
  <2>2. j # 2 * k + 1
    BY <1>1, IdFacts DEF IsItem
  <2> QED BY <2>1, <2>2 DEF IsItem
<1>7. CASE n \in Place(0)
  <2>1. CASE n \in Range(client_queue[0])
    <3>1. PICK i \in 1..Len(client_queue[0]) : client_queue[0][i] = n
      BY <2>1, LineFacts, LenProperties DEF Range
    <3>2. PICK k \in Nat : k = Passed + i - 1
      BY <1>1, <1>2, <3>1
    <3>3. n = IdOf(k)
      BY <3>1, <3>2 DEF Line, IdsInLine
    <3>4. k < count /\ Taken <= 2 * k + 2
      BY <1>1, <1>2, <1>4, <3>1, <3>2
    <3> QED BY <1>5, <3>3, <3>4
  <2>2. CASE n = answering[0] /\ answering[0] # Nothing
    <3>1. Passed > 0 /\ n = IdOf(Passed - 1)
      BY <2>2 DEF Line, IdsInLine
    <3>2. PICK k \in Nat : k = Passed - 1
      BY <1>2, <3>1
    <3>3. k < count /\ Taken <= 2 * k + 2
      BY <1>1, <1>2, <1>4, <3>2
    <3> QED BY <1>5, <3>1, <3>2, <3>3
  <2> QED BY <1>7, <2>1, <2>2 DEF Place
<1>8. CASE n \in Range(result_queue) /\ ~IsCredit(n)
  <2>1. PICK i \in 1..Len(result_queue) : result_queue[i] = n
    BY <1>8, LineFacts, LenProperties DEF Range
  <2>2. IsItem(n, Taken + i)
    BY <2>1 DEF Line, ItemsInLine
  <2>3. PICK k \in Nat : Taken + i = 2 * k + 2 /\ n = IdOf(k)
    BY <1>1, <1>2, <1>6, <1>8, <2>1, <2>2
  <2>4. k < count /\ Taken <= 2 * k + 2
    BY <1>1, <1>2, <1>4, <2>1, <2>3
  <2> QED BY <1>5, <2>3, <2>4
<1>9. CASE Busy /\ ~IsCredit(reader.item) /\ n = reader.item
  <2>1. IsItem(n, Taken) /\ Taken > 0
    BY <1>9 DEF Line, ItemsInLine
  <2>2. PICK k \in Nat : Taken = 2 * k + 2 /\ n = IdOf(k)
    BY <1>2, <1>6, <1>9, <2>1
  <2>3. k < count /\ Taken <= 2 * k + 2
    BY <1>1, <1>2, <1>4, <2>2
  <2> QED BY <1>5, <2>2, <2>3
<1> QED BY <1>1, <1>7, <1>8, <1>9 DEF IdsUnderway, Busy

(* Two tasks given out fewer than IdSpan tasks apart have different ids.   *)
LEMMA IdsApart ==
  ASSUME NEW k \in Nat, NEW c \in Nat, k < c, c < k + IdSpan
  PROVE  IdOf(k) # IdOf(c)
<1>1. IdSpan \in Nat \ {0} /\ IdStart \in Nat
  BY NumRpiAssumption, IdsAssumption, IdStartAssumption DEF IdSpan
<1>2. PICK s \in Nat \ {0} : s = IdSpan
  BY <1>1
<1>3. ASSUME NEW n \in Nat PROVE (n % s) + s * (n \div s) = n /\ n \div s \in Int /\ n % s \in Nat
  <2>1. (n % s) + s * (n \div s) = n
    BY <1>2
  <2>2. n \div s \in Int /\ n % s \in Nat
    BY <1>2
  <2> QED BY <2>1, <2>2
<1>4. k % s # c % s
  <2> SUFFICES ASSUME k % s = c % s PROVE FALSE
    OBVIOUS
  <2>1. PICK p \in Int, q \in Int, a \in Nat :
          a + s * p = k /\ a + s * q = c
    BY <1>3, ZenonT(30)
  <2>2. PICK d \in Int : d = q - p
    BY <2>1
  <2>3. s * d = s * q - s * p
    BY <1>2, <2>1, <2>2
  <2>4. PICK x \in Int, y \in Int : x = s * p /\ y = s * q
    BY <1>2, <2>1
  <2>5. 0 < s * d /\ s * d < s
    BY <1>1, <1>2, <2>1, <2>3, <2>4
  <2>6. CASE d >= 1
    BY <1>2, <2>5, <2>6
  <2>7. CASE d <= 0
    BY <1>2, <2>5, <2>7
  <2> QED BY <2>6, <2>7
<1> QED BY <1>1, <1>2, <1>3, <1>4 DEF IdOf

LEMMA LineFresh ==
  ASSUME NumRpi = 1, Units < IdSpan, IInv, JobInv, Kept, LineInv
  PROVE  IdIsFree
<1> SUFFICES ASSUME writer.at = "credit", CreditIsThere
    PROVE  IdStart + (count % IdSpan) \notin IdsUnderway
  BY DEF IdIsFree
<1>1. Rpi = {0} /\ count \in Nat
  BY LineFacts
<1>2. held[0] < Units
  BY <1>1 DEF CreditIsThere, IInv, Typed, PoolTyped
<1>3. reader.at # "done"
  BY NothingUnderway DEF Kept, Fate, InHand
<1>4. Line
  BY <1>3 DEF LineInv
<1>5. Units \in Nat /\ IdSpan \in Nat
  BY UnitsAssumption, NumRpiAssumption, IdsAssumption DEF IdSpan
<1>6. ASSUME NEW n \in IdsUnderway PROVE n # IdOf(count)
  <2>1. PICK k \in Nat : n = IdOf(k) /\ k < count /\ count <= k + Units
    BY <1>2, <1>4, UnderwayIsRecent
  <2>2. count < k + IdSpan
    BY <1>1, <1>5, <2>1
  <2> QED BY <1>1, <2>1, <2>2, IdsApart
<1> QED BY <1>6 DEF IdOf

(* With one node the ids never run out, however many tasks there are, as   *)
(* long as a node has fewer credits than ids: the credit of a task comes   *)
(* back before its result, but the result is the very next item.  With as  *)
(* many credits as ids the next task would take the id of that result.     *)
THEOREM OneNode ==
  ASSUME NumRpi = 1, Units < IdsPerRpi
  PROVE  Spec => [](NoTaskLost /\ DoneBothChildren /\ finished \subseteq computed /\ NoneInVain)
<1>1. Units < IdSpan
  BY IdsAssumption DEF IdSpan
<1>2. Init => Kept /\ LineInv
  BY InitKept, InitLine
<1>3. IInv /\ JobInv /\ Kept /\ LineInv /\ [Next]_vars => Kept' /\ LineInv'
  <2> SUFFICES ASSUME IInv, JobInv, Kept, LineInv, [Next]_vars PROVE Kept' /\ LineInv'
    OBVIOUS
  <2>1. LineInv'
    BY StepLine
  <2>2. WriterAssign => FreshId
    BY <1>1, LineFresh, FreeIsFresh
  <2> QED BY <2>1, <2>2, StepKept
<1>4. IInv /\ JobInv /\ Kept /\ LineInv => IdIsFree
  BY <1>1, LineFresh
<1> QED BY <1>2, <1>3, <1>4, SpecJobInv, FreeIds, PTL DEF Spec, FreeIdsSuffice
=============================================================================
