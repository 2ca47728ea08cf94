--------------------------- MODULE ServerRpcProofs ---------------------------
(***************************************************************************)
(* Proofs about ServerRpc for any window, any task ids and any number of   *)
(* late add_resource calls.  The buffers that are in use form one queue,   *)
(* from the reading side to the writing side; so do the requests, from the *)
(* primary's sending to its receiving.  Every action adds to the end of    *)
(* such a queue, takes from its front, or only moves a boundary in it.     *)
(***************************************************************************)
EXTENDS ServerRpc, QueueLemmas

InUse == Pipeline \o Holding(reader.buffer)

(* Of a thread's two buffers, the one that was selected last.              *)
Latest == [t \in Threads |-> (last_buffer[t] % 2) * 4 + t]

Used == [t \in Threads |-> (IF t \in Range(InUse) THEN 1 ELSE 0)
                           + (IF t + 4 \in Range(InUse) THEN 1 ELSE 0)]

(* A buffer is free, in use, or will be free when a late add_resource is   *)
(* made.                                                                   *)
TwoPerThread == \A t \in Threads : resources[t] + releasing[t] + Used[t] = 2

Free == resources[0] + resources[1] + resources[2] + resources[3]

EightInAll == Free + Releasing + Len(InUse) = 8

(* A buffer in use that was not the last of its thread to be selected has  *)
(* the one that was behind it.                                             *)
LatestBehind ==
    \A n \in DOMAIN InUse :
        \/ InUse[n] = Latest[Thread(InUse[n])]
        \/ \E m \in DOMAIN InUse : m > n /\ InUse[m] = Latest[Thread(InUse[n])]

Counters == /\ resources \in [Threads -> 0..2]
            /\ last_buffer \in [Threads -> 0..(LastBufferWrap - 1)]
            /\ releasing \in [Threads -> 0..2]

Ring == /\ InUse \in Seq(Buffers)
        /\ IsInjective(InUse)
        /\ TwoPerThread /\ EightInAll /\ LatestBehind
-----------------------------------------------------------------------------
LEMMA BufferFacts ==
  /\ \A t \in Threads : t \in Buffers /\ t + 4 \in Buffers /\ Thread(t) = t /\ Thread(t + 4) = t
  /\ \A b \in Buffers : Thread(b) \in Threads /\ (b = Thread(b) \/ b = Thread(b) + 4)
  /\ NoBuffer \notin Buffers
BY DEF Buffers, Threads, Thread, NoBuffer

(* The buffer that is selected is not the one that was selected last.      *)
LEMMA SelectFacts ==
  ASSUME Counters, NEW b \in Buffers, SelectNextBuffer(b)
  PROVE  \E t \in Threads :
            /\ resources[t] > 0 /\ \A u \in Threads : resources[u] <= resources[t]
            /\ Thread(b) = t /\ b # Latest[t]
            /\ resources' = [resources EXCEPT ![t] = @ - 1]
            /\ last_buffer' \in [Threads -> 0..(LastBufferWrap - 1)]
            /\ Latest'[t] = b
            /\ \A u \in Threads : u # t => Latest'[u] = Latest[u]
<1>1. PICK t \in Threads :
            /\ resources[t] > 0 /\ MostFree(t)
            /\ b = NextOfTwo(t) * 4 + t
            /\ resources' = [resources EXCEPT ![t] = @ - 1]
            /\ last_buffer' = [last_buffer EXCEPT ![t] = (@ + 1) % LastBufferWrap]
  BY DEF SelectNextBuffer
<1> DEFINE x == last_buffer[t]
           y == (x + 1) % LastBufferWrap
<1>2. x \in Nat /\ x < LastBufferWrap /\ LastBufferWrap \in Nat /\ LastBufferWrap % 2 = 0
  BY LastBufferWrapAssumption DEF Counters
<1> HIDE DEF x
<1>3. y \in 0..(LastBufferWrap - 1) /\ y % 2 # x % 2 /\ y % 2 \in {0, 1} /\ x % 2 \in {0, 1}
  <2>1. CASE x + 1 < LastBufferWrap
    <3>1. y = x + 1
      BY <1>2, <2>1
    <3> QED BY <1>2, <2>1, <3>1
  <2>2. CASE x + 1 = LastBufferWrap
    <3>1. y = 0
      BY <1>2, <2>2
    <3> QED BY <1>2, <2>2, <3>1
  <2> QED BY <1>2, <2>1, <2>2
<1>4. \A u \in Threads : last_buffer'[u] = IF u = t THEN y ELSE last_buffer[u]
  BY <1>1 DEF Counters, x
<1>5. last_buffer' \in [Threads -> 0..(LastBufferWrap - 1)]
  BY <1>1, <1>3 DEF Counters, x
<1>6. b = (y % 2) * 4 + t /\ Latest[t] = (x % 2) * 4 + t
  BY <1>1 DEF NextOfTwo, Latest, x
<1> HIDE DEF y
<1>7. Latest'[t] = b /\ \A u \in Threads : u # t => Latest'[u] = Latest[u]
  BY <1>4, <1>6 DEF Latest
<1>8. Thread(b) = t /\ b # Latest[t]
  BY <1>3, <1>6 DEF Thread, Threads
<1> QED BY <1>1, <1>5, <1>7, <1>8 DEF MostFree

(* What moves no buffer into or out of use keeps the ring.                 *)
LEMMA RingKept ==
  ASSUME Ring, InUse' = InUse, UNCHANGED <<resources, last_buffer, releasing>>
  PROVE  Ring'
BY ZenonT(30) DEF Ring, TwoPerThread, EightInAll, LatestBehind, Used, Free, Releasing, Latest

(* Sums over the four threads, when one term changes.                      *)
Sum(f) == f[0] + f[1] + f[2] + f[3]

LEMMA SumChanges ==
  ASSUME NEW f \in [Threads -> Int], NEW g \in [Threads -> Int], NEW t \in Threads,
         \A u \in Threads : u # t => g[u] = f[u]
  PROVE  Sum(f) \in Int /\ Sum(g) \in Int /\ Sum(g) - Sum(f) = g[t] - f[t]
<1>1. t \in {0, 1, 2, 3} /\ \A u \in {0, 1, 2, 3} : f[u] \in Int /\ g[u] \in Int
  BY DEF Threads
<1> QED BY <1>1 DEF Sum, Threads

LEMMA UsedFacts ==
  /\ Used \in [Threads -> 0..2]
  /\ \A t \in Threads : Used[t] = (IF t \in Range(InUse) THEN 1 ELSE 0)
                                 + (IF t + 4 \in Range(InUse) THEN 1 ELSE 0)
BY DEF Used

LEMMA Counted ==
  ASSUME Counters
  PROVE  /\ resources \in [Threads -> Int] /\ releasing \in [Threads -> Int]
         /\ Free = Sum(resources) /\ Releasing = Sum(releasing)
         /\ \A t \in Threads : resources[t] \in 0..2 /\ releasing[t] \in Nat /\ Used[t] \in 0..2
<1>1. resources \in [Threads -> 0..2] /\ releasing \in [Threads -> 0..2]
  BY DEF Counters
<1>2. resources \in [Threads -> Int] /\ releasing \in [Threads -> Int]
  BY <1>1
<1> QED BY <1>1, <1>2, UsedFacts DEF Free, Releasing, Sum

(* NextRead: the free buffer that is selected is not in use, and becomes   *)
(* the last in use.                                                        *)
LEMMA RingSelect ==
  ASSUME Ring, Counters, NEW b \in Buffers, SelectNextBuffer(b), InUse' = Append(InUse, b),
         UNCHANGED releasing
  PROVE  Ring' /\ Counters' /\ b \notin Range(InUse)
<1>1. PICK t \in Threads :
            /\ resources[t] > 0
            /\ Thread(b) = t /\ b # Latest[t]
            /\ resources' = [resources EXCEPT ![t] = @ - 1]
            /\ last_buffer' \in [Threads -> 0..(LastBufferWrap - 1)]
            /\ Latest'[t] = b
            /\ \A u \in Threads : u # t => Latest'[u] = Latest[u]
  BY SelectFacts
<1>2. resources[t] + releasing[t] + Used[t] = 2 /\ resources[t] \in 1..2 /\ releasing[t] \in Nat
  BY <1>1, Counted DEF Ring, TwoPerThread
<1>3. /\ Len(InUse) \in Nat /\ DOMAIN InUse = 1..Len(InUse)
      /\ DOMAIN InUse' = 1..(Len(InUse) + 1) /\ Len(InUse') = Len(InUse) + 1
      /\ \A n \in 1..Len(InUse) : InUse'[n] = InUse[n] /\ InUse[n] \in Buffers
      /\ InUse'[Len(InUse) + 1] = b
      /\ InUse' \in Seq(Buffers)
  BY AppendProperties, LenProperties, ElementOfSeq DEF Ring
<1>4. b \notin Range(InUse)
  <2> SUFFICES ASSUME b \in Range(InUse) PROVE FALSE
    OBVIOUS
  <2>1. PICK n \in DOMAIN InUse : InUse[n] = b
    BY DEF Range
  <2>2. Latest[t] \in Range(InUse)
    BY <1>1, <2>1 DEF Ring, LatestBehind, Range
  <2>3. (b = t /\ Latest[t] = t + 4) \/ (b = t + 4 /\ Latest[t] = t)
    <3>1. Latest[t] = t \/ Latest[t] = t + 4
      <4>1. last_buffer[t] % 2 \in {0, 1}
        BY LastBufferWrapAssumption DEF Counters
      <4> QED BY <4>1 DEF Latest, Threads
    <3> QED BY <1>1, <3>1, BufferFacts
  <2>4. Used[t] = 2
    <3>1. t \in Range(InUse) /\ t + 4 \in Range(InUse)
      BY <2>2, <2>3
    <3> QED BY <3>1 DEF Used
  <2> QED BY <1>2, <2>4
<1>5. IsInjective(InUse') /\ Range(InUse') = Range(InUse) \cup {b}
  BY <1>4, InjectiveAppend DEF Ring
<1>6. Counters'
  <2>1. resources' \in [Threads -> 0..2]
    BY <1>1, <1>2 DEF Counters
  <2> QED BY <1>1, <2>1 DEF Counters, Releasing
<1>7. TwoPerThread'
  <2> SUFFICES ASSUME NEW u \in Threads
               PROVE  resources'[u] + releasing'[u] + Used'[u] = 2
    BY DEF TwoPerThread
  <2>1. resources[u] + releasing[u] + Used[u] = 2 /\ Used[u] \in 0..2
        /\ resources[u] \in 0..2 /\ releasing[u] \in Nat
    BY Counted DEF Ring, TwoPerThread
  <2>2. resources'[u] = IF u = t THEN resources[u] - 1 ELSE resources[u]
    BY <1>1 DEF Counters
  <2>3. Used'[u] = IF u = t THEN Used[u] + 1 ELSE Used[u]
    <3>1. b \in {u, u + 4} <=> u = t
      BY <1>1, BufferFacts
    <3>2. \A x \in {u, u + 4} : x \in Range(InUse') <=> x \in Range(InUse) \/ x = b
      BY <1>5
    <3>3. Used'[u] = (IF u \in Range(InUse') THEN 1 ELSE 0) + (IF u + 4 \in Range(InUse') THEN 1 ELSE 0)
      BY DEF Used
    <3> QED BY <1>4, <3>1, <3>2, <3>3, UsedFacts, SMTT(30)
  <2> QED BY <2>1, <2>2, <2>3
<1>8. EightInAll'
  <2>1. resources' \in [Threads -> Int] /\ resources'[t] - resources[t] = -1
    BY <1>1, <1>2, <1>6 DEF Counters
  <2>2. Sum(resources') - Sum(resources) = -1 /\ Sum(resources') \in Int /\ Sum(resources) \in Int
    BY <1>1, <2>1, Counted, SumChanges, ZenonT(30)
  <2>3. Sum(releasing) \in Int
    BY Counted, SumChanges
  <2>4. Free' = Sum(resources') /\ Releasing' = Sum(releasing)
    BY DEF Free, Releasing, Sum
  <2> QED BY <1>3, <2>2, <2>3, <2>4, Counted DEF Ring, EightInAll
<1>9. LatestBehind'
  <2> SUFFICES ASSUME NEW n \in DOMAIN InUse'
               PROVE  \/ InUse'[n] = Latest'[Thread(InUse'[n])]
                      \/ \E m \in DOMAIN InUse' : m > n /\ InUse'[m] = Latest'[Thread(InUse'[n])]
    BY DEF LatestBehind
  <2>1. CASE n = Len(InUse) + 1
    BY <1>1, <1>3, <2>1
  <2>2. CASE n \in DOMAIN InUse /\ Thread(InUse[n]) = t
    <3>1. Len(InUse) + 1 \in DOMAIN InUse' /\ Len(InUse) + 1 > n
      BY <1>3, <2>2
    <3> QED BY <1>1, <1>3, <2>2, <3>1
  <2>3. CASE n \in DOMAIN InUse /\ Thread(InUse[n]) # t
    <3>1. Thread(InUse[n]) \in Threads /\ InUse'[n] = InUse[n]
      BY <1>3, <2>3, BufferFacts
    <3>2. Latest'[Thread(InUse[n])] = Latest[Thread(InUse[n])]
      BY <1>1, <2>3, <3>1
    <3> QED BY <1>3, <2>3, <3>1, <3>2 DEF Ring, LatestBehind
  <2> QED BY <1>3, <2>1, <2>2, <2>3
<1> QED BY <1>3, <1>4, <1>5, <1>6, <1>7, <1>8, <1>9 DEF Ring

(* NextWrite: the first buffer leaves, and is free once it is released.    *)
LEMMA RingPop ==
  ASSUME Ring, Counters, InUse # <<>>, InUse' = Tail(InUse),
         releasing' = [releasing EXCEPT ![Thread(Head(InUse))] = @ + 1],
         UNCHANGED <<resources, last_buffer>>
  PROVE  Ring' /\ Counters' /\ Releasing' = Releasing + 1
<1> DEFINE b == Head(InUse)
           t == Thread(b)
<1>1. /\ b \in Buffers /\ InUse' \in Seq(Buffers)
      /\ b \notin Range(InUse') /\ IsInjective(InUse') /\ Range(InUse') = Range(InUse) \ {b}
  BY HeadTailProperties, InjectiveTail DEF Ring
<1>2. /\ Len(InUse) \in Nat \ {0} /\ DOMAIN InUse = 1..Len(InUse)
      /\ DOMAIN InUse' = 1..(Len(InUse) - 1) /\ Len(InUse') = Len(InUse) - 1
      /\ \A n \in 1..(Len(InUse) - 1) : InUse'[n] = InUse[n + 1]
      /\ b = InUse[1]
  BY HeadTailProperties, LenProperties, EmptySeq DEF Ring
<1>3. t \in Threads /\ (b = t \/ b = t + 4)
  BY <1>1, BufferFacts
<1>4. b \in Range(InUse)
  BY <1>2 DEF Range
<1> HIDE DEF b
<1>5. \A u \in Threads : releasing'[u] = IF u = t THEN releasing[u] + 1 ELSE releasing[u]
  BY DEF Counters, b
<1> HIDE DEF t
<1>6. Releasing' = Releasing + 1
  <2>1. releasing' \in [Threads -> Int]
    BY Counted, <1>3 DEF t, b
  <2>2. Sum(releasing') - Sum(releasing) = releasing'[t] - releasing[t]
        /\ Sum(releasing') \in Int /\ Sum(releasing) \in Int
    BY <1>3, <1>5, <2>1, Counted, SumChanges
  <2>3. Releasing' = Sum(releasing')
    BY DEF Releasing, Sum
  <2> QED BY <1>3, <1>5, <2>2, <2>3, Counted
<1>7. TwoPerThread'
  <2> SUFFICES ASSUME NEW u \in Threads
               PROVE  resources'[u] + releasing'[u] + Used'[u] = 2
    BY DEF TwoPerThread
  <2>1. resources[u] + releasing[u] + Used[u] = 2 /\ Used[u] \in 0..2
        /\ resources[u] \in 0..2 /\ releasing[u] \in Nat
    BY Counted DEF Ring, TwoPerThread
  <2>2. Used'[u] = IF u = t THEN Used[u] - 1 ELSE Used[u]
    <3>1. b \in {u, u + 4} <=> u = t
      BY <1>1, BufferFacts DEF t
    <3>2. \A x \in {u, u + 4} : x \in Range(InUse') <=> x \in Range(InUse) /\ x # b
      BY <1>1
    <3>3. Used'[u] = (IF u \in Range(InUse') THEN 1 ELSE 0) + (IF u + 4 \in Range(InUse') THEN 1 ELSE 0)
      BY DEF Used
    <3>4. u # u + 4
      BY DEF Threads
    <3> QED BY <1>3, <1>4, <3>1, <3>2, <3>3, <3>4, UsedFacts
  <2> QED BY <1>5, <2>1, <2>2
<1>8. Counters'
  <2>1. ASSUME NEW u \in Threads PROVE releasing'[u] \in 0..2
    <3>1. Used'[u] \in 0..2
      BY DEF Used
    <3>2. resources[u] \in 0..2 /\ releasing'[u] \in Nat
      BY <1>5, Counted
    <3>3. resources[u] + releasing'[u] + Used'[u] = 2
      BY <1>7 DEF TwoPerThread
    <3> QED BY <3>1, <3>2, <3>3
  <2>2. releasing' \in [Threads -> 0..2]
    BY <2>1, <1>3 DEF Counters, t, b
  <2> QED BY <2>2 DEF Counters
<1>9. EightInAll'
  <2>1. Sum(resources) \in Int /\ Sum(releasing) \in Int
    BY <1>3, Counted, SumChanges
  <2>2. Free' = Free
    BY DEF Free
  <2> QED BY <1>2, <1>6, <2>1, <2>2, Counted DEF Ring, EightInAll
<1>10. LatestBehind'
  <2> SUFFICES ASSUME NEW n \in DOMAIN InUse'
               PROVE  \/ InUse'[n] = Latest'[Thread(InUse'[n])]
                      \/ \E m \in DOMAIN InUse' : m > n /\ InUse'[m] = Latest'[Thread(InUse'[n])]
    BY DEF LatestBehind
  <2>1. Latest' = Latest
    BY DEF Latest
  <2>2. n + 1 \in DOMAIN InUse /\ InUse'[n] = InUse[n + 1] /\ n \in Nat
    BY <1>2
  <2>3. CASE InUse[n + 1] = Latest[Thread(InUse[n + 1])]
    BY <2>1, <2>2, <2>3
  <2>4. CASE \E m \in DOMAIN InUse : m > n + 1 /\ InUse[m] = Latest[Thread(InUse[n + 1])]
    <3>1. PICK m \in DOMAIN InUse : m > n + 1 /\ InUse[m] = Latest[Thread(InUse[n + 1])]
      BY <2>4
    <3>2. m - 1 \in DOMAIN InUse' /\ m - 1 > n /\ InUse'[m - 1] = InUse[m]
      BY <1>2, <2>2, <3>1
    <3> QED BY <2>1, <2>2, <3>1, <3>2
  <2> QED BY <2>2, <2>3, <2>4 DEF Ring, LatestBehind
<1> QED BY <1>1, <1>6, <1>7, <1>8, <1>9, <1>10 DEF Ring

(* add_resource.                                                           *)
LEMMA RingRelease ==
  ASSUME Ring, Counters, NEW t \in Threads, releasing[t] > 0, AddResource(t),
         releasing' = [releasing EXCEPT ![t] = @ - 1], InUse' = InUse, UNCHANGED last_buffer
  PROVE  Ring' /\ Counters' /\ Releasing' = Releasing - 1
<1>1. /\ \A u \in Threads : releasing'[u] = IF u = t THEN releasing[u] - 1 ELSE releasing[u]
      /\ \A u \in Threads : resources'[u] = IF u = t THEN resources[u] + 1 ELSE resources[u]
  BY DEF Counters, AddResource
<1>2. \A u \in Threads : /\ resources[u] + releasing[u] + Used[u] = 2 /\ Used[u] \in 0..2
                         /\ resources[u] \in 0..2 /\ releasing[u] \in Nat
  BY Counted DEF Ring, TwoPerThread
<1>3. Used' = Used /\ Latest' = Latest
  BY DEF Used, Latest
<1>4. TwoPerThread'
  <2>1. \A u \in Threads : resources'[u] + releasing'[u] + Used[u] = 2
    BY <1>1, <1>2
  <2> QED BY <1>3, <2>1 DEF TwoPerThread
<1>5. resources' \in [Threads -> 0..2] /\ releasing' \in [Threads -> 0..2]
  <2>1. resources[t] + 1 \in 0..2
    BY <1>2
  <2>2. releasing[t] - 1 \in 0..2
    BY DEF Counters
  <2> QED BY <2>1, <2>2 DEF Counters, AddResource
<1>6. Releasing' = Releasing - 1 /\ Free' = Free + 1 /\ Releasing \in Int /\ Free \in Int
  <2>1. resources' \in [Threads -> Int] /\ releasing' \in [Threads -> Int]
    BY <1>5
  <2>2. /\ Sum(releasing') - Sum(releasing) = releasing'[t] - releasing[t]
        /\ Sum(releasing') \in Int /\ Sum(releasing) \in Int
    BY <1>1, <2>1, Counted, SumChanges
  <2>3. /\ Sum(resources') - Sum(resources) = resources'[t] - resources[t]
        /\ Sum(resources') \in Int /\ Sum(resources) \in Int
    BY <1>1, <2>1, Counted, SumChanges
  <2>4. Releasing' = Sum(releasing') /\ Free' = Sum(resources')
    BY DEF Releasing, Free, Sum
  <2>5. releasing'[t] - releasing[t] = -1 /\ resources'[t] - resources[t] = 1
    BY <1>1, <1>2
  <2>6. Free = Sum(resources) /\ Releasing = Sum(releasing)
    BY Counted
  <2> QED BY <2>2, <2>3, <2>4, <2>5, <2>6
<1>7. Counters'
  BY <1>5 DEF Counters
<1>8. EightInAll'
  <2>1. Len(InUse) \in Nat
    BY LenProperties DEF Ring
  <2> QED BY <1>6, <2>1 DEF Ring, EightInAll
<1>9. LatestBehind'
  BY <1>3 DEF Ring, LatestBehind
<1> QED BY <1>4, <1>6, <1>7, <1>8, <1>9 DEF Ring
-----------------------------------------------------------------------------
Id == TaskIds \cup {FinalId}

(* The requests from their sending to their answer, and what they should   *)
(* be.                                                                     *)
Requests == to_client \o Tasks \o Received \o to_server

Expected == unanswered \o (IF closed THEN <<FinalId>> ELSE <<>>)

(* Who holds a buffer.                                                     *)
Shape ==
    /\ reader.buffer = NoBuffer <=> reader.at \in {"select", "stuck"}
    /\ compute.buffer = NoBuffer <=> compute.at # "computing"
    /\ writer.buffer = NoBuffer <=> writer.at # "writing"

(* The request -1 is the last, and the compute thread has ended when it is *)
(* queued.                                                                 *)
StopShape ==
    /\ closed => unanswered = <<>>
    /\ reader.at \in {"stop", "join"} => reader.id = FinalId
    /\ reader.at = "process" /\ reader.id = FinalId => compute.at = "done"
    /\ \A b \in Range(output_queue) : data_task[b] \in TaskIds
    /\ compute.buffer # NoBuffer => data_task[compute.buffer] \in TaskIds
    /\ compute.at # "done" => \A b \in Range(input_queue) : data_task[b] \in TaskIds

IInv == TypeOK /\ Counters /\ Shape /\ Ring /\ StopShape /\ PipelineInOrder
-----------------------------------------------------------------------------
(* The task ids in the buffers of a queue, when a buffer is added with its *)
(* id or taken with it.                                                    *)
TasksOf(p, d) == [n \in DOMAIN p |-> d[p[n]]]

LEMMA TasksOfQueue ==
  ASSUME NEW p \in Seq(Buffers), NEW d \in [Buffers -> Id]
  PROVE  /\ TasksOf(p, d) \in Seq(Id) /\ Len(TasksOf(p, d)) = Len(p)
         /\ \A n \in 1..Len(p) : TasksOf(p, d)[n] = d[p[n]]
         /\ DOMAIN TasksOf(p, d) = 1..Len(p)
<1>1. Len(p) \in Nat /\ DOMAIN p = 1..Len(p) /\ \A n \in 1..Len(p) : p[n] \in Buffers
  BY LenProperties, ElementOfSeq
<1>2. TasksOf(p, d) \in [1..Len(p) -> Id]
  BY <1>1 DEF TasksOf
<1> QED BY <1>1, <1>2 DEF TasksOf

LEMMA TasksOfAppend ==
  ASSUME NEW p \in Seq(Buffers), NEW d \in [Buffers -> Id],
         NEW b \in Buffers, b \notin Range(p), NEW x \in Id
  PROVE  TasksOf(Append(p, b), [d EXCEPT ![b] = x]) = Append(TasksOf(p, d), x)
<1> DEFINE q == Append(p, b)
           e == [d EXCEPT ![b] = x]
           s == TasksOf(q, e)
           t == Append(TasksOf(p, d), x)
<1>1. /\ q \in Seq(Buffers) /\ Len(q) = Len(p) + 1 /\ Len(p) \in Nat /\ DOMAIN p = 1..Len(p)
      /\ \A n \in 1..Len(p) : q[n] = p[n] /\ p[n] \in Buffers /\ p[n] # b
      /\ q[Len(p) + 1] = b
  BY AppendProperties, LenProperties, ElementOfSeq DEF Range
<1>2. e \in [Buffers -> Id] /\ \A n \in 1..Len(p) : e[p[n]] = d[p[n]]
  BY <1>1
<1>3. e[b] = x
  OBVIOUS
<1> HIDE DEF q, e
<1>4. s \in Seq(Id) /\ Len(s) = Len(p) + 1 /\ \A n \in 1..(Len(p) + 1) : s[n] = e[q[n]]
  BY <1>1, <1>2, TasksOfQueue
<1>5. /\ t \in Seq(Id) /\ Len(t) = Len(p) + 1 /\ t[Len(p) + 1] = x
      /\ \A n \in 1..Len(p) : t[n] = d[p[n]]
  <2> DEFINE u == TasksOf(p, d)
  <2>1. u \in Seq(Id) /\ Len(u) = Len(p) /\ \A n \in 1..Len(p) : u[n] = d[p[n]]
    BY TasksOfQueue
  <2> HIDE DEF u
  <2>2. /\ Append(u, x) \in Seq(Id) /\ Len(Append(u, x)) = Len(p) + 1 /\ Append(u, x)[Len(p) + 1] = x
        /\ \A n \in 1..Len(p) : Append(u, x)[n] = u[n]
    BY <2>1, AppendProperties
  <2> QED BY <2>1, <2>2 DEF u
<1> HIDE DEF s, t
<1>6. \A n \in 1..Len(s) : s[n] = t[n]
  <2> SUFFICES ASSUME NEW n \in 1..(Len(p) + 1) PROVE s[n] = t[n]
    BY <1>4
  <2>1. CASE n = Len(p) + 1
    BY <1>1, <1>3, <1>4, <1>5, <2>1
  <2>2. CASE n \in 1..Len(p)
    BY <1>1, <1>2, <1>4, <1>5, <2>2
  <2> QED BY <1>1, <2>1, <2>2
<1>7. s = t
  BY <1>4, <1>5, <1>6, SeqEqual
<1> QED BY <1>7 DEF s, t, q, e

LEMMA TasksOfTail ==
  ASSUME NEW p \in Seq(Buffers), p # <<>>, IsInjective(p), NEW d \in [Buffers -> Id], NEW x \in Id
  PROVE  /\ TasksOf(Tail(p), [d EXCEPT ![Head(p)] = x]) = Tail(TasksOf(p, d))
         /\ TasksOf(p, d) # <<>> /\ Head(TasksOf(p, d)) = d[Head(p)]
<1> DEFINE q == Tail(p)
           e == [d EXCEPT ![Head(p)] = x]
           u == TasksOf(p, d)
           s == TasksOf(q, e)
           t == Tail(u)
<1>1. /\ q \in Seq(Buffers) /\ Len(q) = Len(p) - 1 /\ Len(p) \in Nat \ {0}
      /\ \A n \in 1..Len(q) : q[n] = p[n + 1] /\ q[n] \in Buffers
      /\ Head(p) = p[1] /\ Head(p) \in Buffers
      /\ Head(p) \notin Range(q)
  BY HeadTailProperties, LenProperties, ElementOfSeq, EmptySeq, InjectiveTail
<1>2. u \in Seq(Id) /\ Len(u) = Len(p) /\ \A n \in 1..Len(p) : u[n] = d[p[n]]
  BY TasksOfQueue
<1>3. e \in [Buffers -> Id] /\ \A n \in 1..Len(q) : e[q[n]] = d[q[n]]
  <2>1. DOMAIN q = 1..Len(q)
    BY <1>1, LenProperties
  <2>2. \A n \in 1..Len(q) : q[n] # Head(p)
    BY <1>1, <2>1 DEF Range
  <2> QED BY <1>1, <2>2
<1> HIDE DEF q, e, u
<1>4. s \in Seq(Id) /\ Len(s) = Len(p) - 1 /\ \A n \in 1..(Len(p) - 1) : s[n] = d[p[n + 1]]
  BY <1>1, <1>3, TasksOfQueue
<1>5. u # <<>> /\ Head(u) = d[Head(p)]
  BY <1>1, <1>2, EmptySeq
<1>6. t \in Seq(Id) /\ Len(t) = Len(p) - 1 /\ \A n \in 1..(Len(p) - 1) : t[n] = d[p[n + 1]]
  BY <1>1, <1>2, <1>5, HeadTailProperties
<1> HIDE DEF s, t
<1>7. s = t
  BY <1>4, <1>6, SeqEqual
<1> QED BY <1>5, <1>7 DEF s, t, q, e, u

(* Moving a boundary of a queue in three parts does not change the queue.  *)
LEMMA MoveOut ==
  ASSUME NEW S, NEW s \in Seq(S), NEW t \in Seq(S), t # <<>>
  PROVE  s \o <<Head(t)>> \o Tail(t) = s \o <<>> \o t
<1>1. Head(t) \in S /\ Tail(t) \in Seq(S) /\ t = <<Head(t)>> \o Tail(t)
  BY TailSeq
<1>2. <<Head(t)>> \in Seq(S)
  BY <1>1
<1> QED BY <1>1, <1>2, ConcatEmptySeq, ConcatAssociative

LEMMA MoveIn ==
  ASSUME NEW S, NEW s \in Seq(S), NEW x \in S, NEW t \in Seq(S)
  PROVE  Append(s, x) \o <<>> \o t = s \o <<x>> \o t
<1>1. Append(s, x) \in Seq(S) /\ Append(s, x) = s \o <<x>>
  BY AppendProperties, AppendIsConcat
<1> QED BY <1>1, ConcatEmptySeq

LEMMA MoveAcross ==
  ASSUME NEW S, NEW s \in Seq(S), NEW t \in Seq(S), t # <<>>
  PROVE  Append(s, Head(t)) \o Tail(t) = s \o t
<1>1. Head(t) \in S /\ Tail(t) \in Seq(S) /\ t = <<Head(t)>> \o Tail(t)
  BY TailSeq
<1>2. <<Head(t)>> \in Seq(S) /\ Append(s, Head(t)) = s \o <<Head(t)>>
  BY <1>1, AppendIsConcat
<1> QED BY <1>1, <1>2, ConcatAssociative
-----------------------------------------------------------------------------
LEMMA HoldingFacts ==
  ASSUME NEW b \in Buffers \cup {NoBuffer}
  PROVE  /\ Holding(b) \in Seq(Buffers)
         /\ Range(Holding(b)) = IF b = NoBuffer THEN {} ELSE {b}
         /\ Len(Holding(b)) = IF b = NoBuffer THEN 0 ELSE 1
<1>1. CASE b = NoBuffer
  BY <1>1, EmptySeq, BufferFacts DEF Holding, Range
<1>2. CASE b # NoBuffer
  <2>1. Holding(b) = <<b>> /\ DOMAIN <<b>> = 1..1 /\ <<b>>[1] = b
    BY <1>2 DEF Holding
  <2> QED BY <1>2, <2>1 DEF Range
<1> QED BY <1>1, <1>2

LEMMA Parts ==
  ASSUME TypeOK
  PROVE  /\ output_queue \in Seq(Buffers) /\ input_queue \in Seq(Buffers)
         /\ Holding(compute.buffer) \in Seq(Buffers) /\ Holding(reader.buffer) \in Seq(Buffers)
         /\ output_queue \o Holding(compute.buffer) \in Seq(Buffers)
         /\ Pipeline \in Seq(Buffers) /\ InUse \in Seq(Buffers)
         /\ data_task \in [Buffers -> Id]
         /\ Tasks = TasksOf(Pipeline, data_task)
         /\ Tasks \in Seq(Id) /\ Len(Tasks) = Len(Pipeline)
         /\ to_client \in Seq(Id) /\ to_server \in Seq(Id)
         /\ Received \in Seq(Id) /\ to_client \o Tasks \in Seq(Id)
         /\ unanswered \in Seq(Id)
<1>1. /\ output_queue \in Seq(Buffers) /\ input_queue \in Seq(Buffers)
      /\ compute.buffer \in Buffers \cup {NoBuffer} /\ reader.buffer \in Buffers \cup {NoBuffer}
      /\ data_task \in [Buffers -> Id] /\ reader.id \in Id
      /\ to_client \in Seq(TaskIds) /\ to_server \in Seq(Id) /\ unanswered \in Seq(TaskIds)
  BY DEF TypeOK, Id
<1>2. Holding(compute.buffer) \in Seq(Buffers) /\ Holding(reader.buffer) \in Seq(Buffers)
  BY <1>1, HoldingFacts
<1>3. output_queue \o Holding(compute.buffer) \in Seq(Buffers)
  BY <1>1, <1>2, ConcatProperties
<1>4. Pipeline \in Seq(Buffers)
  BY <1>1, <1>3, ConcatProperties DEF Pipeline
<1>5. InUse \in Seq(Buffers)
  BY <1>2, <1>4, ConcatProperties DEF InUse
<1>6. Tasks = TasksOf(Pipeline, data_task)
  BY DEF Tasks, TasksOf
<1>7. Tasks \in Seq(Id) /\ Len(Tasks) = Len(Pipeline)
  BY <1>1, <1>4, <1>6, TasksOfQueue
<1>8. to_client \in Seq(Id) /\ unanswered \in Seq(Id)
  BY <1>1, SeqMonotonic DEF Id
<1>9. Received \in Seq(Id)
  BY <1>1, EmptySeq DEF Received
<1> QED BY <1>1, <1>2, <1>3, <1>4, <1>5, <1>6, <1>7, <1>8, <1>9, ConcatProperties

(* No buffer is in two places.                                             *)
LEMMA Apart ==
  ASSUME TypeOK, Ring
  PROVE  /\ IsInjective(Pipeline) /\ IsInjective(output_queue)
         /\ Range(Pipeline) = Range(output_queue) \cup Range(Holding(compute.buffer)) \cup Range(input_queue)
         /\ Range(InUse) = Range(Pipeline) \cup Range(Holding(reader.buffer))
         /\ \A b \in Range(output_queue) : b \notin Range(input_queue)
         /\ reader.buffer # NoBuffer => reader.buffer \notin Range(Pipeline)
         /\ compute.buffer # NoBuffer => /\ compute.buffer \notin Range(output_queue)
                                         /\ compute.buffer \notin Range(input_queue)
                                         /\ compute.buffer \in Range(Pipeline)
<1>1. IsInjective(Pipeline \o Holding(reader.buffer))
  BY DEF Ring, InUse
<1>2. /\ IsInjective(Pipeline)
      /\ \A b \in Range(Pipeline) : b \notin Range(Holding(reader.buffer))
      /\ Range(InUse) = Range(Pipeline) \cup Range(Holding(reader.buffer))
  BY <1>1, Parts, InjectiveConcat, RangeConcatenation DEF InUse
<1> DEFINE s == output_queue \o Holding(compute.buffer)
<1>3. s \in Seq(Buffers) /\ IsInjective(s \o input_queue)
  BY <1>2, Parts DEF Pipeline
<1>4. /\ IsInjective(s) /\ \A b \in Range(s) : b \notin Range(input_queue)
      /\ Range(Pipeline) = Range(s) \cup Range(input_queue)
  <2>1. Pipeline = s \o input_queue
    BY DEF Pipeline
  <2> HIDE DEF s
  <2> QED BY <1>3, <2>1, Parts, InjectiveConcat, RangeConcatenation
<1>5. /\ IsInjective(output_queue)
      /\ \A b \in Range(output_queue) : b \notin Range(Holding(compute.buffer))
      /\ Range(s) = Range(output_queue) \cup Range(Holding(compute.buffer))
  BY <1>4, Parts, InjectiveConcat, RangeConcatenation
<1>6. reader.buffer \in Buffers \cup {NoBuffer} /\ compute.buffer \in Buffers \cup {NoBuffer}
  BY DEF TypeOK
<1>7. /\ reader.buffer # NoBuffer => reader.buffer \in Range(Holding(reader.buffer))
      /\ compute.buffer # NoBuffer => compute.buffer \in Range(Holding(compute.buffer))
  BY <1>6, HoldingFacts
<1> QED BY <1>2, <1>4, <1>5, <1>7

LEMMA OrderKept ==
  ASSUME PipelineInOrder, Pipeline' = Pipeline, Received' = Received,
         UNCHANGED <<to_client, to_server, unanswered, closed, data_task>>
  PROVE  PipelineInOrder'
BY DEF PipelineInOrder, Tasks

LEMMA InUseKept ==
  ASSUME UNCHANGED <<output_queue, input_queue>>, compute'.buffer = compute.buffer
  PROVE  /\ Pipeline' = Pipeline
         /\ reader'.buffer = reader.buffer => InUse' = InUse
BY DEF Pipeline, InUse, Holding

LEMMA CountersKept ==
  ASSUME Counters, UNCHANGED <<resources, last_buffer, releasing>> PROVE Counters'
BY DEF Counters, Releasing

(* A thread moves on, and nothing in the queues does.                      *)
LEMMA QueuesKept ==
  ASSUME IInv,
         UNCHANGED <<resources, last_buffer, input_queue, output_queue, data_task, clientVars,
                     to_server, to_client, releasing>>,
         compute'.buffer = compute.buffer, reader'.buffer = reader.buffer, Received' = Received
  PROVE  Counters' /\ Ring' /\ PipelineInOrder'
<1>1. Pipeline' = Pipeline /\ InUse' = InUse
  BY InUseKept
<1> QED BY <1>1, CountersKept, RingKept, OrderKept DEF IInv, clientVars
-----------------------------------------------------------------------------
LEMMA InitIInv == Init => IInv
<1> SUFFICES ASSUME Init PROVE IInv
  OBVIOUS
<1> USE DEF Init, HandlerInit
<1>1. TypeOK
  <2>1. resources \in [Threads -> 0..2] /\ data_task \in [Buffers -> Id]
    BY DEF FinalId, Id
  <2>2. 1 \in 0..(LastBufferWrap - 1) /\ 0 \in 0..2
    BY LastBufferWrapAssumption
  <2>3. last_buffer \in [Threads -> 0..(LastBufferWrap - 1)] /\ releasing \in [Threads -> 0..2]
    BY <2>2
  <2> QED BY <2>1, <2>3, EmptySeq DEF TypeOK, Id
<1>2. Counters
  BY LastBufferWrapAssumption DEF TypeOK, Counters, Threads
<1>3. Shape
  BY DEF Shape
<1>4. Pipeline = <<>> /\ InUse = <<>> /\ Received = <<>>
  <2>1. <<>> \in Seq(Buffers) /\ <<>> \o <<>> = <<>>
    BY EmptySeq, ConcatEmptySeq
  <2> QED BY <2>1 DEF Pipeline, InUse, Received, Holding
<1>5. Ring
  <2>1. Range(<<>>) = {} /\ DOMAIN <<>> = {} /\ IsInjective(<<>>) /\ Len(<<>>) = 0
    BY EmptySeq DEF Range, IsInjective
  <2>2. Used = [t \in Threads |-> 0]
    BY <1>4, <2>1 DEF Used
  <2>3. TwoPerThread /\ EightInAll
    BY <1>4, <2>1, <2>2 DEF TwoPerThread, EightInAll, Free, Releasing, Threads
  <2> QED BY <1>4, <2>1, <2>3, EmptySeq DEF Ring, LatestBehind
<1>6. StopShape
  <2>1. Range(<<>>) = {}
    BY DEF Range
  <2> QED BY <2>1 DEF StopShape
<1>7. PipelineInOrder
  <2>1. <<>> \in Seq(Id) /\ <<>> \o <<>> = <<>>
    BY EmptySeq, ConcatEmptySeq
  <2>2. Tasks = <<>>
    <3>1. Tasks \in Seq(Id) /\ Len(Tasks) = 0
      BY <1>1, <1>4, Parts, EmptySeq
    <3> QED BY <3>1, EmptySeq
  <2> QED BY <1>4, <2>1, <2>2 DEF PipelineInOrder
<1> QED BY <1>1, <1>2, <1>3, <1>5, <1>6, <1>7 DEF IInv
-----------------------------------------------------------------------------
(* The primary.                                                            *)
LEMMA SendRequestStep == ASSUME IInv, SendRequest PROVE IInv'
<1> USE DEF IInv
<1>1. PICK id \in TaskIds : /\ unanswered' = Append(unanswered, id)
                            /\ to_server' = Append(to_server, id)
  BY DEF SendRequest
<1>2. ~closed /\ UNCHANGED <<handlerVars, closed, to_client, reader, writer, releasing>>
  BY DEF SendRequest
<1> USE DEF handlerVars
<1>3. TypeOK'
  <2>1. unanswered' \in Seq(TaskIds) /\ to_server' \in Seq(TaskIds \cup {FinalId})
    BY <1>1, AppendProperties DEF TypeOK
  <2> QED BY <1>2, <2>1 DEF TypeOK
<1>4. Counters' /\ Shape'
  BY <1>2, CountersKept DEF Shape
<1>5. Pipeline' = Pipeline /\ InUse' = InUse /\ Received' = Received /\ Tasks' = Tasks
  BY <1>2 DEF Pipeline, InUse, Received, Tasks
<1>6. Ring'
  BY <1>2, <1>5, RingKept
<1>7. StopShape'
  BY <1>2 DEF StopShape
<1>8. PipelineInOrder'
  <2> DEFINE front == to_client \o Tasks \o Received
  <2>1. front \in Seq(Id) /\ to_server \in Seq(Id) /\ unanswered \in Seq(Id) /\ id \in Id
    BY Parts, ConcatProperties DEF Id
  <2>2. front \o to_server = unanswered \o <<>>
    BY <1>2 DEF PipelineInOrder
  <2>3. (to_client \o Tasks \o Received)' = front
    BY <1>2, <1>5
  <2> HIDE DEF front
  <2>4. front \o Append(to_server, id) = Append(unanswered, id)
    BY <2>1, <2>2, ConcatAppend, ConcatEmptySeq
  <2>5. Append(unanswered, id) \in Seq(Id)
    BY <2>1, AppendProperties
  <2>6. Append(unanswered, id) \o <<>> = Append(unanswered, id)
    BY <2>5, ConcatEmptySeq
  <2> QED BY <1>1, <1>2, <2>3, <2>4, <2>6 DEF PipelineInOrder
<1> QED BY <1>3, <1>4, <1>6, <1>7, <1>8

LEMMA CloseStep == ASSUME IInv, Close PROVE IInv'
<1> USE DEF IInv
<1>1. /\ ~closed /\ unanswered = <<>> /\ closed' = TRUE /\ to_server' = Append(to_server, FinalId)
      /\ UNCHANGED <<handlerVars, unanswered, to_client, reader, writer, releasing>>
  BY DEF Close
<1> USE DEF handlerVars
<1>2. TypeOK'
  <2>1. to_server' \in Seq(TaskIds \cup {FinalId})
    BY <1>1, AppendProperties DEF TypeOK
  <2> QED BY <1>1, <2>1 DEF TypeOK
<1>3. Counters' /\ Shape'
  BY <1>1, CountersKept DEF Shape
<1>4. Pipeline' = Pipeline /\ InUse' = InUse /\ Received' = Received /\ Tasks' = Tasks
  BY <1>1 DEF Pipeline, InUse, Received, Tasks
<1>5. Ring'
  BY <1>1, <1>4, RingKept
<1>6. StopShape'
  BY <1>1 DEF StopShape
<1>7. PipelineInOrder'
  <2> DEFINE front == to_client \o Tasks \o Received
  <2>1. front \in Seq(Id) /\ to_server \in Seq(Id) /\ unanswered \in Seq(Id) /\ FinalId \in Id
    BY Parts, ConcatProperties DEF Id
  <2>2. front \o to_server = unanswered \o <<>>
    BY <1>1 DEF PipelineInOrder
  <2>3. (to_client \o Tasks \o Received)' = front
    BY <1>1, <1>4
  <2> HIDE DEF front
  <2>4. front \o Append(to_server, FinalId) = Append(unanswered, FinalId)
    BY <2>1, <2>2, ConcatAppend, ConcatEmptySeq
  <2>5. Append(unanswered, FinalId) = unanswered \o <<FinalId>>
    BY <2>1, AppendIsConcat
  <2> QED BY <1>1, <2>3, <2>4, <2>5 DEF PipelineInOrder
<1> QED BY <1>2, <1>3, <1>5, <1>6, <1>7

(* The first response answers the first request that is not answered.      *)
LEMMA RemoveFirstOfQueue ==
  ASSUME NEW S, NEW s \in Seq(S), s # <<>>
  PROVE  RemoveFirst(s, Head(s)) = Tail(s)
<1>1. Len(s) \in Nat \ {0} /\ Head(s) = s[1] /\ 1 \in 1..Len(s)
  BY LenProperties, EmptySeq
<1> DEFINE hits == {i \in 1..Len(s) : s[i] = Head(s)}
<1>2. 1 \in hits /\ \A i \in hits : 1 <= i
  BY <1>1
<1>3. Min(hits) = 1
  <2> HIDE DEF hits
  <2>1. \A x \in hits : x \in Nat
    BY DEF hits
  <2>2. Min(hits) \in hits /\ \A y \in hits : Min(hits) <= y
    BY <1>2 DEF Min
  <2> QED BY <1>2, <2>1, <2>2
<1>4. SelectInSeq(s, LAMBDA v : v = Head(s)) = 1
  BY <1>2, <1>3 DEF SelectInSeq
<1>5. RemoveFirst(s, Head(s)) = RemoveAt(s, 1)
  BY <1>1, <1>4 DEF RemoveFirst
<1>6. RemoveAt(s, 1) = SubSeq(s, 1, 0) \o SubSeq(s, 2, Len(s))
  BY DEF RemoveAt
<1>7. SubSeq(s, 1, 0) = <<>> /\ SubSeq(s, 2, Len(s)) = Tail(s) /\ Tail(s) \in Seq(S)
  <2>1. SubSeq(s, 1, 0) \in Seq(S) /\ Len(SubSeq(s, 1, 0)) = 0
    BY <1>1, SubSeqProperties
  <2>2. /\ SubSeq(s, 2, Len(s)) \in Seq(S) /\ Len(SubSeq(s, 2, Len(s))) = Len(s) - 1
        /\ \A i \in 1..(Len(s) - 1) : SubSeq(s, 2, Len(s))[i] = s[i + 1]
    <3>1. \A i \in 2..Len(s) : s[i] \in S
      <4> SUFFICES ASSUME NEW i \in 2..Len(s) PROVE s[i] \in S
        OBVIOUS
      <4>1. i \in 1..Len(s)
        BY <1>1
      <4> QED BY <4>1, ElementOfSeq
    <3>2. 2 \in Int /\ Len(s) \in Int
      BY <1>1
    <3> DEFINE u == SubSeq(s, 2, Len(s))
    <3>3. /\ u \in Seq(S)
          /\ Len(u) = IF 2 <= Len(s) THEN Len(s) - 2 + 1 ELSE 0
          /\ \A i \in 1..(Len(s) - 2 + 1) : u[i] = s[2 + i - 1]
      BY <3>1, <3>2, SubSeqProperties
    <3> HIDE DEF u
    <3>4. Len(u) = Len(s) - 1
      <4>1. CASE 2 <= Len(s)
        <5>1. Len(u) = Len(s) - 2 + 1
          BY <3>3, <4>1
        <5> QED BY <1>1, <5>1
      <4>2. CASE ~(2 <= Len(s))
        <5>1. Len(u) = 0
          BY <3>3, <4>2
        <5>2. Len(s) = 1
          <6>1. Len(s) \in Nat /\ Len(s) # 0
            BY <1>1
          <6>2. \A n \in Nat : n # 0 /\ ~(2 <= n) => n = 1
            OBVIOUS
          <6> QED BY <4>2, <6>1, <6>2
        <5> QED BY <5>1, <5>2
      <4> QED BY <4>1, <4>2
    <3>5. ASSUME NEW i \in 1..(Len(s) - 1) PROVE u[i] = s[i + 1]
      <4>1. i \in 1..(Len(s) - 2 + 1) /\ 2 + i - 1 = i + 1
        BY <1>1
      <4>2. u[i] = s[2 + i - 1]
        BY <3>3, <4>1
      <4> QED BY <4>1, <4>2
    <3> QED BY <3>3, <3>4, <3>5 DEF u
  <2>3. /\ Tail(s) \in Seq(S) /\ Len(Tail(s)) = Len(s) - 1
        /\ \A i \in 1..(Len(s) - 1) : Tail(s)[i] = s[i + 1]
    BY <1>1, HeadTailProperties
  <2> QED BY <2>1, <2>2, <2>3, EmptySeq, SeqEqual
<1> QED BY <1>5, <1>6, <1>7, ConcatEmptySeq

LEMMA ReceiveResponseStep == ASSUME IInv, ReceiveResponse PROVE IInv'
<1> USE DEF IInv
<1>1. /\ to_client # <<>> /\ to_client' = Tail(to_client)
      /\ unanswered' = RemoveFirst(unanswered, Head(to_client))
      /\ UNCHANGED <<handlerVars, closed, to_server, reader, writer, releasing>>
  BY DEF ReceiveResponse
<1> USE DEF handlerVars
<1> DEFINE rest == Tasks \o Received \o to_server
           last == IF closed THEN <<FinalId>> ELSE <<>>
<1>2. rest \in Seq(Id) /\ last \in Seq(Id) /\ to_client \in Seq(TaskIds)
      /\ to_client \in Seq(Id) /\ unanswered \in Seq(Id) /\ unanswered \in Seq(TaskIds)
  <2>1. rest \in Seq(Id) /\ to_client \in Seq(Id) /\ unanswered \in Seq(Id)
    BY Parts, ConcatFour
  <2>2. last \in Seq(Id)
    <3>1. <<>> \in Seq(Id) /\ <<FinalId>> \in Seq(Id)
      BY EmptySeq DEF Id
    <3> QED BY <3>1
  <2> QED BY <2>1, <2>2 DEF TypeOK
<1>2a. ASSUME NEW s \in Seq(Id) PROVE s \o Tasks \o Received \o to_server = s \o rest
  <2>1. Tasks \in Seq(Id) /\ Received \in Seq(Id) /\ to_server \in Seq(Id)
    BY Parts
  <2>2. rest = Tasks \o Received \o to_server
    OBVIOUS
  <2> HIDE DEF rest
  <2> QED BY <2>1, <2>2, ConcatFour, SMTT(30)
<1>3. to_client \o rest = unanswered \o last
  <2>1. to_client \o Tasks \o Received \o to_server = to_client \o rest
    BY <1>2, <1>2a
  <2> QED BY <2>1 DEF PipelineInOrder
<1> HIDE DEF rest, last
<1>4. to_client \o rest # <<>> /\ Head(to_client \o rest) = Head(to_client)
      /\ Tail(to_client \o rest) = Tail(to_client) \o rest
  BY <1>1, <1>2, ConcatTail
<1>5. unanswered # <<>>
  <2> SUFFICES ASSUME unanswered = <<>> PROVE FALSE
    OBVIOUS
  <2>1. Head(to_client) \in TaskIds
    BY <1>1, <1>2, HeadTailProperties
  <2>2. unanswered \o last = last
    BY <1>2, ConcatEmptySeq
  <2>3. last = <<FinalId>>
    BY <1>3, <1>4, <2>2 DEF last
  <2>4. Head(to_client) = FinalId
    BY <1>3, <1>4, <2>2, <2>3
  <2> QED BY <2>1, <2>4, FinalIdAssumption
<1>6. Head(unanswered) = Head(to_client) /\ Tail(to_client) \o rest = Tail(unanswered) \o last
  <2>1. Head(unanswered \o last) = Head(unanswered) /\ Tail(unanswered \o last) = Tail(unanswered) \o last
    BY <1>2, <1>5, ConcatTail
  <2> QED BY <1>3, <1>4, <2>1
<1>7. unanswered' = Tail(unanswered)
  BY <1>1, <1>2, <1>5, <1>6, RemoveFirstOfQueue
<1>8. TypeOK'
  <2>1. unanswered' \in Seq(TaskIds) /\ to_client' \in Seq(TaskIds)
    BY <1>1, <1>2, <1>5, <1>7, HeadTailProperties
  <2> QED BY <1>1, <2>1 DEF TypeOK
<1>9. Counters' /\ Shape'
  BY <1>1, CountersKept DEF Shape
<1>10. Pipeline' = Pipeline /\ InUse' = InUse /\ Received' = Received /\ Tasks' = Tasks
  BY <1>1 DEF Pipeline, InUse, Received, Tasks
<1>11. Ring'
  BY <1>1, <1>10, RingKept
<1>12. StopShape'
  BY <1>1, <1>5 DEF StopShape
<1>13. PipelineInOrder'
  <2>1. Tail(to_client) \o Tasks \o Received \o to_server = Tail(to_client) \o rest
    <3>1. Tail(to_client) \in Seq(Id)
      BY <1>1, <1>2, HeadTailProperties
    <3> QED BY <1>2a, <3>1
  <2>2. (to_client \o Tasks \o Received \o to_server)' = Tail(to_client) \o Tasks \o Received \o to_server
    BY <1>1, <1>10
  <2>3. (unanswered \o (IF closed THEN <<FinalId>> ELSE <<>>))' = Tail(unanswered) \o last
    BY <1>1, <1>7 DEF last
  <2> QED BY <1>6, <2>1, <2>2, <2>3 DEF PipelineInOrder
<1> QED BY <1>8, <1>9, <1>11, <1>12, <1>13
-----------------------------------------------------------------------------
(* The reading side.                                                       *)
LEMMA NextReadStep == ASSUME IInv, NextRead PROVE IInv'
<1> USE DEF IInv
<1>1. /\ reader.at = "select" /\ reader.buffer = NoBuffer
      /\ UNCHANGED <<input_queue, output_queue, data_task, compute, stop_flag, clientVars,
                     to_server, to_client, writer, releasing>>
  BY DEF NextRead, Shape
<1> USE DEF clientVars
<1>2. Pipeline' = Pipeline /\ Tasks' = Tasks
  BY <1>1 DEF Pipeline, Tasks
<1>3. reader'.at \notin {"stop", "join", "process"} /\ reader'.id = reader.id => Received' = Received
  BY <1>1 DEF Received
<1>4. CASE NothingFree
  <2>1. /\ reader' = [reader EXCEPT !.at = "stuck", !.buffer = NoBuffer]
        /\ UNCHANGED <<resources, last_buffer>>
    BY <1>4 DEF NextRead
  <2>2. TypeOK'
    BY <1>1, <2>1, ZenonT(30) DEF TypeOK
  <2>3. /\ reader'.at = "stuck" /\ reader'.buffer = reader.buffer /\ reader'.id = reader.id
    BY <1>1, <2>1 DEF TypeOK
  <2>4. Ring'
    BY <1>1, <1>2, <2>1, <2>3, RingKept, InUseKept
  <2>5. Counters' /\ Shape' /\ StopShape'
    BY <1>1, <2>1, <2>3, CountersKept DEF Shape, StopShape
  <2>6. PipelineInOrder'
    BY <1>1, <1>2, <1>3, <2>3, OrderKept
  <2> QED BY <2>2, <2>4, <2>5, <2>6
<1>5. CASE ~NothingFree
  <2>1. PICK b \in Buffers : SelectNextBuffer(b)
                             /\ reader' = [reader EXCEPT !.at = "reading", !.buffer = b]
    BY <1>5 DEF NextRead
  <2>2. reader'.at = "reading" /\ reader'.buffer = b /\ reader'.id = reader.id /\ b # NoBuffer
    BY <2>1, BufferFacts DEF TypeOK
  <2>3. InUse' = Append(InUse, b)
    <3>1. InUse = Pipeline
      BY <1>1, Parts, ConcatEmptySeq DEF InUse, Holding
    <3>2. InUse' = Pipeline \o <<b>>
      BY <1>2, <2>2 DEF InUse, Holding
    <3> QED BY <3>1, <3>2, Parts, AppendIsConcat
  <2>4. Ring' /\ Counters'
    BY <1>1, <2>1, <2>3, RingSelect
  <2>5. TypeOK'
    <3>1. reader' \in [at : {"select", "reading", "stop", "join", "process", "finished", "stuck"},
                       buffer : Buffers \cup {NoBuffer}, id : TaskIds \cup {FinalId}]
      BY <2>1 DEF TypeOK
    <3> QED BY <1>1, <2>4, <3>1 DEF TypeOK, Counters
  <2>6. Shape' /\ StopShape'
    BY <1>1, <2>2 DEF Shape, StopShape
  <2>7. PipelineInOrder'
    BY <1>1, <1>2, <1>3, <2>2, OrderKept
  <2> QED BY <2>4, <2>5, <2>6, <2>7
<1> QED BY <1>4, <1>5

LEMMA OnReadDoneStep == ASSUME IInv, OnReadDone PROVE IInv'
<1> USE DEF IInv
<1> DEFINE id == Head(to_server)
           at == IF id = FinalId THEN "stop" ELSE "process"
<1>1. /\ reader.at = "reading" /\ to_server # <<>> /\ to_server' = Tail(to_server)
      /\ reader' = [reader EXCEPT !.at = at, !.id = id]
      /\ UNCHANGED <<handlerVars, clientVars, to_client, writer, releasing>>
  BY DEF OnReadDone
<1>2. id \in Id /\ Tail(to_server) \in Seq(Id) /\ to_server \in Seq(Id)
  BY <1>1, Parts, HeadTailProperties
<1>3. /\ reader'.at = at /\ reader'.id = id /\ reader'.buffer = reader.buffer
      /\ reader' \in [at : {"select", "reading", "stop", "join", "process", "finished", "stuck"},
                      buffer : Buffers \cup {NoBuffer}, id : TaskIds \cup {FinalId}]
  BY <1>1, <1>2 DEF TypeOK, Id
<1> USE DEF handlerVars, clientVars
<1>4. TypeOK'
  BY <1>1, <1>2, <1>3 DEF TypeOK, Id
<1> HIDE DEF id
<1>5. Counters' /\ Ring'
  <2>1. Pipeline' = Pipeline /\ InUse' = InUse
    BY <1>1, <1>3, InUseKept
  <2> QED BY <1>1, <2>1, CountersKept, RingKept
<1>6. Shape' /\ StopShape'
  BY <1>1, <1>3 DEF Shape, StopShape
<1>7. PipelineInOrder'
  <2>1. Tasks' = Tasks /\ Received = <<>> /\ Received' = <<id>>
    BY <1>1, <1>3, InUseKept DEF Tasks, Received
  <2> DEFINE front == to_client \o Tasks
  <2>2. front \in Seq(Id) /\ front \o <<id>> \o Tail(to_server) = front \o <<>> \o to_server
    <3>1. front \in Seq(Id)
      BY Parts
    <3> HIDE DEF front
    <3> QED BY <1>1, <1>2, <3>1, MoveOut DEF id
  <2> QED BY <1>1, <2>1, <2>2 DEF PipelineInOrder
<1> QED BY <1>4, <1>5, <1>6, <1>7

LEMMA OnReadEndStep == ASSUME IInv, OnReadEnd PROVE IInv'
<1> USE DEF IInv, handlerVars
<1>1. /\ reader.at = "reading" /\ reader' = [reader EXCEPT !.at = "finished"]
      /\ UNCHANGED <<handlerVars, clientVars, to_server, to_client, writer, releasing>>
  BY DEF OnReadEnd
<1>2. reader'.at = "finished" /\ reader'.buffer = reader.buffer /\ reader'.id = reader.id
  BY <1>1 DEF TypeOK
<1>3. TypeOK'
  BY <1>1 DEF TypeOK, clientVars
<1>4. Received' = Received
  BY <1>1, <1>2 DEF Received
<1> QED BY <1>1, <1>2, <1>3, <1>4, QueuesKept DEF Shape, StopShape, clientVars

LEMMA ReaderStopStep == ASSUME IInv, ReaderStop PROVE IInv'
<1> USE DEF IInv
<1>1. /\ reader.at = "stop" /\ StopThreads /\ reader' = [reader EXCEPT !.at = "join"]
      /\ UNCHANGED <<resources, last_buffer, input_queue, output_queue, data_task, clientVars,
                     to_server, to_client, writer, releasing>>
  BY DEF ReaderStop
<1>2. reader'.at = "join" /\ reader'.buffer = reader.buffer /\ reader'.id = reader.id
  BY <1>1 DEF TypeOK
<1>3. /\ compute'.buffer = compute.buffer /\ (compute'.at = "done" <=> compute.at = "done")
      /\ (compute'.at = "computing" <=> compute.at = "computing")
      /\ compute' \in [at : {"test", "tested", "asleep", "computing", "done"},
                       buffer : Buffers \cup {NoBuffer}]
  BY <1>1 DEF TypeOK, StopThreads, NotifyCompute
<1>4. TypeOK'
  BY <1>1, <1>3 DEF TypeOK, clientVars, StopThreads
<1>5. Received' = Received
  BY <1>1, <1>2 DEF Received
<1> QED BY <1>1, <1>2, <1>3, <1>4, <1>5, QueuesKept DEF Shape, StopShape, clientVars

LEMMA ReaderJoinStep == ASSUME IInv, ReaderJoin PROVE IInv'
<1> USE DEF IInv, handlerVars
<1>1. /\ reader.at = "join" /\ compute.at = "done" /\ reader' = [reader EXCEPT !.at = "process"]
      /\ UNCHANGED <<handlerVars, clientVars, to_server, to_client, writer, releasing>>
  BY DEF ReaderJoin, ComputeJoined
<1>2. reader'.at = "process" /\ reader'.buffer = reader.buffer /\ reader'.id = reader.id
  BY <1>1 DEF TypeOK
<1>3. TypeOK'
  BY <1>1 DEF TypeOK, clientVars
<1>4. Received' = Received
  BY <1>1, <1>2 DEF Received
<1> QED BY <1>1, <1>2, <1>3, <1>4, QueuesKept DEF Shape, StopShape, clientVars
-----------------------------------------------------------------------------
(* The writing side, except for NextWrite and Release.                     *)
LEMMA WriterStep ==
  ASSUME IInv, WriterSleep \/ WriterSpuriousWakeup \/ TakeFromEmptyQueue \/ OnWriteDone
  PROVE  IInv'
<1> USE DEF IInv, handlerVars
<1>1. UNCHANGED <<handlerVars, clientVars, to_server, to_client, reader, releasing>>
  BY DEF WriterSleep, WriterSpuriousWakeup, TakeFromEmptyQueue, OnWriteDone
<1>2. /\ writer'.buffer = NoBuffer <=> writer'.at # "writing"
      /\ writer' \in [at : {"check", "asleep", "writing", "undefined"},
                      buffer : Buffers \cup {NoBuffer}]
  BY DEF WriterSleep, WriterSpuriousWakeup, TakeFromEmptyQueue, OnWriteDone, TypeOK, Shape
<1>3. TypeOK' /\ Shape'
  BY <1>1, <1>2 DEF TypeOK, Shape, clientVars
<1>4. Received' = Received
  BY <1>1 DEF Received
<1> QED BY <1>1, <1>3, <1>4, QueuesKept DEF StopShape, clientVars
-----------------------------------------------------------------------------
(* A request goes from the reading side to the end of the pipeline.        *)
LEMMA ReaderProcessStep == ASSUME IInv, ReaderProcess PROVE IInv' /\ InUse' = InUse
<1> USE DEF IInv
<1> DEFINE b == reader.buffer
           id == reader.id
           front == output_queue \o Holding(compute.buffer)
<1>1. /\ reader.at = "process" /\ InputLockFree /\ NotifyCompute
      /\ data_task' = [data_task EXCEPT ![b] = id] /\ input_queue' = Append(input_queue, b)
      /\ reader' = [at |-> "select", buffer |-> NoBuffer, id |-> FinalId]
      /\ UNCHANGED <<resources, last_buffer, output_queue, stop_flag, clientVars, to_server,
                     to_client, writer, releasing>>
  BY DEF ReaderProcess, ProcessRequest, Queued
<1>2. b \in Buffers /\ b # NoBuffer /\ id \in Id /\ b \notin Range(Pipeline)
  BY <1>1, Apart, BufferFacts DEF Shape, TypeOK, Id
<1>3. /\ compute'.buffer = compute.buffer /\ (compute'.at = "done" <=> compute.at = "done")
      /\ (compute'.at = "computing" <=> compute.at = "computing")
      /\ compute' \in [at : {"test", "tested", "asleep", "computing", "done"},
                       buffer : Buffers \cup {NoBuffer}]
  BY <1>1 DEF TypeOK, NotifyCompute
<1> HIDE DEF id
<1>4. /\ front \in Seq(Buffers) /\ Pipeline = front \o input_queue
      /\ Pipeline' = front \o Append(input_queue, b)
      /\ Received = <<id>> /\ Received' = <<>>
  BY <1>1, <1>3, Parts DEF Pipeline, Received, Holding, id
<1> HIDE DEF front
<1>5. Pipeline' = Append(Pipeline, b)
  <2>1. input_queue \in Seq(Buffers)
    BY Parts
  <2> QED BY <1>2, <1>4, <2>1, ConcatAppend
<1>6. InUse' = InUse
  <2>1. InUse = Pipeline \o <<b>>
    BY <1>2 DEF InUse, Holding
  <2>2. Pipeline \o <<b>> = Append(Pipeline, b) /\ Append(Pipeline, b) \in Seq(Buffers)
    BY <1>2, Parts, AppendIsConcat, AppendProperties
  <2>3. InUse' = Pipeline' \o <<>>
    BY <1>1 DEF InUse, Holding
  <2> QED BY <1>5, <2>1, <2>2, <2>3, ConcatEmptySeq
<1>7. TypeOK'
  <2>1. input_queue' \in Seq(Buffers) /\ data_task' \in [Buffers -> TaskIds \cup {FinalId}]
    BY <1>1, <1>2, AppendProperties DEF TypeOK, Id
  <2>2. reader' \in [at : {"select", "reading", "stop", "join", "process", "finished", "stuck"},
                     buffer : Buffers \cup {NoBuffer}, id : TaskIds \cup {FinalId}]
    BY <1>1
  <2> QED BY <1>1, <1>3, <2>1, <2>2 DEF TypeOK, clientVars
<1>8. Counters' /\ Ring' /\ Shape'
  BY <1>1, <1>3, <1>6, CountersKept, RingKept DEF Shape
<1>9. StopShape'
  <2>1. /\ \A x \in Range(output_queue) : x # b
        /\ compute.buffer # NoBuffer => compute.buffer # b
        /\ \A x \in Range(output_queue) \cup Range(input_queue) : x \in Buffers
        /\ compute.buffer # NoBuffer => compute.buffer \in Buffers
    <3>1. Range(output_queue) \subseteq Range(Pipeline) /\ Range(input_queue) \subseteq Range(Pipeline)
      BY Apart
    <3>2. Range(Pipeline) \subseteq Buffers
      BY Parts, RangeOfSeq
    <3> QED BY <1>2, <3>1, <3>2, Apart DEF TypeOK
  <2>2. \A x \in Buffers : data_task'[x] = IF x = b THEN id ELSE data_task[x]
    BY <1>1 DEF TypeOK
  <2>3. Range(input_queue') = Range(input_queue) \cup {b}
    <3>1. /\ Len(input_queue) \in Nat /\ DOMAIN input_queue = 1..Len(input_queue)
          /\ DOMAIN input_queue' = 1..(Len(input_queue) + 1)
          /\ \A n \in 1..Len(input_queue) : input_queue'[n] = input_queue[n]
          /\ input_queue'[Len(input_queue) + 1] = b
      BY <1>1, <1>2, Parts, AppendProperties, LenProperties
    <3> QED BY <3>1 DEF Range
  <2>4. \A x \in Range(output_queue') : data_task'[x] \in TaskIds
    BY <1>1, <2>1, <2>2 DEF StopShape
  <2>5. compute'.buffer # NoBuffer => data_task'[compute'.buffer] \in TaskIds
    BY <1>3, <2>1, <2>2 DEF StopShape
  <2>6. compute'.at # "done" => \A x \in Range(input_queue') : data_task'[x] \in TaskIds
    <3>1. compute.at # "done" => id \in TaskIds
      BY <1>1, <1>2 DEF StopShape, Id, id
    <3> QED BY <1>2, <1>3, <2>1, <2>2, <2>3, <3>1 DEF StopShape
  <2> QED BY <1>1, <1>3, <2>4, <2>5, <2>6 DEF StopShape, clientVars
<1>10. PipelineInOrder'
  <2>1. Tasks' = Append(Tasks, id)
    <3>1. Tasks = TasksOf(Pipeline, data_task) /\ Pipeline \in Seq(Buffers) /\ data_task \in [Buffers -> Id]
      BY Parts
    <3>2. Tasks' = TasksOf(Append(Pipeline, b), [data_task EXCEPT ![b] = id])
      BY <1>1, <1>5 DEF Tasks, TasksOf
    <3> QED BY <1>2, <3>1, <3>2, TasksOfAppend
  <2>2. /\ to_client \o Append(Tasks, id) = Append(to_client \o Tasks, id)
        /\ to_client \o Tasks \in Seq(Id)
    <3>1. to_client \in Seq(Id) /\ Tasks \in Seq(Id) /\ to_client \o Tasks \in Seq(Id)
      BY Parts
    <3> QED BY <1>2, <3>1, ConcatAppend
  <2>3. Append(to_client \o Tasks, id) \o <<>> \o to_server = to_client \o Tasks \o <<id>> \o to_server
    <3>1. to_server \in Seq(Id)
      BY Parts
    <3> DEFINE s == to_client \o Tasks
    <3>2. s \in Seq(Id)
      BY <2>2
    <3> HIDE DEF s
    <3>3. Append(s, id) \o <<>> \o to_server = s \o <<id>> \o to_server
      BY <1>2, <3>1, <3>2, MoveIn
    <3> QED BY <3>3 DEF s
  <2>4. (to_client \o Tasks \o Received \o to_server)'
          = to_client \o Append(Tasks, id) \o <<>> \o to_server
    BY <1>1, <1>4, <2>1
  <2> QED BY <1>1, <1>4, <2>2, <2>3, <2>4 DEF PipelineInOrder, clientVars
<1> QED BY <1>6, <1>7, <1>8, <1>9, <1>10
-----------------------------------------------------------------------------
(* The compute thread takes a request, and queues its result.              *)
LEMMA ComputeTestStep ==
  ASSUME IInv, ComputeTest, UNCHANGED <<clientVars, to_server, to_client, reader, writer, releasing>>
  PROVE  IInv' /\ InUse' = InUse
<1> USE DEF IInv
<1>1. /\ compute.at = "test" /\ compute.buffer = NoBuffer
      /\ UNCHANGED <<resources, last_buffer, output_queue, data_task, stop_flag>>
      /\ Received' = Received
  BY DEF ComputeTest, Shape, Received
<1>2. CASE stop_flag \/ input_queue = <<>>
  <2>1. /\ input_queue' = input_queue /\ compute'.buffer = NoBuffer
        /\ compute'.at \in {"done", "tested"}
        /\ compute' \in [at : {"test", "tested", "asleep", "computing", "done"},
                         buffer : Buffers \cup {NoBuffer}]
    BY <1>1, <1>2 DEF ComputeTest, TypeOK
  <2>2. TypeOK'
    BY <1>1, <2>1 DEF TypeOK, clientVars
  <2> QED BY <1>1, <2>1, <2>2, QueuesKept, InUseKept DEF Shape, StopShape, clientVars
<1>3. CASE ~stop_flag /\ input_queue # <<>>
  <2> DEFINE b == Head(input_queue)
  <2>1. compute' = [at |-> "computing", buffer |-> b] /\ input_queue' = Tail(input_queue)
    BY <1>1, <1>3 DEF ComputeTest
  <2>2. /\ b \in Buffers /\ b # NoBuffer /\ Tail(input_queue) \in Seq(Buffers)
        /\ Range(input_queue') = Range(input_queue) \ {b} /\ b \in Range(input_queue)
    <3>1. b \in Buffers /\ Tail(input_queue) \in Seq(Buffers)
      BY <1>3, Parts, HeadTailProperties
    <3>2. IsInjective(input_queue)
      <4> DEFINE s == output_queue \o Holding(compute.buffer)
      <4>1. s \in Seq(Buffers) /\ input_queue \in Seq(Buffers) /\ IsInjective(s \o input_queue)
        BY Parts, Apart DEF Pipeline
      <4> HIDE DEF s
      <4> QED BY <4>1, InjectiveConcat
    <3>3. Range(Tail(input_queue)) = Range(input_queue) \ {b}
      BY <1>3, <3>2, Parts, InjectiveTail
    <3>4. b \in Range(input_queue)
      <4>1. 1 \in DOMAIN input_queue /\ b = input_queue[1]
        BY <1>3, Parts, LenProperties, EmptySeq
      <4> QED BY <4>1 DEF Range
    <3> QED BY <2>1, <3>1, <3>3, <3>4, BufferFacts
  <2>3. Pipeline' = Pipeline
    <3>1. Pipeline = output_queue \o <<>> \o input_queue
      BY <1>1 DEF Pipeline, Holding
    <3>2. Pipeline' = output_queue \o <<b>> \o Tail(input_queue)
      BY <1>1, <2>1, <2>2 DEF Pipeline, Holding
    <3> QED BY <1>3, <3>1, <3>2, Parts, MoveOut
  <2>4. InUse' = InUse
    BY <2>3 DEF InUse
  <2>5. TypeOK'
    BY <1>1, <2>1, <2>2 DEF TypeOK, clientVars
  <2>6. Counters' /\ Ring' /\ Shape' /\ PipelineInOrder'
    BY <1>1, <2>1, <2>2, <2>3, <2>4, CountersKept, RingKept, OrderKept DEF Shape, clientVars
  <2>7. StopShape'
    BY <1>1, <2>1, <2>2 DEF StopShape, clientVars
  <2> QED BY <2>4, <2>5, <2>6, <2>7
<1> QED BY <1>2, <1>3

LEMMA ComputeSleepStep ==
  ASSUME IInv, ComputeSleep \/ ComputeSpuriousWakeup,
         UNCHANGED <<clientVars, to_server, to_client, reader, writer, releasing>>
  PROVE  IInv'
<1> USE DEF IInv
<1>1. /\ compute.at \in {"tested", "asleep"} /\ compute'.at \in {"asleep", "test"}
      /\ compute'.buffer = compute.buffer /\ Received' = Received
      /\ compute' \in [at : {"test", "tested", "asleep", "computing", "done"},
                       buffer : Buffers \cup {NoBuffer}]
      /\ UNCHANGED <<resources, last_buffer, input_queue, output_queue, data_task, stop_flag>>
  BY DEF ComputeSleep, ComputeSpuriousWakeup, TypeOK, Received
<1>2. TypeOK'
  BY <1>1 DEF TypeOK, clientVars
<1> QED BY <1>1, <1>2, QueuesKept DEF Shape, StopShape, clientVars

LEMMA ComputeNotifyStep == ASSUME IInv, ComputeNotify PROVE IInv' /\ InUse' = InUse
<1> USE DEF IInv
<1> DEFINE b == compute.buffer
<1>1. /\ compute.at = "computing" /\ output_queue' = Append(output_queue, b)
      /\ compute' = [at |-> "test", buffer |-> NoBuffer]
      /\ UNCHANGED <<resources, last_buffer, input_queue, data_task, stop_flag, clientVars,
                     to_server, to_client, reader, releasing>>
  BY DEF ComputeNotify, ComputeFinish
<1>2. b \in Buffers /\ b # NoBuffer /\ b \notin Range(output_queue)
  BY <1>1, Apart DEF Shape, TypeOK
<1>3. /\ writer'.buffer = NoBuffer <=> writer'.at # "writing"
      /\ writer' \in [at : {"check", "asleep", "writing", "undefined"},
                      buffer : Buffers \cup {NoBuffer}]
  BY DEF ComputeNotify, TypeOK, Shape
<1>4. Pipeline' = Pipeline
  <2>1. Pipeline = output_queue \o <<b>> \o input_queue
    BY <1>2 DEF Pipeline, Holding
  <2>2. Pipeline' = Append(output_queue, b) \o <<>> \o input_queue
    BY <1>1 DEF Pipeline, Holding
  <2>3. output_queue \in Seq(Buffers) /\ input_queue \in Seq(Buffers)
    BY Parts
  <2> HIDE DEF b
  <2> QED BY <1>2, <2>1, <2>2, <2>3, MoveIn
<1>5. InUse' = InUse
  BY <1>1, <1>4 DEF InUse
<1>6. output_queue' \in Seq(Buffers) /\ Range(output_queue') = Range(output_queue) \cup {b}
  <2>1. output_queue \in Seq(Buffers) /\ IsInjective(output_queue)
    BY Parts, Apart
  <2> QED BY <1>1, <1>2, <2>1, InjectiveAppend, AppendProperties
<1>7. TypeOK'
  BY <1>1, <1>3, <1>6 DEF TypeOK, clientVars
<1>8. Counters' /\ Ring' /\ Shape' /\ PipelineInOrder'
  <2>1. Received' = Received
    BY <1>1 DEF Received
  <2> QED BY <1>1, <1>3, <1>4, <1>5, <2>1, CountersKept, RingKept, OrderKept DEF Shape, clientVars
<1>9. StopShape'
  BY <1>1, <1>2, <1>6 DEF StopShape, clientVars
<1> QED BY <1>5, <1>7, <1>8, <1>9
-----------------------------------------------------------------------------
(* The first result becomes a response, and its buffer leaves the ring.    *)
LEMMA FirstOut ==
  ASSUME TypeOK, Ring, output_queue # <<>>, output_queue' = Tail(output_queue),
         UNCHANGED <<compute, input_queue, reader>>
  PROVE  /\ Pipeline # <<>> /\ Head(Pipeline) = Head(output_queue) /\ Pipeline' = Tail(Pipeline)
         /\ InUse # <<>> /\ Head(InUse) = Head(output_queue) /\ InUse' = Tail(InUse)
<1>1. /\ output_queue \in Seq(Buffers) /\ input_queue \in Seq(Buffers) /\ Pipeline \in Seq(Buffers)
      /\ Holding(compute.buffer) \in Seq(Buffers) /\ Holding(reader.buffer) \in Seq(Buffers)
  BY Parts
<1> DEFINE h == Holding(compute.buffer)
           s == output_queue \o h
<1>2. s \in Seq(Buffers) /\ s # <<>> /\ Head(s) = Head(output_queue) /\ Tail(s) = Tail(output_queue) \o h
  BY <1>1, ConcatTail, ConcatProperties
<1>3. Pipeline = s \o input_queue /\ Pipeline' = Tail(output_queue) \o h \o input_queue
  BY DEF Pipeline
<1> HIDE DEF s, h
<1>4. Pipeline # <<>> /\ Head(Pipeline) = Head(output_queue) /\ Pipeline' = Tail(Pipeline)
  <2>1. /\ s \o input_queue # <<>> /\ Head(s \o input_queue) = Head(s)
        /\ Tail(s \o input_queue) = Tail(s) \o input_queue
    BY <1>1, <1>2, ConcatTail
  <2> QED BY <1>2, <1>3, <2>1
<1>5. InUse = Pipeline \o Holding(reader.buffer) /\ InUse' = Pipeline' \o Holding(reader.buffer)
  BY DEF InUse
<1> QED BY <1>1, <1>4, <1>5, ConcatTail

LEMMA NextWriteStep == ASSUME IInv, NextWrite PROVE IInv'
<1> USE DEF IInv
<1> DEFINE b == Head(output_queue)
<1>1. /\ output_queue # <<>>
      /\ to_client' = Append(to_client, data_task[b])
      /\ writer' = [at |-> "writing", buffer |-> b]
      /\ releasing' = [releasing EXCEPT ![Thread(b)] = @ + 1]
      /\ output_queue' = Tail(output_queue)
      /\ data_task' = [data_task EXCEPT ![b] = FinalId]
      /\ UNCHANGED <<resources, last_buffer, input_queue, compute, stop_flag, clientVars,
                     to_server, reader>>
  BY DEF NextWrite, HasResult, ResponseOf
<1>2. /\ b \in Buffers /\ b # NoBuffer /\ b \in Range(output_queue)
      /\ Tail(output_queue) \in Seq(Buffers)
      /\ Range(output_queue') = Range(output_queue) \ {b}
  <2>1. b \in Buffers /\ Tail(output_queue) \in Seq(Buffers)
    BY <1>1, Parts, HeadTailProperties
  <2>2. Range(Tail(output_queue)) = Range(output_queue) \ {b}
    BY <1>1, Parts, Apart, InjectiveTail
  <2>3. 1 \in DOMAIN output_queue /\ b = output_queue[1]
    BY <1>1, Parts, LenProperties, EmptySeq
  <2>4. b \in Range(output_queue)
    BY <2>3 DEF Range
  <2> QED BY <1>1, <2>1, <2>2, <2>4, BufferFacts
<1>3. data_task[b] \in TaskIds
  BY <1>2 DEF StopShape
<1>4. /\ Pipeline # <<>> /\ Head(Pipeline) = b /\ Pipeline' = Tail(Pipeline)
      /\ InUse # <<>> /\ Head(InUse) = b /\ InUse' = Tail(InUse)
  BY <1>1, FirstOut
<1> HIDE DEF b
<1>5. Ring' /\ Counters'
  BY <1>1, <1>4, RingPop
<1>6. TypeOK'
  <2>1. to_client' \in Seq(TaskIds)
    BY <1>1, <1>3, AppendProperties DEF TypeOK
  <2>2. data_task' \in [Buffers -> TaskIds \cup {FinalId}]
    BY <1>1 DEF TypeOK
  <2>3. output_queue' \in Seq(Buffers)
    BY <1>1, <1>2
  <2>4. writer' \in [at : {"check", "asleep", "writing", "undefined"},
                     buffer : Buffers \cup {NoBuffer}]
    BY <1>1, <1>2
  <2> QED BY <1>1, <1>5, <2>1, <2>2, <2>3, <2>4 DEF TypeOK, Counters, clientVars
<1>7. Shape'
  BY <1>1, <1>2 DEF Shape
<1>8. StopShape'
  <2>1. \A x \in Range(output_queue') : x # b /\ x \in Range(output_queue) /\ x \in Buffers
    <3>1. Range(output_queue) \subseteq Buffers
      BY Parts, RangeOfSeq
    <3> QED BY <1>2, <3>1
  <2>2. \A x \in Range(input_queue) : x # b /\ x \in Buffers
    <3>1. Range(input_queue) \subseteq Buffers
      BY Parts, RangeOfSeq
    <3> QED BY <1>2, <3>1, Apart
  <2>3. compute.buffer # NoBuffer => compute.buffer # b /\ compute.buffer \in Buffers
    BY <1>2, Apart DEF TypeOK
  <2>4. \A x \in Buffers : x # b => data_task'[x] = data_task[x]
    BY <1>1 DEF TypeOK
  <2> QED BY <1>1, <2>1, <2>2, <2>3, <2>4 DEF StopShape, clientVars
<1>9. PipelineInOrder'
  <2>1. /\ Pipeline \in Seq(Buffers) /\ IsInjective(Pipeline) /\ data_task \in [Buffers -> Id]
        /\ Tasks = TasksOf(Pipeline, data_task)
        /\ Tasks \in Seq(Id) /\ to_client \in Seq(Id) /\ FinalId \in Id
    BY Parts, Apart DEF Id
  <2>2. Tasks' = TasksOf(Tail(Pipeline), [data_task EXCEPT ![Head(Pipeline)] = FinalId])
    BY <1>1, <1>4 DEF Tasks, TasksOf
  <2>3. Tasks' = Tail(Tasks) /\ Tasks # <<>> /\ Head(Tasks) = data_task[b]
    BY <1>4, <2>1, <2>2, TasksOfTail
  <2>4. Append(to_client, Head(Tasks)) \o Tail(Tasks) = to_client \o Tasks
    BY <2>1, <2>3, MoveAcross
  <2>5. Received' = Received
    BY <1>1 DEF Received
  <2>6. to_client' \o Tasks' = to_client \o Tasks
    BY <1>1, <2>3, <2>4
  <2> QED BY <1>1, <2>5, <2>6 DEF PipelineInOrder, clientVars
<1> QED BY <1>5, <1>6, <1>7, <1>8, <1>9

LEMMA ReleaseStep == ASSUME IInv, NEW t \in Threads, Release(t) PROVE IInv'
<1> USE DEF IInv
<1>1. /\ releasing[t] > 0 /\ AddResource(t) /\ releasing' = [releasing EXCEPT ![t] = @ - 1]
      /\ UNCHANGED <<last_buffer, input_queue, output_queue, data_task, compute, stop_flag,
                     clientVars, to_server, to_client, reader, writer>>
  BY DEF Release
<1>2. Pipeline' = Pipeline /\ InUse' = InUse /\ Received' = Received
  BY <1>1, InUseKept DEF Received
<1>3. Ring' /\ Counters'
  BY <1>1, <1>2, RingRelease
<1>4. TypeOK'
  BY <1>1, <1>3 DEF TypeOK, Counters, clientVars
<1>5. PipelineInOrder'
  BY <1>1, <1>2, OrderKept DEF clientVars
<1> QED BY <1>1, <1>3, <1>4, <1>5 DEF Shape, StopShape, clientVars

(* No step breaks the invariant.                                           *)
LEMMA NextIInv == IInv /\ [Next]_vars => IInv'
<1> SUFFICES ASSUME IInv, [Next]_vars PROVE IInv'
  OBVIOUS
<1>1. CASE Primary
  BY <1>1, SendRequestStep, ReceiveResponseStep, CloseStep DEF Primary
<1>2. CASE Reader
  BY <1>2, NextReadStep, OnReadDoneStep, OnReadEndStep, ReaderStopStep, ReaderJoinStep,
     ReaderProcessStep DEF Reader
<1>3. CASE Writer
  BY <1>3, WriterStep, NextWriteStep DEF Writer
<1>4. CASE Compute
  BY <1>4, ComputeTestStep, ComputeSleepStep, ComputeNotifyStep DEF Compute, ComputeWait
<1>5. CASE \E t \in Threads : Release(t)
  BY <1>5, ReleaseStep
<1>6. CASE WriterSpuriousWakeup
  BY <1>6, WriterStep
<1>7. CASE SpuriousWakeup
  BY <1>7, ComputeSleepStep DEF SpuriousWakeup
<1>8. CASE UNCHANGED vars
  <2>1. UNCHANGED <<resources, last_buffer, input_queue, output_queue, data_task, compute,
                    stop_flag, unanswered, closed, to_server, to_client, reader, writer, releasing>>
    BY <1>8 DEF vars, handlerVars, clientVars
  <2>2. Received' = Received
    BY <2>1 DEF Received
  <2> QED BY <2>1, <2>2, QueuesKept DEF IInv, TypeOK, Shape, StopShape, clientVars
<1> QED BY <1>1, <1>2, <1>3, <1>4, <1>5, <1>6, <1>7, <1>8 DEF Next

(* The order of requests and buffers, for every window.                    *)
LEMMA SpecIInv == Spec => []IInv
BY InitIInv, NextIInv, PTL DEF Spec
-----------------------------------------------------------------------------
(* What the primary's credits mean for the number of buffers in use.       *)
Credits == Len(unanswered) <= Window

Lengths ==
    /\ Len(to_client) \in Nat /\ Len(Pipeline) \in Nat /\ Len(Received) \in Nat
    /\ Len(to_server) \in Nat /\ Len(unanswered) \in Nat
    /\ Len(to_client) + Len(Pipeline) + Len(Received) + Len(to_server)
          = Len(unanswered) + (IF closed THEN 1 ELSE 0)

LEMMA LengthFacts == IInv => Lengths
<1> SUFFICES ASSUME IInv PROVE Lengths
  OBVIOUS
<1> USE DEF IInv
<1>1. /\ to_client \in Seq(Id) /\ Tasks \in Seq(Id) /\ Received \in Seq(Id) /\ to_server \in Seq(Id)
      /\ unanswered \in Seq(Id) /\ Len(Tasks) = Len(Pipeline)
  BY Parts
<1> DEFINE last == IF closed THEN <<FinalId>> ELSE <<>>
           s == to_client \o Tasks
           u == s \o Received
<1>2. last \in Seq(Id) /\ Len(last) = IF closed THEN 1 ELSE 0
  <2>1. <<>> \in Seq(Id) /\ <<FinalId>> \in Seq(Id) /\ Len(<<>>) = 0 /\ Len(<<FinalId>>) = 1
    BY EmptySeq DEF Id
  <2> QED BY <2>1
<1>3. u \o to_server = unanswered \o last
  BY DEF PipelineInOrder
<1> HIDE DEF last
<1>4. s \in Seq(Id) /\ Len(s) = Len(to_client) + Len(Pipeline)
  <2>1. s \in Seq(Id) /\ Len(s) = Len(to_client) + Len(Tasks)
    BY <1>1, ConcatProperties
  <2> HIDE DEF s
  <2> QED BY <1>1, <2>1
<1> HIDE DEF s
<1>5. u \in Seq(Id) /\ Len(u) = Len(s) + Len(Received)
  BY <1>1, <1>4, ConcatProperties
<1> HIDE DEF u
<1>6. Len(u \o to_server) = Len(u) + Len(to_server) /\ Len(unanswered \o last) = Len(unanswered) + Len(last)
  BY <1>1, <1>2, <1>5, ConcatProperties
<1>7. /\ Len(to_client) \in Nat /\ Len(Pipeline) \in Nat /\ Len(Received) \in Nat
      /\ Len(to_server) \in Nat /\ Len(unanswered) \in Nat
  BY Parts, LenProperties
<1> QED BY <1>2, <1>3, <1>4, <1>5, <1>6, <1>7 DEF Lengths

LEMMA InitCredits == Init => Credits
BY WindowAssumption, EmptySeq DEF Init, Credits

LEMMA NextCredits == IInv /\ Credits /\ [Next]_vars => Credits'
<1> SUFFICES ASSUME IInv, Credits, [Next]_vars PROVE Credits'
  OBVIOUS
<1>1. CASE SendRequest
  <2>1. PICK id \in TaskIds : unanswered' = Append(unanswered, id) /\ Len(unanswered) < Window
    BY <1>1 DEF SendRequest
  <2>2. unanswered \in Seq(TaskIds)
    BY DEF IInv, TypeOK
  <2>3. Len(unanswered') = Len(unanswered) + 1 /\ Len(unanswered) \in Nat
    BY <2>1, <2>2, AppendProperties, LenProperties
  <2> QED BY <2>1, <2>3, WindowAssumption DEF Credits
<1>2. CASE ReceiveResponse
  <2>1. IInv'
    BY <1>2, ReceiveResponseStep
  <2>2. Lengths'
    <3>1. IInv' => Lengths'
      BY LengthFacts, PTL
    <3> QED BY <2>1, <3>1
  <2>3. to_client # <<>> /\ to_client' = Tail(to_client)
        /\ UNCHANGED <<handlerVars, closed, to_server, reader, writer, releasing>>
    BY <1>2 DEF ReceiveResponse
  <2>4. Pipeline' = Pipeline /\ Received' = Received
    BY <2>3 DEF handlerVars, Pipeline, Received
  <2>5. Len(to_client') = Len(to_client) - 1
    BY <2>3, HeadTailProperties DEF IInv, TypeOK
  <2>6. Len(unanswered') = Len(unanswered) - 1
    BY <2>2, <2>3, <2>4, <2>5, LengthFacts DEF Lengths
  <2> QED BY <2>6, WindowAssumption DEF Credits
<1>3. CASE unanswered' = unanswered
  BY <1>3 DEF Credits
<1>4. [Next]_vars => SendRequest \/ ReceiveResponse \/ unanswered' = unanswered
  BY DEF Next, Primary, Reader, Writer, Compute, Close, NextRead, OnReadDone, OnReadEnd, ReaderStop,
         ReaderJoin, ReaderProcess, WriterSleep, NextWrite, TakeFromEmptyQueue, OnWriteDone,
         ComputeWait, ComputeNotify, Release, WriterSpuriousWakeup, SpuriousWakeup, vars, clientVars
<1> QED BY <1>1, <1>2, <1>3, <1>4

LEMMA PipelineShort == IInv /\ Credits => Len(Pipeline) <= Window
<1> SUFFICES ASSUME IInv, Credits PROVE Len(Pipeline) <= Window
  OBVIOUS
<1>1. closed => Len(unanswered) = 0
  BY EmptySeq DEF IInv, StopShape
<1> QED BY <1>1, LengthFacts, WindowAssumption DEF Lengths, Credits
-----------------------------------------------------------------------------
(* The theorems.                                                           *)

(* No counter of the handler leaves its range, in particular no thread     *)
(* ever has more than its two buffers free (add_resource), whatever the    *)
(* window, the ids and the number of late add_resource calls.              *)
THEOREM TypeCorrect == Spec => []TypeOK
BY SpecIInv, PTL DEF IInv

(* Every unanswered request is at exactly one place between the primary's  *)
(* send and its receive, the requests are answered in the order they were  *)
(* sent, and the request -1 comes behind them all (process_request, the    *)
(* compute thread, check_response), whatever the window, the ids and the   *)
(* number of late add_resource calls.                                      *)
THEOREM InOrder == Spec => []PipelineInOrder
BY SpecIInv, PTL DEF IInv

LEMMA SpecCredits == Spec => []Credits
BY InitCredits, NextCredits, SpecIInv, PTL DEF Spec

(* NextRead finds a buffer (distmult_server.cc:137) as long as a window of *)
(* them and those that wait for a late add_resource are fewer than the     *)
(* eight, for every window.                                                *)
THEOREM NoExhaustion == Spec => []NoBufferExhaustion
<1>1. IInv /\ Credits => NoBufferExhaustion
  <2> SUFFICES ASSUME IInv, Credits, reader.at = "select", Window + Releasing < 8, NothingFree
               PROVE  FALSE
    BY DEF NoBufferExhaustion
  <2>1. Free = 0
    BY DEF NothingFree, Free, Threads
  <2>2. InUse = Pipeline
    <3>1. reader.buffer = NoBuffer
      BY DEF IInv, Shape
    <3> QED BY <3>1, Parts, ConcatEmptySeq DEF IInv, InUse, Holding
  <2>3. Len(Pipeline) \in Nat /\ Len(Pipeline) <= Window
    BY PipelineShort, LengthFacts DEF Lengths
  <2>4. Releasing \in Int
    BY Counted, SumChanges DEF IInv, Threads
  <2> QED BY <2>1, <2>2, <2>3, <2>4, WindowAssumption DEF IInv, Ring, EightInAll
<1> QED BY <1>1, SpecIInv, SpecCredits, PTL

(* However late an add_resource is, no buffer in use is selected for       *)
(* another request (select_next_buffer, matrix_handler.cc:45).             *)
THEOREM Exclusive == Spec => []BufferExclusive
<1>1. IInv => BufferExclusive
  BY DEF IInv, Ring, InUse, BufferExclusive
<1> QED BY <1>1, SpecIInv, PTL

(* What is known of a buffer whose response is being sent: its             *)
(* add_resource is still to come, or one thread fewer is late; and when    *)
(* it is selected again, a whole window of others is before it.            *)
BeingSent(b) ==
    /\ releasing[Thread(b)] > 0 \/ Window + Releasing < 5
    /\ b = Latest[Thread(b)] \/ Latest[Thread(b)] \in Range(InUse)
    /\ \A n \in DOMAIN InUse : InUse[n] = b => n > Window

Sent == writer.at = "writing" => BeingSent(writer.buffer)

LEMMA BeingSentKept ==
  ASSUME NEW b, BeingSent(b), InUse' = InUse, UNCHANGED <<last_buffer, releasing>>
  PROVE  BeingSent(b)'
BY DEF BeingSent, Latest, Releasing

LEMMA BeingSentSelect ==
  ASSUME IInv, NEW b \in Buffers, BeingSent(b),
         NEW x \in Buffers, SelectNextBuffer(x), InUse' = Append(InUse, x), UNCHANGED releasing
  PROVE  BeingSent(b)'
<1> USE DEF IInv
<1>1. PICK u \in Threads :
            /\ resources[u] > 0 /\ \A v \in Threads : resources[v] <= resources[u]
            /\ Thread(x) = u /\ x # Latest[u]
            /\ Latest'[u] = x
            /\ \A v \in Threads : v # u => Latest'[v] = Latest[v]
  BY SelectFacts
<1> DEFINE t == Thread(b)
<1>2. t \in Threads /\ (b = t \/ b = t + 4)
  BY BufferFacts
<1>3. /\ InUse \in Seq(Buffers) /\ InUse' \in Seq(Buffers)
      /\ Len(InUse) \in Nat /\ DOMAIN InUse' = 1..(Len(InUse) + 1)
      /\ DOMAIN InUse = 1..Len(InUse)
      /\ \A n \in 1..Len(InUse) : InUse'[n] = InUse[n]
      /\ InUse'[Len(InUse) + 1] = x
      /\ Range(InUse') = Range(InUse) \cup {x}
  BY AppendProperties, LenProperties, InjectiveAppend, RingSelect DEF Ring
<1>4. (releasing[t] > 0 \/ Window + Releasing < 5)'
  BY DEF BeingSent, Releasing
<1>5. (b = Latest[t] \/ Latest[t] \in Range(InUse))'
  <2>1. CASE u = t
    BY <1>1, <1>3, <2>1
  <2>2. CASE u # t
    BY <1>1, <1>2, <1>3, <2>2 DEF BeingSent
  <2> QED BY <2>1, <2>2
<1>6. ASSUME x = b PROVE Len(InUse) >= Window
  <2>1. u = t /\ Latest[t] \in Range(InUse) /\ b # Latest[t]
    BY <1>1, <1>6 DEF BeingSent
  <2>2. Latest[t] = t \/ Latest[t] = t + 4
    <3>1. last_buffer[t] % 2 \in {0, 1}
      BY <1>2, LastBufferWrapAssumption DEF Counters
    <3> QED BY <1>2, <3>1 DEF Latest, Threads
  <2>3. Used[t] >= 1
    BY <1>2, <2>1, <2>2 DEF Used
  <2>4. /\ resources[t] + releasing[t] + Used[t] = 2 /\ resources[t] \in 0..2
        /\ releasing[t] \in Nat /\ Used[t] \in 0..2
    BY <1>2, Counted DEF Ring, TwoPerThread
  <2>5. resources[t] = 1 /\ releasing[t] = 0
    BY <1>1, <2>1, <2>3, <2>4
  <2>6. Window + Releasing < 5
    BY <2>5 DEF BeingSent
  <2>7. Free <= 4 /\ Free \in Nat
    <3>1. \A v \in Threads : resources[v] \in 0..1
      BY <1>1, <2>1, <2>5, Counted
    <3> QED BY <3>1 DEF Free, Threads
  <2>8. Releasing \in Int
    BY <1>2, Counted, SumChanges
  <2> QED BY <1>3, <2>6, <2>7, <2>8, WindowAssumption DEF Ring, EightInAll
<1>7. (\A n \in DOMAIN InUse : InUse[n] = b => n > Window)'
  <2> SUFFICES ASSUME NEW n \in DOMAIN InUse', InUse'[n] = b PROVE n > Window
    BY DEF Thread
  <2>1. CASE n \in DOMAIN InUse
    BY <1>3, <2>1 DEF BeingSent
  <2>2. CASE n = Len(InUse) + 1
    BY <1>3, <1>6, <2>2, WindowAssumption
  <2> QED BY <1>3, <2>1, <2>2
<1> QED BY <1>4, <1>5, <1>7 DEF BeingSent

LEMMA BeingSentBuffer ==
  ASSUME NEW b, writer'.buffer = b, BeingSent(b)' PROVE BeingSent(writer.buffer)'
BY DEF BeingSent

LEMMA NextSent == IInv /\ FewLate /\ Sent /\ [Next]_vars => Sent'
<1> SUFFICES ASSUME IInv, FewLate, Sent, [Next]_vars, writer'.at = "writing"
             PROVE  BeingSent(writer.buffer)'
  BY DEF Sent
<1> USE DEF IInv
<1>1. CASE NextWrite
  <2>0. PICK b \in Buffers : b = Head(output_queue)
    BY <1>1, Parts, HeadTailProperties DEF NextWrite, HasResult
  <2>1. /\ output_queue # <<>> /\ output_queue' = Tail(output_queue)
        /\ writer' = [at |-> "writing", buffer |-> b]
        /\ releasing' = [releasing EXCEPT ![Thread(b)] = @ + 1]
        /\ UNCHANGED <<resources, last_buffer, input_queue, compute, reader>>
    BY <1>1, <2>0 DEF NextWrite, HasResult
  <2>2. InUse # <<>> /\ Head(InUse) = b /\ InUse' = Tail(InUse)
    BY <2>0, <2>1, FirstOut
  <2>4. Thread(b) \in Threads
    BY BufferFacts
  <2>5. releasing'[Thread(b)] > 0
    <3>1. releasing'[Thread(b)] = releasing[Thread(b)] + 1 /\ releasing[Thread(b)] \in Nat
      BY <2>1, <2>4, Counted DEF Counters
    <3> QED BY <3>1
  <2>6. b \notin Range(InUse') /\ Range(InUse') = Range(InUse) \ {b}
    BY <2>2, InjectiveTail DEF Ring
  <2>7. b = Latest'[Thread(b)] \/ Latest'[Thread(b)] \in Range(InUse')
    <3>1. 1 \in DOMAIN InUse /\ InUse[1] = b
      BY <2>2, LenProperties, EmptySeq DEF Ring
    <3>2. b = Latest[Thread(b)] \/ Latest[Thread(b)] \in Range(InUse)
      BY <3>1 DEF Ring, LatestBehind, Range
    <3>3. Latest' = Latest
      BY <2>1 DEF Latest
    <3> QED BY <2>6, <3>2, <3>3
  <2>8. \A n \in DOMAIN InUse' : InUse'[n] # b
    BY <2>6 DEF Range
  <2>9. writer'.buffer = b
    BY <2>1
  <2>10. BeingSent(b)'
    BY <2>5, <2>7, <2>8 DEF BeingSent
  <2> QED BY <2>9, <2>10, BeingSentBuffer
<1>2. CASE ~NextWrite
  <2>0. writer' = writer \/ writer'.at # "writing"
    <3>1. CASE WriterSleep \/ TakeFromEmptyQueue \/ OnWriteDone \/ WriterSpuriousWakeup
      BY <3>1 DEF WriterSleep, TakeFromEmptyQueue, OnWriteDone, WriterSpuriousWakeup, TypeOK
    <3>2. CASE ComputeNotify
      BY <3>2 DEF ComputeNotify, TypeOK
    <3>3. CASE Primary \/ Reader
      BY <3>3 DEF Primary, SendRequest, ReceiveResponse, Close, Reader, NextRead, OnReadDone,
                  OnReadEnd, ReaderStop, ReaderJoin, ReaderProcess
    <3>4. CASE ComputeWait \/ SpuriousWakeup \/ (\E u \in Threads : Release(u)) \/ UNCHANGED vars
      BY <3>4 DEF ComputeWait, SpuriousWakeup, Release, vars
    <3> QED BY <1>2, <3>1, <3>2, <3>3, <3>4 DEF Next, Writer, Compute
  <2>1. writer' = writer /\ writer.at = "writing" /\ writer.buffer \in Buffers
    BY <2>0 DEF TypeOK, Shape
  <2>2. PICK b \in Buffers : b = writer.buffer
    BY <2>1
  <2>3. BeingSent(b)
    BY <2>1, <2>2 DEF Sent
  <2>4. CASE NextRead /\ ~NothingFree
    <3>1. PICK x \in Buffers : SelectNextBuffer(x)
                               /\ reader' = [reader EXCEPT !.at = "reading", !.buffer = x]
      BY <2>4 DEF NextRead
    <3>2. /\ reader.buffer = NoBuffer /\ reader'.buffer = x /\ x # NoBuffer
          /\ Pipeline' = Pipeline /\ releasing' = releasing
      BY <2>4, <3>1, BufferFacts DEF NextRead, TypeOK, Shape, Pipeline
    <3>3. InUse = Pipeline /\ InUse' = Pipeline \o <<x>>
      BY <3>2, Parts, ConcatEmptySeq DEF InUse, Holding
    <3>4. InUse' = Append(InUse, x)
      BY <3>3, Parts, AppendIsConcat
    <3>5. BeingSent(b)'
      BY <2>3, <3>1, <3>2, <3>4, BeingSentSelect
    <3> QED BY <2>1, <2>2, <3>5, BeingSentBuffer
  <2>5. CASE \E u \in Threads : Release(u)
    <3>1. PICK u \in Threads : Release(u)
      BY <2>5
    <3>2. /\ releasing[u] > 0 /\ AddResource(u) /\ releasing' = [releasing EXCEPT ![u] = @ - 1]
          /\ UNCHANGED <<last_buffer, input_queue, output_queue, compute, reader>>
      BY <3>1 DEF Release
    <3>3. InUse' = InUse /\ Latest' = Latest
      BY <3>2, InUseKept DEF Latest
    <3>4. Releasing' = Releasing - 1 /\ Window + Releasing' < 5
      <4>1. Releasing \in Int /\ Window + Releasing <= 5
        BY Counted, SumChanges, <3>1 DEF FewLate
      <4>2. Releasing' = Releasing - 1
        BY <3>1, <3>2, <3>3, RingRelease
      <4> QED BY <4>1, <4>2, WindowAssumption
    <3>5. BeingSent(b)'
      BY <2>3, <3>3, <3>4 DEF BeingSent
    <3> QED BY <2>1, <2>2, <3>5, BeingSentBuffer
  <2>6. CASE InUse' = InUse /\ UNCHANGED <<last_buffer, releasing>>
    <3>1. BeingSent(b)'
      BY <2>3, <2>6, BeingSentKept
    <3> QED BY <2>1, <2>2, <3>1, BeingSentBuffer
  <2>7. \/ NextRead /\ ~NothingFree
        \/ \E u \in Threads : Release(u)
        \/ InUse' = InUse /\ UNCHANGED <<last_buffer, releasing>>
    <3>1. CASE NextRead /\ NothingFree
      BY <3>1, InUseKept DEF NextRead, Shape, TypeOK
    <3>2. CASE ReaderProcess
      BY <3>2, ReaderProcessStep DEF ReaderProcess
    <3>3. CASE ComputeTest /\ UNCHANGED <<clientVars, to_server, to_client, reader, writer, releasing>>
      BY <3>3, ComputeTestStep DEF ComputeTest
    <3>4. CASE ComputeNotify
      BY <3>4, ComputeNotifyStep DEF ComputeNotify, ComputeFinish
    <3>5. CASE OnReadDone \/ OnReadEnd \/ ReaderStop \/ ReaderJoin
      BY <3>5, InUseKept DEF OnReadDone, OnReadEnd, ReaderStop, ReaderJoin, StopThreads,
                             NotifyCompute, TypeOK, handlerVars
    <3>6. CASE (ComputeSleep \/ ComputeSpuriousWakeup)
               /\ UNCHANGED <<clientVars, to_server, to_client, reader, writer, releasing>>
      BY <3>6, InUseKept DEF ComputeSleep, ComputeSpuriousWakeup, TypeOK
    <3>7. CASE Primary \/ WriterSleep \/ WriterSpuriousWakeup \/ TakeFromEmptyQueue \/ OnWriteDone
               \/ UNCHANGED vars
      BY <3>7, InUseKept DEF Primary, SendRequest, ReceiveResponse, Close, WriterSleep,
           WriterSpuriousWakeup, TakeFromEmptyQueue, OnWriteDone, vars, handlerVars
    <3> QED BY <1>2, <3>1, <3>2, <3>3, <3>4, <3>5, <3>6, <3>7
            DEF Next, Reader, Writer, Compute, ComputeWait, SpuriousWakeup
  <2> QED BY <2>4, <2>5, <2>6, <2>7
<1> QED BY <1>1, <1>2

(* "There should not be threads working on the same buffer"                *)
(* (matrix_handler.h:66): none is computed or prepared while its response  *)
(* is sent, for every window, as long as the window and the threads        *)
(* between StartWrite and add_resource have never been more than five.     *)
THEOREM ExclusiveWhileFewLate == Spec => ([]FewLate => []OneThreadPerBuffer)
<1>1. Init => Sent
  BY DEF Init, Sent
<1>2. IInv /\ FewLate /\ Sent /\ [Next]_vars => Sent'
  BY NextSent
<1>3. IInv /\ Credits /\ Sent => OneThreadPerBuffer
  <2> SUFFICES ASSUME IInv, Credits, Sent PROVE OneThreadPerBuffer
    OBVIOUS
  <2> USE DEF IInv
  <2> DEFINE busy == output_queue \o Holding(compute.buffer)
  <2>2. busy \in Seq(Buffers) /\ input_queue \in Seq(Buffers) /\ Pipeline = busy \o input_queue
    BY Parts DEF Pipeline
  <2>3. Holding(writer.buffer) \o output_queue \o Holding(compute.buffer) = Holding(writer.buffer) \o busy
    <3>1. writer.buffer \in Buffers \cup {NoBuffer}
      BY DEF TypeOK
    <3>2. Holding(writer.buffer) \in Seq(Buffers)
      BY <3>1, HoldingFacts
    <3>3. output_queue \in Seq(Buffers) /\ Holding(compute.buffer) \in Seq(Buffers)
      BY Parts
    <3> QED BY <3>2, <3>3, ConcatAssociative
  <2> HIDE DEF busy
  <2>4. IsInjective(busy)
    BY <2>2, Apart, InjectiveConcat
  <2>5. CASE writer.at # "writing"
    <3>1. Holding(writer.buffer) \o busy = busy
      BY <2>2, <2>5, ConcatEmptySeq DEF Shape, Holding
    <3> QED BY <2>3, <2>4, <3>1 DEF OneThreadPerBuffer
  <2>6. CASE writer.at = "writing"
    <3> DEFINE b == writer.buffer
    <3>1. b \in Buffers /\ Holding(b) = <<b>>
      BY <2>6 DEF Shape, TypeOK, Holding
    <3>2. ASSUME b \in Range(busy) PROVE FALSE
      <4>1. PICK n \in DOMAIN busy : busy[n] = b
        BY <3>2 DEF Range
      <4>2. /\ Len(busy) \in Nat /\ Len(busy) <= Len(Pipeline) /\ n \in 1..Len(busy)
            /\ Len(Pipeline) \in Nat
            /\ Pipeline[n] = busy[n]
        <5>1. /\ Len(busy) \in Nat /\ DOMAIN busy = 1..Len(busy) /\ Len(input_queue) \in Nat
              /\ Len(busy \o input_queue) = Len(busy) + Len(input_queue)
              /\ \A i \in 1..(Len(busy) + Len(input_queue)) :
                    (busy \o input_queue)[i] = IF i <= Len(busy) THEN busy[i] ELSE input_queue[i - Len(busy)]
          BY <2>2, LenProperties, ConcatProperties
        <5> QED BY <2>2, <4>1, <5>1
      <4>3. n \in DOMAIN InUse /\ InUse[n] = Pipeline[n]
        <5>1. /\ Pipeline \in Seq(Buffers) /\ Holding(reader.buffer) \in Seq(Buffers)
              /\ InUse \in Seq(Buffers) /\ InUse = Pipeline \o Holding(reader.buffer)
          BY Parts DEF InUse
        <5>2. /\ DOMAIN InUse = 1..Len(InUse) /\ Len(Holding(reader.buffer)) \in Nat
              /\ Len(InUse) = Len(Pipeline) + Len(Holding(reader.buffer))
              /\ \A i \in 1..(Len(Pipeline) + Len(Holding(reader.buffer))) :
                    InUse[i] = IF i <= Len(Pipeline) THEN Pipeline[i]
                               ELSE Holding(reader.buffer)[i - Len(Pipeline)]
          BY <5>1, LenProperties, ConcatProperties
        <5> QED BY <4>2, <5>2
      <4>4. n > Window
        BY <2>6, <4>1, <4>2, <4>3 DEF Sent, BeingSent
      <4> QED BY <4>2, <4>4, PipelineShort, WindowAssumption
    <3>3. IsInjective(<<b>> \o busy)
      <4> HIDE DEF b
      <4> QED BY <2>2, <2>4, <3>1, <3>2, InjectiveCons
    <3> QED BY <2>3, <3>1, <3>3 DEF OneThreadPerBuffer
  <2> QED BY <2>5, <2>6
<1> QED BY <1>1, <1>2, <1>3, SpecIInv, SpecCredits, PTL DEF Spec
=============================================================================
