---------------------------- MODULE SessionProofs ----------------------------
(***************************************************************************)
(* Proofs about Session for any number of credits and any set of ids.      *)
(* Before the manager has called Stop nothing but ids of tasks moves;      *)
(* after it nothing but the one request -1, which is at one place: so a    *)
(* call that ends without a loss leaves the writer in a reaction, and the  *)
(* call cannot be done.                                                    *)
(***************************************************************************)
EXTENDS Session, SequenceTheorems, TLAPS

WriterShape ==
    /\ writer.at \notin {"writing", "over", "not found"} => writer.id = Nothing
    /\ writer.at \in {"writing", "not found"} => writer.id # Nothing
    /\ writer.at = "not found" => writer.id # Stop
    /\ writer.at \in {"spinning", "over", "undefined"} => broken

ReaderShape == /\ reader.at = "credited" <=> reader.id # Nothing
               /\ rpc = "constructor" => reader.at = "not started"

DoneShape == /\ done => broken
             /\ rpc = "undefined" => broken

(* Before Stop.                                                            *)
OpenShape ==
    ~closed => /\ task_queue \in Seq(TaskIds) /\ to_server \in Seq(TaskIds)
               /\ writer.id # Stop /\ ~ended

(* NextWrite after the request -1 has been sent.                           *)
NothingToWrite ==
    \/ writer.at = "sent" \/ broken
    \/ writer.by = "reaction" /\ writer.at \in {"test", "asleep"}

(* After Stop: where the request -1 is.                                    *)
StopQueued == task_queue = <<Stop>> /\ to_server = <<>> /\ writer.id = Nothing /\ ~ended
StopTaken == task_queue = <<>> /\ to_server = <<>> /\ writer.id = Stop /\ ~ended
StopSent == task_queue = <<>> /\ to_server = <<Stop>> /\ writer.id = Nothing /\ ~ended /\ NothingToWrite
StopReceived == task_queue = <<>> /\ to_server = <<>> /\ writer.id = Nothing /\ ended /\ NothingToWrite

ClosedShape ==
    closed => /\ to_client = <<>> /\ reader.id = Nothing
              /\ StopQueued \/ StopTaken \/ StopSent \/ StopReceived

IInv == TypeOK /\ WriterShape /\ ReaderShape /\ DoneShape /\ OpenShape /\ ClosedShape
-----------------------------------------------------------------------------
Id == TaskIds \cup {Stop}

LEMMA IdsFacts ==
    /\ \A s \in Seq(TaskIds) : Ids(s) = s
    /\ Ids(<<>>) = <<>> /\ Ids(<<Stop>>) = <<>>
<1>1. ASSUME NEW s \in Seq(TaskIds) PROVE Ids(s) = s
  <2>1. CASE s # <<>>
    <3>1. Len(s) \in 1..Len(s)
      BY <2>1, EmptySeq, LenProperties
    <3>2. s[Len(s)] # Stop
      BY <3>1, ElementOfSeq, IdsAssumption
    <3> QED BY <3>2 DEF Ids, Last
  <2>2. CASE s = <<>>
    BY <2>2 DEF Ids
  <2> QED BY <2>1, <2>2
<1>2. Ids(<<Stop>>) = <<>>
  <2>1. <<Stop>> # <<>> /\ Last(<<Stop>>) = Stop /\ Len(<<Stop>>) = 1
    BY DEF Last
  <2>2. Front(<<Stop>>) = <<>>
    BY <2>1, SubSeqEmpty DEF Front
  <2> QED BY <2>1, <2>2 DEF Ids
<1>3. Ids(<<>>) = <<>>
  BY DEF Ids
<1> QED BY <1>1, <1>2, <1>3

LEMMA UnsentSeq == Unsent \in Seq(TaskIds)
<1>1. CASE writer.id \in TaskIds
  <2>1. Unsent = <<writer.id>>
    BY <1>1 DEF Unsent
  <2> QED BY <1>1, <2>1
<1>2. CASE writer.id \notin TaskIds
  BY <1>2, EmptySeq DEF Unsent
<1> QED BY <1>1, <1>2

(* The queues that an action takes from or adds to.                        *)
LEMMA TailSeq ==
  ASSUME NEW S, NEW s \in Seq(S), s # <<>>
  PROVE  Head(s) \in S /\ Tail(s) \in Seq(S) /\ s = <<Head(s)>> \o Tail(s)
<1>1. /\ Head(s) \in S /\ Tail(s) \in Seq(S) /\ Len(Tail(s)) = Len(s) - 1 /\ Head(s) = s[1]
      /\ \A i \in 1..Len(Tail(s)) : Tail(s)[i] = s[i + 1]
  BY HeadTailProperties
<1> DEFINE h == <<Head(s)>>
           t == Tail(s)
           c == h \o t
<1>2. h \in Seq(S) /\ Len(h) = 1 /\ h[1] = s[1] /\ Len(s) \in Nat \ {0}
  BY <1>1, LenProperties, EmptySeq
<1>3. t \in Seq(S) /\ Len(t) = Len(s) - 1 /\ \A i \in 1..Len(t) : t[i] = s[i + 1]
  BY <1>1
<1> HIDE DEF h, t
<1>4. /\ c \in Seq(S) /\ Len(c) = Len(h) + Len(t)
      /\ \A i \in 1..(Len(h) + Len(t)) : c[i] = IF i <= Len(h) THEN h[i] ELSE t[i - Len(h)]
  BY <1>2, <1>3, ConcatProperties
<1> HIDE DEF c
<1>5. Len(c) = Len(s) /\ \A i \in 1..Len(s) : c[i] = s[i]
  BY <1>2, <1>3, <1>4
<1>6. c = s
  BY <1>4, <1>5, SeqEqual
<1> QED BY <1>1, <1>6 DEF c, h, t
-----------------------------------------------------------------------------
LEMMA InitIInv == Init => IInv
<1> SUFFICES ASSUME Init PROVE IInv
  OBVIOUS
<1> USE DEF Init
<1>1. TypeOK
  BY EmptySeq DEF TypeOK
<1>2. WriterShape /\ ReaderShape /\ DoneShape /\ ClosedShape
  BY DEF WriterShape, ReaderShape, DoneShape, ClosedShape
<1>3. OpenShape
  BY EmptySeq, NothingAssumption DEF OpenShape
<1> QED BY <1>1, <1>2, <1>3 DEF IInv

(* When nothing is underway, nothing is anywhere.                          *)
LEMMA QuietIsEmpty ==
  ASSUME IInv, ~closed, Underway = {}
  PROVE  /\ task_queue = <<>> /\ to_server = <<>> /\ to_client = <<>>
         /\ writer.id = Nothing /\ reader.id = Nothing
<1>0. /\ task_queue \in Seq(TaskIds) /\ to_server \in Seq(TaskIds) /\ to_client \in Seq(TaskIds)
      /\ Ids(task_queue) = task_queue /\ Ids(to_server) = to_server /\ Unsent \in Seq(TaskIds)
  <2>1. Unsent \in Seq(TaskIds)
    BY UnsentSeq
  <2> QED BY <2>1, IdsFacts DEF IInv, OpenShape, TypeOK
<1>1. Unanswered \in Seq(TaskIds) /\ Range(Unanswered) = {} /\ reader.id = Nothing
  BY <1>0, ConcatProperties DEF Unanswered, Underway
<1>2. Unanswered = <<>>
  <2>1. Unanswered # <<>> => Unanswered[1] \in Range(Unanswered)
    BY <1>1, EmptySeq, RangeEquality
  <2> QED BY <1>1, <2>1
<1>3. to_client = <<>> /\ to_server = <<>> /\ Unsent = <<>> /\ task_queue = <<>>
  BY <1>0, <1>2, ConcatProperties, ConcatSimplifications!concIsEmpty DEF Unanswered
<1>4. writer.id \notin TaskIds /\ writer.id # Stop /\ writer.id \in TaskIds \cup {Stop, Nothing}
  BY <1>3 DEF Unsent, IInv, OpenShape, TypeOK
<1> QED BY <1>1, <1>3, <1>4

(* Each action of the session preserves the invariant.                     *)
LEMMA AddTaskIInv == ASSUME IInv, AddTask PROVE IInv'
<1> USE DEF AddTask, IInv, stream
<1>1. PICK id \in TaskIds : on_fly_tasks' = on_fly_tasks \cup {id} /\ task_queue' = Append(task_queue, id)
  BY DEF Queued
<1>2. task_queue' \in Seq(TaskIds) /\ task_queue' \in Seq(Id)
  BY <1>1, AppendProperties DEF OpenShape, TypeOK, Id
<1>3. /\ writer' \in [at : {"test", "asleep", "spinning", "writing", "sent", "over", "undefined",
                           "not found"},
                     by : {"constructor", "reaction"}, id : TaskIds \cup {Stop, Nothing}]
      /\ writer'.id = writer.id
      /\ writer'.at = IF writer.at = "asleep" THEN "test" ELSE writer.at
  BY DEF NotifyWriter, TypeOK
<1>4. TypeOK'
  BY <1>1, <1>2, <1>3 DEF TypeOK, Id
<1>5. WriterShape' /\ ReaderShape' /\ DoneShape'
  BY <1>3 DEF WriterShape, ReaderShape, DoneShape
<1>6. OpenShape' /\ ClosedShape'
  BY <1>2, <1>3 DEF OpenShape, ClosedShape
<1> QED BY <1>4, <1>5, <1>6

LEMMA CallStopIInv == ASSUME IInv, CallStop PROVE IInv'
<1> USE DEF CallStop, IInv, stream
<1>1. /\ task_queue = <<>> /\ to_server = <<>> /\ to_client = <<>>
      /\ writer.id = Nothing /\ reader.id = Nothing
  BY QuietIsEmpty
<1>2. task_queue' = <<Stop>> /\ task_queue' \in Seq(Id)
  BY <1>1 DEF Id
<1>3. /\ writer' \in [at : {"test", "asleep", "spinning", "writing", "sent", "over", "undefined",
                           "not found"},
                     by : {"constructor", "reaction"}, id : TaskIds \cup {Stop, Nothing}]
      /\ writer'.id = writer.id
      /\ writer'.at = IF writer.at = "asleep" THEN "test" ELSE writer.at
  BY DEF NotifyWriter, TypeOK
<1>4. TypeOK'
  BY <1>2, <1>3 DEF TypeOK, Id
<1>5. WriterShape' /\ ReaderShape' /\ DoneShape'
  BY <1>3 DEF WriterShape, ReaderShape, DoneShape
<1>6. OpenShape' /\ ClosedShape'
  BY <1>1, <1>2, <1>3 DEF OpenShape, ClosedShape, StopQueued
<1> QED BY <1>4, <1>5, <1>6

LEMMA ManagerIInv == ASSUME IInv, Manager PROVE IInv'
<1>1. CASE Take
  <2> USE <1>1 DEF Take, IInv, stream
  <2>1. result_queue' \in Seq(TaskIds \cup {Rpi})
    BY TailSeq DEF TypeOK
  <2>3. TypeOK'
    <3>1. /\ UNCHANGED <<task_queue, on_fly_tasks, done, rpc, writer, reader>>
          /\ UNCHANGED <<to_server, to_client, ended, broken, closed>>
      OBVIOUS
    <3>2. TypeOK
      BY Zenon
    <3> USE DEF TypeOK
    <3>3. /\ task_queue' \in Seq(TaskIds \cup {Stop}) /\ to_server' \in Seq(TaskIds \cup {Stop})
          /\ to_client' \in Seq(TaskIds) /\ result_queue' \in Seq(TaskIds \cup {Rpi})
      BY <2>1, <3>1, <3>2, Zenon
    <3>4. /\ on_fly_tasks' \subseteq TaskIds
          /\ done' \in BOOLEAN /\ ended' \in BOOLEAN /\ broken' \in BOOLEAN /\ closed' \in BOOLEAN
      BY <3>1, <3>2
    <3> QED BY <3>1, <3>2, <3>3, <3>4, Zenon
  <2>2. WriterShape' /\ ReaderShape' /\ DoneShape' /\ OpenShape' /\ ClosedShape'
    BY DEF WriterShape, ReaderShape, DoneShape, OpenShape, ClosedShape, StopQueued, StopTaken,
           StopSent, StopReceived, NothingToWrite
  <2> QED BY <2>2, <2>3
<1> QED BY <1>1, AddTaskIInv, CallStopIInv DEF Manager

LEMMA WriterIInv == ASSUME IInv, Writer \/ SpuriousWakeup PROVE IInv'
<1> USE DEF IInv, stream, StopQueued, StopTaken, StopSent, StopReceived, NothingToWrite
<1>1. CASE NextWriteWaits
  BY <1>1, ZenonT(30) DEF NextWriteWaits, TypeOK, WriterShape, ReaderShape, DoneShape, OpenShape, ClosedShape
<1>2. CASE NextWriteStarts
  <2> USE <1>2 DEF NextWriteStarts
  <2>1. task_queue \in Seq(Id) /\ Head(task_queue) \in Id /\ Tail(task_queue) \in Seq(Id)
    BY TailSeq DEF TypeOK, Id
  <2>0. /\ writer'.at \in {"writing", "not found"} /\ writer'.id = Head(task_queue)
        /\ writer'.by = writer.by /\ (writer'.at = "not found" => writer'.id # Stop)
        /\ writer' \in [at : {"writing", "not found"}, by : {"constructor", "reaction"}, id : Id]
    BY <2>1 DEF TypeOK
  <2>2. TypeOK'
    BY <2>0, <2>1, ZenonT(30) DEF TypeOK, Id
  <2>3. WriterShape' /\ ReaderShape' /\ DoneShape'
    BY <2>0, <2>1, NothingAssumption DEF WriterShape, ReaderShape, DoneShape, TypeOK, Id
  <2>4. OpenShape'
    <3>1. ~closed => Head(task_queue) \in TaskIds /\ Tail(task_queue) \in Seq(TaskIds)
      BY TailSeq DEF OpenShape
    <3> QED BY <2>0, <3>1, IdsAssumption DEF OpenShape, TypeOK
  <2>5. ClosedShape'
    <3>1. Head(<<Stop>>) = Stop /\ Tail(<<Stop>>) = <<>>
      OBVIOUS
    <3> QED BY <2>0, <3>1 DEF ClosedShape, TypeOK
  <2> QED BY <2>2, <2>3, <2>4, <2>5
<1>3. CASE NextWriteAfterDone
  BY <1>3 DEF NextWriteAfterDone, TypeOK, WriterShape, ReaderShape, DoneShape, OpenShape, ClosedShape
<1>4. CASE Transmit
  <2> USE <1>4 DEF Transmit
  <2>1. to_server \in Seq(Id) /\ writer.id \in Id /\ Append(to_server, writer.id) \in Seq(Id)
    BY AppendProperties DEF TypeOK, Id, WriterShape
  <2>2. TypeOK'
    BY <2>1 DEF TypeOK, Id
  <2>3. WriterShape' /\ ReaderShape' /\ DoneShape'
    BY DEF WriterShape, ReaderShape, DoneShape, TypeOK
  <2>4. OpenShape'
    <3>1. ~closed => writer.id \in TaskIds /\ Append(to_server, writer.id) \in Seq(TaskIds)
      BY <2>1, AppendProperties DEF OpenShape, Id
    <3> QED BY <3>1, NothingAssumption DEF OpenShape, TypeOK
  <2>5. ClosedShape'
    <3>1. Append(<<>>, Stop) = <<Stop>> /\ Stop # Nothing
      BY NothingAssumption
    <3> QED BY <3>1 DEF ClosedShape, WriterShape, TypeOK
  <2> QED BY <2>2, <2>3, <2>4, <2>5
<1>5. CASE OnWriteDone
  BY <1>5, ZenonT(30) DEF OnWriteDone, TypeOK, WriterShape, ReaderShape, DoneShape, OpenShape, ClosedShape
<1>6. CASE OnWriteFailed
  BY <1>6, ZenonT(30) DEF OnWriteFailed, TypeOK, WriterShape, ReaderShape, DoneShape, OpenShape, ClosedShape
<1>7. CASE SpuriousWakeup
  BY <1>7 DEF SpuriousWakeup, TypeOK, WriterShape, ReaderShape, DoneShape, OpenShape, ClosedShape
<1> QED BY <1>1, <1>2, <1>3, <1>4, <1>5, <1>6, <1>7 DEF Writer

LEMMA ReaderIInv == ASSUME IInv, Reader PROVE IInv'
<1> USE DEF IInv, stream, StopQueued, StopTaken, StopSent, StopReceived, NothingToWrite
<1>1. CASE OnReadDone
  <2> USE <1>1 DEF OnReadDone
  <2>1. Head(to_client) \in TaskIds /\ Tail(to_client) \in Seq(TaskIds)
    BY TailSeq DEF TypeOK
  <2>2. result_queue' \in Seq(TaskIds \cup {Rpi})
    <3>1. <<Rpi>> \in Seq(TaskIds \cup {Rpi})
      OBVIOUS
    <3> QED BY <3>1, ConcatProperties DEF FirstItem, TypeOK
  <2>3. TypeOK'
    BY <2>1, <2>2, ZenonT(30) DEF TypeOK, WithoutEntry
  <2>4. WriterShape' /\ ReaderShape' /\ DoneShape' /\ OpenShape' /\ ClosedShape'
    BY <2>1, NothingAssumption DEF WriterShape, ReaderShape, DoneShape, OpenShape, ClosedShape
  <2> QED BY <2>3, <2>4
<1>2. CASE ReturnResult
  <2> USE <1>2 DEF ReturnResult
  <2>1. reader.id \in TaskIds
    BY DEF ReaderShape, TypeOK
  <2>2. result_queue' \in Seq(TaskIds \cup {Rpi})
    BY <2>1, AppendProperties DEF TypeOK
  <2>3. TypeOK'
    BY <2>2, ZenonT(30) DEF TypeOK
  <2>4. WriterShape' /\ ReaderShape' /\ DoneShape' /\ OpenShape' /\ ClosedShape'
    BY DEF WriterShape, ReaderShape, DoneShape, OpenShape, ClosedShape
  <2> QED BY <2>3, <2>4
<1>3. CASE OnReadEnd
  BY <1>3, ZenonT(30) DEF OnReadEnd, TypeOK, WriterShape, ReaderShape, DoneShape, OpenShape, ClosedShape
<1>4. CASE OnReadDoneInVain
  BY <1>4, ZenonT(30) DEF OnReadDoneInVain, TypeOK, WriterShape, ReaderShape, DoneShape, OpenShape,
                          ClosedShape
<1> QED BY <1>1, <1>2, <1>3, <1>4 DEF Reader

LEMMA RpcThreadIInv == ASSUME IInv, RpcThread PROVE IInv'
<1> USE DEF IInv, stream, StopQueued, StopTaken, StopSent, StopReceived, NothingToWrite
<1>1. CASE StartRead /\ done
  BY <1>1 DEF StartRead, TypeOK, WriterShape, ReaderShape, DoneShape, OpenShape, ClosedShape
<1>2. CASE StartRead /\ ~done
  <2> USE <1>2 DEF StartRead
  <2>1. reader' \in [at : {"reading"}, id : TaskIds \cup {Nothing}]
        /\ reader'.id = reader.id /\ reader'.at = "reading"
    BY DEF TypeOK
  <2>2. reader.at # "credited"
    BY DEF ReaderShape
  <2> QED BY <2>1, <2>2 DEF TypeOK, WriterShape, ReaderShape, DoneShape, OpenShape, ClosedShape
<1>3. CASE Await
  BY <1>3, ZenonT(30) DEF Await, TypeOK, WriterShape, ReaderShape, DoneShape, OpenShape, ClosedShape
<1> QED BY <1>1, <1>2, <1>3 DEF RpcThread

(* gRPC finds the call ended, and no reaction running, only after a loss.  *)
LEMMA OnDoneIInv == ASSUME IInv, OnDone PROVE IInv'
<1> USE DEF IInv, OnDone, stream
<1>1. broken
  <2>1. SUFFICES ASSUME ~broken PROVE FALSE
    OBVIOUS
  <2>2. closed /\ ended
    BY <2>1 DEF OpenShape
  <2>3. NothingToWrite
    BY <2>2 DEF ClosedShape, StopQueued, StopTaken, StopSent, StopReceived
  <2> QED BY <2>1, <2>3 DEF NothingToWrite, InReaction
<1> QED BY <1>1, ZenonT(30) DEF TypeOK, WriterShape, ReaderShape, DoneShape, OpenShape, ClosedShape,
                    StopQueued, StopTaken, StopSent, StopReceived, NothingToWrite

LEMMA NodeIInv == ASSUME IInv, Node PROVE IInv'
<1> USE DEF IInv, stream, StopQueued, StopTaken, StopSent, StopReceived, NothingToWrite
<1>1. CASE Answer
  <2> USE <1>1 DEF Answer
  <2>0. ~closed
    <3>1. Head(<<Stop>>) = Stop
      OBVIOUS
    <3> QED BY <3>1 DEF ClosedShape
  <2>1. Head(to_server) \in TaskIds /\ Tail(to_server) \in Seq(TaskIds)
    BY <2>0, TailSeq DEF OpenShape
  <2>2. to_client' \in Seq(TaskIds) /\ to_server' \in Seq(Id)
    <3>1. to_client' \in Seq(TaskIds)
      BY <2>1, AppendProperties DEF TypeOK
    <3>2. to_server' \in Seq(Id)
      BY TailSeq DEF TypeOK, Id
    <3> QED BY <3>1, <3>2
  <2> QED BY <2>0, <2>1, <2>2 DEF TypeOK, Id, WriterShape, ReaderShape, DoneShape, OpenShape, ClosedShape
<1>2. CASE Finish
  <2> USE <1>2 DEF Finish
  <2>1. closed
    <3>1. ~closed => Head(to_server) \in TaskIds
      BY TailSeq DEF OpenShape
    <3> QED BY <3>1, IdsAssumption
  <2>2. to_server = <<Stop>> /\ to_server' = <<>> /\ task_queue = <<>> /\ writer.id = Nothing
        /\ NothingToWrite
    <3>1. Tail(<<Stop>>) = <<>>
      OBVIOUS
    <3> QED BY <2>1, <3>1 DEF ClosedShape
  <2> QED BY <2>1, <2>2, EmptySeq
          DEF TypeOK, WriterShape, ReaderShape, DoneShape, OpenShape, ClosedShape
<1> QED BY <1>1, <1>2 DEF Node

LEMMA NextIInv == IInv /\ [Next]_vars => IInv'
<1> SUFFICES ASSUME IInv, [Next]_vars PROVE IInv'
  OBVIOUS
<1> USE DEF StopQueued, StopTaken, StopSent, StopReceived, NothingToWrite
<1>1. CASE Break
  BY <1>1, ZenonT(30) DEF Break, IInv, TypeOK, WriterShape, ReaderShape, DoneShape, OpenShape, ClosedShape
<1>2. CASE UNCHANGED vars
  <2> USE <1>2 DEF vars, stream, IInv
  <2>0. /\ UNCHANGED <<task_queue, on_fly_tasks, done, rpc, writer, reader>>
        /\ UNCHANGED <<to_server, to_client, ended, broken, closed, result_queue>>
    OBVIOUS
  <2>1. TypeOK'
    <3> USE DEF TypeOK
    <3>1. /\ task_queue' \in Seq(TaskIds \cup {Stop}) /\ to_server' \in Seq(TaskIds \cup {Stop})
          /\ to_client' \in Seq(TaskIds) /\ result_queue' \in Seq(TaskIds \cup {Rpi})
      BY <2>0, Zenon
    <3>2. TypeOK
      BY Zenon
    <3> QED BY <2>0, <3>1, <3>2, Zenon
  <2>2. WriterShape' /\ ReaderShape' /\ DoneShape' /\ OpenShape' /\ ClosedShape'
    BY DEF WriterShape, ReaderShape, DoneShape, OpenShape, ClosedShape
  <2> QED BY <2>1, <2>2
<1> QED BY <1>1, <1>2, ManagerIInv, WriterIInv, ReaderIInv, RpcThreadIInv, OnDoneIInv, NodeIInv
        DEF Next

LEMMA Invariance == Spec => []IInv
<1> QED BY InitIInv, NextIInv, PTL DEF Spec
-----------------------------------------------------------------------------
(* For any number of credits and any ids, what the queues, the stream and  *)
(* the map of a client hold is what they are declared to hold.             *)
THEOREM TypeCorrect == Spec => []TypeOK
<1>1. IInv => TypeOK
  BY DEF IInv
<1> QED BY <1>1, Invariance, PTL

(* Without the loss of its stream a client never spins in NextWrite with   *)
(* task_lock_ held (distmult_client.cc:177) nor uses a call that is done,  *)
(* however long it runs and however it is told to stop.                    *)
THEOREM NothingStrandsWithoutLoss == Spec => []OnlyALossStrands
<1>1. IInv => OnlyALossStrands
  BY DEF IInv, WriterShape, DoneShape, OnlyALossStrands
<1> QED BY <1>1, Invariance, PTL
-----------------------------------------------------------------------------
(* What is unanswered is four queues, one after the other, and an id that  *)
(* goes from one to the next stays where it is in the whole.               *)
Cat(a, b, c, d) == a \o b \o c \o d

LEMMA HeadOfConcat ==
  ASSUME NEW S, NEW x \in S, NEW s \in Seq(S)
  PROVE  LET c == <<x>> \o s IN c # <<>> /\ Head(c) = x /\ Tail(c) = s
<1> DEFINE h == <<x>>
           c == h \o s
<1>1. h \in Seq(S) /\ Len(h) = 1 /\ h[1] = x /\ Len(s) \in Nat
  BY LenProperties
<1> HIDE DEF h
<1>2. /\ c \in Seq(S) /\ Len(c) = 1 + Len(s)
      /\ \A i \in 1..(1 + Len(s)) : c[i] = IF i <= 1 THEN h[i] ELSE s[i - 1]
  <2>1. /\ c \in Seq(S) /\ Len(c) = Len(h) + Len(s)
        /\ \A i \in 1..(Len(h) + Len(s)) : c[i] = IF i <= Len(h) THEN h[i] ELSE s[i - Len(h)]
    BY <1>1, ConcatProperties
  <2> HIDE DEF c
  <2> QED BY <1>1, <2>1
<1> HIDE DEF c
<1>3. c # <<>>
  BY <1>1, <1>2, EmptySeq
<1>4. /\ Head(c) = c[1] /\ Tail(c) \in Seq(S) /\ Len(Tail(c)) = Len(c) - 1
      /\ \A i \in 1..Len(Tail(c)) : Tail(c)[i] = c[i + 1]
  BY <1>2, <1>3, HeadTailProperties
<1>5. Len(Tail(c)) = Len(s) /\ \A i \in 1..Len(s) : Tail(c)[i] = s[i]
  BY <1>1, <1>2, <1>4
<1>6. Tail(c) = s
  BY <1>4, <1>5, SeqEqual
<1>7. Head(c) = x
  BY <1>1, <1>2, <1>4
<1> QED BY <1>3, <1>6, <1>7 DEF c, h

LEMMA Associative ==
  ASSUME NEW S
  PROVE  /\ \A s, t \in Seq(S) : s \o t \in Seq(S)
         /\ \A s, t, u \in Seq(S) : (s \o t) \o u = s \o (t \o u)
         /\ \A s \in Seq(S) : s \o <<>> = s
<1>1. ASSUME NEW s \in Seq(S), NEW t \in Seq(S) PROVE s \o t \in Seq(S)
  BY ConcatProperties
<1>2. ASSUME NEW s \in Seq(S), NEW t \in Seq(S), NEW u \in Seq(S) PROVE (s \o t) \o u = s \o (t \o u)
  OBVIOUS
<1>3. ASSUME NEW s \in Seq(S) PROVE s \o <<>> = s
  BY ConcatEmptySeq, Zenon
<1> QED BY <1>1, <1>2, <1>3, Zenon

LEMMA CatType ==
  ASSUME NEW S, NEW a \in Seq(S), NEW b \in Seq(S), NEW c \in Seq(S), NEW d \in Seq(S)
  PROVE  Cat(a, b, c, d) \in Seq(S)
<1>1. a \o b \in Seq(S)
  BY Associative, Zenon
<1>2. a \o b \o c \in Seq(S)
  BY <1>1, Associative, Zenon
<1> QED BY <1>2, Associative, Zenon DEF Cat

UnansweredIs ==
    /\ Unanswered \in Seq(TaskIds) /\ Unsent \in Seq(TaskIds)
    /\ ~closed => Unanswered = Cat(to_client, to_server, Unsent, task_queue)
    /\ closed => Unanswered = <<>>

LEMMA UnansweredForm == IInv => UnansweredIs
<1> SUFFICES ASSUME IInv PROVE UnansweredIs
  OBVIOUS
<1> USE DEF IInv, UnansweredIs
<1>1. to_client \in Seq(TaskIds) /\ Unsent \in Seq(TaskIds)
  BY UnsentSeq DEF TypeOK
<1>2. CASE ~closed
  <2>1. /\ task_queue \in Seq(TaskIds) /\ to_server \in Seq(TaskIds)
        /\ Ids(task_queue) = task_queue /\ Ids(to_server) = to_server
    BY <1>2, IdsFacts DEF OpenShape
  <2>2. Cat(to_client, to_server, Unsent, task_queue) \in Seq(TaskIds)
    BY <1>1, <2>1, CatType
  <2> QED BY <1>1, <1>2, <2>1, <2>2, Zenon DEF Unanswered, Cat
<1>3. CASE closed
  <2>1. to_client = <<>> /\ Ids(to_server) = <<>> /\ Ids(task_queue) = <<>> /\ Unsent = <<>>
    BY <1>3, IdsFacts, IdsAssumption, NothingAssumption
    DEF ClosedShape, StopQueued, StopTaken, StopSent, StopReceived, Unsent
  <2>2. <<>> \o <<>> = <<>> /\ <<>> \in Seq(TaskIds)
    BY EmptySeq, ConcatEmptySeq
  <2> QED BY <1>1, <1>3, <2>1, <2>2, Zenon DEF Unanswered
<1> QED BY <1>2, <1>3

LEMMA UnansweredNext == IInv' => UnansweredIs'
<1> QED BY UnansweredForm, PTL

(* add_task puts an id at the end of what is unanswered.                   *)
LEMMA AddTaskAppends ==
  ASSUME IInv, IInv', AddTask
  PROVE  \E id \in TaskIds :
            /\ Unanswered' = Append(Unanswered, id) /\ on_fly_tasks' = on_fly_tasks \cup {id}
<1>1. ~closed /\ ~closed' /\ UNCHANGED <<to_client, to_server>>
  BY DEF AddTask, stream
<1>2. PICK id \in TaskIds :
         on_fly_tasks' = on_fly_tasks \cup {id} /\ task_queue' = Append(task_queue, id)
  BY DEF AddTask, Queued
<1>3. /\ Unanswered = Cat(to_client, to_server, Unsent, task_queue)
      /\ Unanswered' = Cat(to_client', to_server', Unsent', task_queue')
      /\ Unsent \in Seq(TaskIds)
  BY <1>1, UnansweredForm, UnansweredNext DEF UnansweredIs
<1>4. Unsent' = Unsent
  <2>1. writer'.id = writer.id
    BY DEF AddTask, NotifyWriter, IInv, TypeOK
  <2> QED BY <2>1 DEF Unsent
<1>5. to_client \in Seq(TaskIds) /\ to_server \in Seq(TaskIds) /\ task_queue \in Seq(TaskIds)
  BY <1>1 DEF IInv, TypeOK, OpenShape
<1> DEFINE o == <<id>>
<1>6. o \in Seq(TaskIds) /\ task_queue' = task_queue \o o
  BY <1>2, <1>5, AppendIsConcat
<1> HIDE DEF o
<1>7. Unanswered' = Unanswered \o o
  <2>1. /\ to_client \in Seq(TaskIds) /\ to_server \in Seq(TaskIds) /\ Unsent \in Seq(TaskIds)
        /\ task_queue \in Seq(TaskIds) /\ o \in Seq(TaskIds)
    BY <1>3, <1>5, <1>6
  <2>2. Cat(to_client, to_server, Unsent, task_queue \o o) = Cat(to_client, to_server, Unsent, task_queue) \o o
    BY <2>1, SMTT(30) DEF Cat
  <2> QED BY <1>1, <1>3, <1>4, <1>6, <2>2, Zenon
<1>8. Unanswered' = Append(Unanswered, id)
  <2>1. Unanswered \in Seq(TaskIds)
    BY UnansweredForm DEF UnansweredIs
  <2> QED BY <1>7, <2>1, AppendIsConcat DEF o
<1> QED BY <1>2, <1>8

(* OnReadDone takes the id at the head.                                    *)
LEMMA OnReadDoneTakes ==
  ASSUME IInv, IInv', OnReadDone
  PROVE  /\ ~closed /\ to_client # <<>> /\ Head(to_client) \in TaskIds
         /\ Unanswered = <<Head(to_client)>> \o Unanswered'
<1>1. ~closed /\ ~closed' /\ to_client # <<>> /\ UNCHANGED <<to_server, task_queue, writer>>
      /\ to_client' = Tail(to_client)
  BY DEF OnReadDone, IInv, ClosedShape
<1>2. /\ Unanswered = Cat(to_client, to_server, Unsent, task_queue)
      /\ Unanswered' = Cat(to_client', to_server, Unsent, task_queue)
      /\ Unsent \in Seq(TaskIds)
  BY <1>1, UnansweredForm, UnansweredNext DEF UnansweredIs, Unsent
<1>3. to_client \in Seq(TaskIds) /\ to_server \in Seq(TaskIds) /\ task_queue \in Seq(TaskIds)
  BY <1>1 DEF IInv, TypeOK, OpenShape
<1> DEFINE o == <<Head(to_client)>>
<1>4. o \in Seq(TaskIds) /\ to_client = o \o to_client' /\ to_client' \in Seq(TaskIds)
      /\ Head(to_client) \in TaskIds
  <2>1. Head(to_client) \in TaskIds /\ Tail(to_client) \in Seq(TaskIds) /\ to_client = o \o Tail(to_client)
    BY <1>1, <1>3, TailSeq
  <2>2. o \in Seq(TaskIds)
    BY <2>1
  <2> QED BY <1>1, <2>1, <2>2, Zenon
<1> HIDE DEF o
<1>5. Unanswered = o \o Unanswered'
  <2>1. Cat(o \o to_client', to_server, Unsent, task_queue) = o \o Cat(to_client', to_server, Unsent, task_queue)
    <3>1. /\ to_client' \in Seq(TaskIds) /\ to_server \in Seq(TaskIds) /\ Unsent \in Seq(TaskIds)
          /\ task_queue \in Seq(TaskIds) /\ o \in Seq(TaskIds)
      BY <1>2, <1>3, <1>4
    <3> DEFINE ab == to_client' \o to_server
               abc == ab \o Unsent
    <3>2. (o \o to_client') \o to_server = o \o ab /\ ab \in Seq(TaskIds)
      <4>1. (o \o to_client') \o to_server = o \o ab
        BY <3>1
      <4> QED BY <3>1, <4>1, Associative, Zenon
    <3> HIDE DEF ab
    <3>3. (o \o ab) \o Unsent = o \o abc /\ abc \in Seq(TaskIds)
      <4>1. (o \o ab) \o Unsent = o \o abc
        BY <3>1, <3>2, SMTT(30)
      <4> QED BY <3>1, <3>2, <4>1, Associative, Zenon
    <3> HIDE DEF abc
    <3>4. (o \o abc) \o task_queue = o \o (abc \o task_queue)
      BY <3>1, <3>3, SMTT(30)
    <3> QED BY <3>2, <3>3, <3>4, Zenon DEF Cat, ab, abc
  <2> QED BY <1>2, <1>4, <2>1, Zenon
<1> QED BY <1>1, <1>4, <1>5 DEF o

(* Every other step leaves it as it is, though ids move on.                *)
LEMMA OthersKeep ==
  ASSUME IInv, IInv', [Next]_vars, ~AddTask, ~OnReadDone
  PROVE  Unanswered' = Unanswered
<1> DEFINE Same == UNCHANGED <<task_queue, to_server, to_client, closed>> /\ writer'.id = writer.id
<1>f. /\ Unanswered \in Seq(TaskIds) /\ Unsent \in Seq(TaskIds)
      /\ ~closed => Unanswered = Cat(to_client, to_server, Unsent, task_queue)
      /\ closed => Unanswered = <<>>
      /\ ~closed' => Unanswered' = Cat(to_client', to_server', Unsent', task_queue')
      /\ closed' => Unanswered' = <<>>
  BY UnansweredForm, UnansweredNext DEF UnansweredIs
<1>t. ~closed => to_client \in Seq(TaskIds) /\ to_server \in Seq(TaskIds) /\ task_queue \in Seq(TaskIds)
  BY DEF IInv, TypeOK, OpenShape
<1>1. CASE Same
  <2>1. Unsent' = Unsent
    BY <1>1 DEF Unsent
  <2> QED BY <1>1, <1>f, <2>1, Zenon
<1>2. CASE closed /\ closed'
  BY <1>2, <1>f
<1>3. CASE NextWriteStarts
  <2>1. /\ UNCHANGED <<to_server, to_client, closed>> /\ task_queue # <<>>
        /\ task_queue' = Tail(task_queue) /\ writer'.id = Head(task_queue) /\ writer.id = Nothing
    BY <1>3 DEF NextWriteStarts, stream, IInv, TypeOK, WriterShape
  <2>2. CASE ~closed
    <3> DEFINE o == <<Head(task_queue)>>
    <3>1. Head(task_queue) \in TaskIds /\ Tail(task_queue) \in Seq(TaskIds) /\ task_queue = o \o Tail(task_queue)
      BY <1>t, <2>1, <2>2, TailSeq
    <3>2. Unsent = <<>> /\ Unsent' = o /\ o \in Seq(TaskIds)
      BY <2>1, <3>1, NothingAssumption DEF Unsent
    <3> HIDE DEF o
    <3>3. Cat(to_client, to_server, o, Tail(task_queue)) = Cat(to_client, to_server, <<>>, o \o Tail(task_queue))
      <4>1. /\ to_client \in Seq(TaskIds) /\ to_server \in Seq(TaskIds)
            /\ Tail(task_queue) \in Seq(TaskIds) /\ o \in Seq(TaskIds)
        BY <1>t, <2>2, <3>1, <3>2
      <4> QED BY <4>1, SMTT(30) DEF Cat
    <3> QED BY <1>f, <2>1, <2>2, <3>1, <3>2, <3>3, Zenon
  <2> QED BY <2>1, <2>2, <1>2
<1>4. CASE Transmit
  <2>1. /\ UNCHANGED <<task_queue, to_client, closed>> /\ to_server' = Append(to_server, writer.id)
        /\ writer'.id = Nothing /\ writer.id \in TaskIds \cup {Stop}
    BY <1>4 DEF Transmit, IInv, TypeOK, WriterShape
  <2>2. CASE ~closed
    <3> DEFINE o == <<writer.id>>
    <3>1. writer.id \in TaskIds
      BY <2>1, <2>2 DEF IInv, OpenShape
    <3>2. Unsent = o /\ Unsent' = <<>> /\ o \in Seq(TaskIds)
      BY <2>1, <3>1, NothingAssumption DEF Unsent
    <3>3. to_server' = to_server \o o
      BY <1>t, <2>1, <2>2, <3>1, AppendIsConcat
    <3> HIDE DEF o
    <3>4. Cat(to_client, to_server \o o, <<>>, task_queue) = Cat(to_client, to_server, o, task_queue)
      <4>1. /\ to_client \in Seq(TaskIds) /\ to_server \in Seq(TaskIds)
            /\ task_queue \in Seq(TaskIds) /\ o \in Seq(TaskIds)
        BY <1>t, <2>2, <3>1, <3>2
      <4> QED BY <4>1 DEF Cat
    <3> QED BY <1>f, <2>1, <2>2, <3>2, <3>3, <3>4, Zenon
  <2> QED BY <2>1, <2>2, <1>2
<1>5. CASE Answer
  <2>1. /\ UNCHANGED <<task_queue, closed, writer>> /\ to_server # <<>>
        /\ to_client' = Append(to_client, Head(to_server)) /\ to_server' = Tail(to_server)
    BY <1>5 DEF Answer
  <2>2. CASE ~closed
    <3> DEFINE o == <<Head(to_server)>>
    <3>1. Head(to_server) \in TaskIds /\ Tail(to_server) \in Seq(TaskIds) /\ to_server = o \o Tail(to_server)
      BY <1>t, <2>1, <2>2, TailSeq
    <3>2. Unsent' = Unsent /\ o \in Seq(TaskIds)
      BY <2>1, <3>1 DEF Unsent
    <3>3. to_client' = to_client \o o
      BY <1>t, <2>1, <2>2, <3>1, AppendIsConcat
    <3> HIDE DEF o
    <3>4. Cat(to_client \o o, Tail(to_server), Unsent, task_queue)
            = Cat(to_client, o \o Tail(to_server), Unsent, task_queue)
      <4>1. /\ to_client \in Seq(TaskIds) /\ Tail(to_server) \in Seq(TaskIds) /\ Unsent \in Seq(TaskIds)
            /\ task_queue \in Seq(TaskIds) /\ o \in Seq(TaskIds)
        BY <1>f, <1>t, <2>2, <3>1, <3>2
      <4> QED BY <4>1 DEF Cat
    <3> QED BY <1>f, <2>1, <2>2, <3>1, <3>2, <3>3, <3>4, Zenon
  <2> QED BY <2>1, <2>2, <1>2
<1>6. CASE Finish
  <2>1. closed /\ closed'
    <3>1. ~closed => Head(to_server) \in TaskIds
      BY <1>6, <1>t, TailSeq DEF Finish
    <3> QED BY <1>6, <3>1, IdsAssumption DEF Finish
  <2> QED BY <2>1, <1>2
<1>7. CASE CallStop
  <2>1. ~closed /\ closed' /\ to_client = <<>> /\ to_server = <<>> /\ task_queue = <<>> /\ writer.id = Nothing
    BY <1>7, QuietIsEmpty DEF CallStop
  <2>2. Unsent = <<>>
    BY <2>1, NothingAssumption DEF Unsent
  <2>3. Unanswered = <<>>
    <3>1. <<>> \o <<>> = <<>>
      OBVIOUS
    <3> QED BY <1>f, <2>1, <2>2, <3>1, Zenon DEF Cat
  <2> QED BY <1>f, <2>1, <2>3
<1>8. CASE Take
  <2>1. Same
    BY <1>8 DEF Take, stream
  <2> QED BY <2>1, <1>1
<1>9. CASE NextWriteWaits \/ NextWriteAfterDone \/ OnWriteDone \/ OnWriteFailed \/ SpuriousWakeup
  <2>1. Same
    BY <1>9 DEF NextWriteWaits, NextWriteAfterDone, OnWriteDone, OnWriteFailed, SpuriousWakeup, stream,
                IInv, TypeOK
  <2> QED BY <2>1, <1>1
<1>10. CASE OnReadDoneInVain \/ ReturnResult \/ OnReadEnd \/ RpcThread \/ OnDone \/ Break \/ UNCHANGED vars
  <2>1. Same
    BY <1>10 DEF OnReadDoneInVain, ReturnResult, OnReadEnd, RpcThread, StartRead, Await, OnDone, Break, vars, stream
  <2> QED BY <2>1, <1>1
<1> QED BY <1>3, <1>4, <1>5, <1>6, <1>7, <1>8, <1>9, <1>10
        DEF Next, Manager, Writer, Reader, Node
-----------------------------------------------------------------------------
(* The map of the client, and the queue of it that ClientQueues keeps.     *)
LEMMA RangeOfAppend ==
  ASSUME NEW S, NEW s \in Seq(S), NEW x \in S
  PROVE  Range(Append(s, x)) = Range(s) \cup {x}
<1> DEFINE t == Append(s, x)
<1>1. /\ Len(s) \in Nat /\ DOMAIN s = 1..Len(s) /\ DOMAIN t = 1..(Len(s) + 1)
      /\ \A i \in 1..Len(s) : t[i] = s[i]
      /\ t[Len(s) + 1] = x
  BY AppendProperties, LenProperties
<1> HIDE DEF t
<1>2. Range(t) = Range(s) \cup {x}
  BY <1>1 DEF Range
<1> QED BY <1>2 DEF t

LEMMA RangeOfConcat ==
  ASSUME NEW S, NEW s \in Seq(S), NEW t \in Seq(S)
  PROVE  s \o t \in Seq(S) /\ Range(s \o t) = Range(s) \cup Range(t)
<1> DEFINE c == s \o t
<1>1. /\ Len(s) \in Nat /\ Len(t) \in Nat /\ DOMAIN s = 1..Len(s) /\ DOMAIN t = 1..Len(t)
      /\ c \in Seq(S) /\ DOMAIN c = 1..(Len(s) + Len(t))
      /\ \A i \in 1..(Len(s) + Len(t)) : c[i] = IF i <= Len(s) THEN s[i] ELSE t[i - Len(s)]
  BY ConcatProperties, LenProperties
<1> HIDE DEF c
<1>2. ASSUME NEW y \in Range(c) PROVE y \in Range(s) \cup Range(t)
  <2>1. PICK i \in 1..(Len(s) + Len(t)) : y = c[i]
    BY <1>1 DEF Range
  <2>2. CASE i <= Len(s)
    <3>1. i \in DOMAIN s /\ y = s[i]
      BY <1>1, <2>1, <2>2
    <3> QED BY <3>1 DEF Range
  <2>3. CASE i > Len(s)
    <3>1. i - Len(s) \in DOMAIN t /\ y = t[i - Len(s)]
      BY <1>1, <2>1, <2>3
    <3> QED BY <3>1 DEF Range
  <2> QED BY <1>1, <2>1, <2>2, <2>3
<1>3. ASSUME NEW y \in Range(s) PROVE y \in Range(c)
  <2>1. PICK i \in 1..Len(s) : y = s[i]
    BY <1>1 DEF Range
  <2>2. i \in DOMAIN c /\ c[i] = s[i]
    BY <1>1
  <2> QED BY <2>1, <2>2 DEF Range
<1>4. ASSUME NEW y \in Range(t) PROVE y \in Range(c)
  <2>1. PICK i \in 1..Len(t) : y = t[i]
    BY <1>1 DEF Range
  <2>2. i + Len(s) \in DOMAIN c /\ c[i + Len(s)] = t[i]
    BY <1>1
  <2> QED BY <2>1, <2>2 DEF Range
<1> QED BY <1>1, <1>2, <1>3, <1>4 DEF c

LEMMA HeadInRange ==
  ASSUME NEW S, NEW s \in Seq(S), s # <<>>
  PROVE  Head(s) \in Range(s)
<1>1. Head(s) = s[1] /\ 1 \in DOMAIN s
  BY HeadTailProperties, LenProperties, EmptySeq
<1> QED BY <1>1 DEF Range

LEMMA InjectiveTail ==
  ASSUME NEW S, NEW s \in Seq(S), s # <<>>, IsInjective(s)
  PROVE  IsInjective(Tail(s)) /\ Range(Tail(s)) = Range(s) \ {Head(s)}
<1> DEFINE t == Tail(s)
<1>1. /\ Len(s) \in Nat \ {0} /\ DOMAIN s = 1..Len(s) /\ DOMAIN t = 1..(Len(s) - 1)
      /\ \A i \in 1..(Len(s) - 1) : t[i] = s[i + 1]
      /\ Head(s) = s[1]
  BY HeadTailProperties, LenProperties, EmptySeq
<1> HIDE DEF t
<1>2. IsInjective(t)
  BY <1>1 DEF IsInjective
<1>3. Range(t) = Range(s) \ {Head(s)}
  <2>1. ASSUME NEW y \in Range(t) PROVE y \in Range(s) /\ y # Head(s)
    BY <1>1 DEF IsInjective, Range
  <2>2. ASSUME NEW y \in Range(s), y # Head(s) PROVE y \in Range(t)
    <3>1. PICK i \in 1..Len(s) : y = s[i]
      BY <1>1 DEF Range
    <3>2. i # 1 /\ i - 1 \in 1..(Len(s) - 1) /\ t[i - 1] = s[i]
      BY <1>1, <2>2, <3>1
    <3> QED BY <1>1, <3>1, <3>2 DEF Range
  <2> QED BY <2>1, <2>2
<1> QED BY <1>2, <1>3 DEF t

LEMMA OnReadDoneTail ==
  ASSUME IInv, IInv', OnReadDone
  PROVE  /\ Unanswered \in Seq(TaskIds) /\ Unanswered # <<>>
         /\ Head(Unanswered) = Head(to_client) /\ Tail(Unanswered) = Unanswered'
<1>1. Unanswered \in Seq(TaskIds) /\ Unanswered' \in Seq(TaskIds)
  BY UnansweredForm, UnansweredNext DEF UnansweredIs
<1> DEFINE h == Head(to_client)
<1>2. h \in TaskIds /\ Unanswered = <<h>> \o Unanswered'
  BY OnReadDoneTakes
<1> HIDE DEF h
<1>3. LET c == <<h>> \o Unanswered' IN c # <<>> /\ Head(c) = h /\ Tail(c) = Unanswered'
  BY <1>1, <1>2, HeadOfConcat
<1> QED BY <1>1, <1>2, <1>3, Zenon DEF h

(* What a queue or the stream has next is unanswered.                      *)
LEMMA NextIsUnanswered ==
  ASSUME IInv
  PROVE  /\ task_queue # <<>> => Head(task_queue) \in Range(Unanswered) \cup {Stop}
         /\ to_client # <<>> => Head(to_client) \in Range(Unanswered)
<1>1. CASE closed
  <2>1. Head(<<Stop>>) = Stop
    OBVIOUS
  <2>2. to_client = <<>> /\ (task_queue = <<>> \/ task_queue = <<Stop>>)
    BY <1>1 DEF IInv, ClosedShape, StopQueued, StopTaken, StopSent, StopReceived
  <2> QED BY <2>1, <2>2
<1>2. CASE ~closed
  <2>1. /\ to_client \in Seq(TaskIds) /\ to_server \in Seq(TaskIds) /\ Unsent \in Seq(TaskIds)
        /\ task_queue \in Seq(TaskIds)
        /\ Unanswered = to_client \o to_server \o Unsent \o task_queue
    BY <1>2, UnansweredForm DEF IInv, TypeOK, OpenShape, UnansweredIs, Cat
  <2> DEFINE ab == to_client \o to_server
             abc == ab \o Unsent
  <2>2. ab \in Seq(TaskIds) /\ Range(to_client) \subseteq Range(ab)
    BY <2>1, RangeOfConcat
  <2> HIDE DEF ab
  <2>3. abc \in Seq(TaskIds) /\ Range(ab) \subseteq Range(abc)
    BY <2>1, <2>2, RangeOfConcat
  <2> HIDE DEF abc
  <2>4. Range(abc \o task_queue) = Range(abc) \cup Range(task_queue)
    BY <2>1, <2>3, RangeOfConcat
  <2>5. Unanswered = abc \o task_queue
    BY <2>1 DEF abc, ab
  <2>6. /\ task_queue # <<>> => Head(task_queue) \in Range(task_queue)
        /\ to_client # <<>> => Head(to_client) \in Range(to_client)
    BY <2>1, HeadInRange
  <2> QED BY <2>2, <2>3, <2>4, <2>5, <2>6
<1> QED BY <1>1, <1>2

LEMMA MapNext ==
  ASSUME IInv, IInv', IdsAreFree, MapIsUnanswered, [Next]_vars
  PROVE  MapIsUnanswered'
<1> USE DEF MapIsUnanswered, InVain
<1>1. Unanswered \in Seq(TaskIds)
  BY UnansweredForm DEF UnansweredIs
<1>2. CASE AddTask
  <2>1. PICK id \in TaskIds :
           Unanswered' = Append(Unanswered, id) /\ on_fly_tasks' = on_fly_tasks \cup {id}
    BY <1>2, AddTaskAppends
  <2>2. Range(Append(Unanswered, id)) = Range(Unanswered) \cup {id}
    <3>1. \A u \in Seq(TaskIds), x \in TaskIds : Range(Append(u, x)) = Range(u) \cup {x}
      BY RangeOfAppend
    <3> QED BY <1>1, <2>1, <3>1, Zenon
  <2>3. ~InVain'
    BY <1>2 DEF AddTask, NotifyWriter, IInv, TypeOK
  <2> QED BY <2>1, <2>2, <2>3
<1>3. CASE OnReadDone
  <2>1. /\ Unanswered # <<>> /\ Head(Unanswered) = Head(to_client) /\ Tail(Unanswered) = Unanswered'
        /\ on_fly_tasks' = on_fly_tasks \ {Head(to_client)}
    BY <1>3, OnReadDoneTail DEF OnReadDone, WithoutEntry
  <2>2. Range(Tail(Unanswered)) = Range(Unanswered) \ {Head(Unanswered)}
    BY <1>1, <2>1, InjectiveTail DEF IdsAreFree
  <2>3. ~InVain'
    BY <1>3 DEF OnReadDone
  <2> QED BY <2>1, <2>2, <2>3
<1>4. CASE ~AddTask /\ ~OnReadDone
  <2>1. Unanswered' = Unanswered
    BY <1>4, OthersKeep
  <2>2. on_fly_tasks' = on_fly_tasks
    BY <1>4 DEF Next, Manager, Writer, Reader, RpcThread, Node, CallStop, Take, NextWriteWaits,
        NextWriteStarts, NextWriteAfterDone, Transmit, OnWriteDone, OnWriteFailed, SpuriousWakeup,
        OnReadDoneInVain, ReturnResult, OnReadEnd, StartRead, Await, OnDone, Answer, Finish, Break, vars
  <2>3. ~OnReadDoneInVain
    BY NextIsUnanswered DEF OnReadDoneInVain, IsFound
  <2>4. ~InVain'
    <3>1. CASE NextWriteStarts
      <4>1. IsFound(Head(task_queue)) \/ Head(task_queue) = Stop
        BY <3>1, NextIsUnanswered DEF NextWriteStarts, IsFound
      <4> QED BY <3>1, <4>1 DEF NextWriteStarts, IInv, TypeOK
    <3>2. CASE CallStop \/ NextWriteWaits \/ NextWriteAfterDone \/ Transmit \/ OnWriteDone
               \/ OnWriteFailed \/ SpuriousWakeup
      BY <3>2 DEF CallStop, NotifyWriter, NextWriteWaits, NextWriteAfterDone, Transmit, OnWriteDone,
                  OnWriteFailed, SpuriousWakeup, IInv, TypeOK
    <3>3. CASE Take \/ ReturnResult \/ OnReadEnd
      <4>1. writer' = writer
        BY <3>3 DEF Take, ReturnResult, OnReadEnd
      <4>2. reader' = reader \/ reader'.at \in {"reading", "over"}
        <5>1. \A x : [reader EXCEPT !.at = x].at = x
          BY DEF IInv, TypeOK
        <5>2. CASE Take
          BY <5>2 DEF Take
        <5>3. CASE ReturnResult
          BY <5>3 DEF ReturnResult
        <5>4. CASE OnReadEnd
          BY <5>1, <5>4 DEF OnReadEnd
        <5> QED BY <3>3, <5>2, <5>3, <5>4
      <4> QED BY <4>1, <4>2
    <3>4. CASE RpcThread
      BY <3>4 DEF RpcThread, StartRead, Await, IInv, TypeOK
    <3>5. CASE OnDone \/ Node \/ Break \/ UNCHANGED vars
      BY <3>5 DEF OnDone, Node, Answer, Finish, Break, vars
    <3> QED BY <1>4, <2>3, <3>1, <3>2, <3>3, <3>4, <3>5 DEF Next, Manager, Writer, Reader
  <2> QED BY <2>1, <2>2, <2>4
<1> QED BY <1>2, <1>3, <1>4

(* For any number of credits and any ids: as long as a client is given no  *)
(* id that it still holds, its map has exactly the ids that are given to   *)
(* it and not answered, each at one place from the queue to the response,  *)
(* and every search of it succeeds (distmult_client.cc:93 and 192).        *)
THEOREM MapIsExact == Spec => MapHasUnanswered
<1>1. Init => MapIsUnanswered
  <2> SUFFICES ASSUME Init PROVE MapIsUnanswered
    OBVIOUS
  <2>1. Unanswered = <<>>
    <3>1. Unsent = <<>> /\ Ids(task_queue) = <<>> /\ Ids(to_server) = <<>> /\ to_client = <<>>
      BY IdsFacts, NothingAssumption DEF Init, Unsent
    <3>2. <<>> \o <<>> = <<>>
      OBVIOUS
    <3> QED BY <3>1, <3>2, Zenon DEF Unanswered
  <2>2. Range(<<>>) = {}
    BY DEF Range
  <2>3. ~InVain
    BY DEF Init, InVain
  <2> QED BY <2>1, <2>2, <2>3, Zenon DEF Init, MapIsUnanswered
<1>2. IInv /\ IInv' /\ IdsAreFree /\ MapIsUnanswered /\ [Next]_vars => MapIsUnanswered'
  BY MapNext
<1> QED BY <1>1, <1>2, Invariance, PTL DEF Spec, MapHasUnanswered

(* The queue of ClientQueues.                                              *)
ClientQueue == Unanswered \o (IF closed THEN <<Stop>> ELSE <<>>)

LEMMA ClientQueueForm ==
  ASSUME IInv, IInv'
  PROVE  /\ ~closed => ClientQueue = Unanswered
         /\ ~closed' => ClientQueue' = Unanswered'
         /\ closed => ClientQueue = <<Stop>>
         /\ closed' => ClientQueue' = <<Stop>>
<1>1. /\ Unanswered \in Seq(TaskIds) /\ Unanswered' \in Seq(TaskIds)
      /\ closed => Unanswered = <<>>
      /\ closed' => Unanswered' = <<>>
  BY UnansweredForm, UnansweredNext DEF UnansweredIs
<1>2. Unanswered \o <<>> = Unanswered /\ Unanswered' \o <<>> = Unanswered'
  BY <1>1, ConcatEmptySeq, Zenon
<1>3. <<>> \o <<Stop>> = <<Stop>>
  OBVIOUS
<1> QED BY <1>1, <1>2, <1>3, Zenon DEF ClientQueue

LEMMA ClientsNext ==
  ASSUME IInv, IInv', [Next]_vars
  PROVE  [Clients!Next]_(Clients!clientVars)
<1> USE DEF Clients!clientVars
<1> DEFINE q == [r \in {Rpi} |-> ClientQueue]
           entries == [r \in {Rpi} |-> on_fly_tasks]
           answering == [r \in {Rpi} |-> reader.id]
<1>q. /\ ~closed => ClientQueue = Unanswered
      /\ ~closed' => ClientQueue' = Unanswered'
      /\ closed => ClientQueue = <<Stop>>
      /\ closed' => ClientQueue' = <<Stop>>
  BY ClientQueueForm
<1>1. CASE AddTask
  <2>1. PICK id \in TaskIds :
           Unanswered' = Append(Unanswered, id) /\ on_fly_tasks' = on_fly_tasks \cup {id}
    BY <1>1, AddTaskAppends
  <2>2. ~closed /\ ~closed' /\ UNCHANGED <<reader, result_queue>>
    BY <1>1 DEF AddTask
  <2>3. ClientQueue' = Append(ClientQueue, id)
    BY <1>q, <2>1, <2>2
  <2>4. /\ q' = [q EXCEPT ![Rpi] = Append(@, id)] /\ UNCHANGED <<answering, result_queue>>
        /\ entries' = [entries EXCEPT ![Rpi] = @ \cup {id}]
    BY <2>1, <2>2, <2>3
  <2>5. Clients!Give(Rpi, id)
    BY <2>4 DEF Clients!Give, ClientQueue
  <2> QED BY <2>5 DEF Clients!Next
<1>2. CASE CallStop
  <2>1. ~closed /\ closed' /\ UNCHANGED <<reader, result_queue>> /\ Unanswered = <<>>
    <3>1. ~AddTask /\ ~OnReadDone
      BY <1>2 DEF AddTask, OnReadDone, CallStop, IInv, TypeOK
    <3>2. Unanswered' = Unanswered
      BY <3>1, OthersKeep
    <3> QED BY <1>2, <3>2, UnansweredNext DEF CallStop, UnansweredIs
  <2>2. ClientQueue' = Append(ClientQueue, Stop)
    BY <1>q, <2>1
  <2>3. q' = [r \in {Rpi} |-> IF r \in {Rpi} THEN Append(q[r], Clients!Stop) ELSE q[r]]
        /\ UNCHANGED <<entries, answering, result_queue>>
    BY <1>2, <2>1, <2>2 DEF CallStop, Stop, Clients!Stop
  <2>4. Clients!Close({Rpi})
    BY <2>3 DEF Clients!Close, ClientQueue
  <2> QED BY <2>4 DEF Clients!Next
<1>3. CASE OnReadDone
  <2>1. /\ Unanswered \in Seq(TaskIds) /\ Unanswered # <<>>
        /\ Head(Unanswered) = Head(to_client) /\ Tail(Unanswered) = Unanswered'
    BY <1>3, OnReadDoneTail
  <2>2. ~closed /\ ~closed' /\ Head(to_client) \in on_fly_tasks
        /\ on_fly_tasks' = on_fly_tasks \ {Head(to_client)}
    BY <1>3, OnReadDoneTakes DEF OnReadDone, IsFound, WithoutEntry
  <2>3. /\ reader.id = Nothing /\ reader'.id = Head(to_client)
        /\ result_queue' = Append(result_queue, Rpi)
    <3>1. reader.id = Nothing /\ reader'.id = Head(to_client) /\ result_queue' = result_queue \o <<Rpi>>
      BY <1>3 DEF OnReadDone, FirstItem, IInv, ReaderShape
    <3>2. result_queue \in Seq(TaskIds \cup {Rpi}) /\ Rpi \in TaskIds \cup {Rpi}
      BY DEF IInv, TypeOK
    <3> QED BY <3>1, <3>2, AppendIsConcat
  <2>4. /\ answering[Rpi] = Nothing /\ q[Rpi] # <<>> /\ Head(q[Rpi]) \in entries[Rpi]
        /\ answering' = [answering EXCEPT ![Rpi] = Head(q[Rpi])]
        /\ entries' = [entries EXCEPT ![Rpi] = @ \ {Head(q[Rpi])}]
        /\ q' = [q EXCEPT ![Rpi] = Tail(@)]
    BY <1>q, <2>1, <2>2, <2>3
  <2>5. Clients!ReturnCredit(Rpi)
    BY <2>3, <2>4 DEF Clients!ReturnCredit, Clients!IsFound, Clients!WithCredit, ClientQueue
  <2> QED BY <2>5 DEF Clients!Next, Clients!Client
<1>4. CASE ~AddTask /\ ~CallStop /\ ~OnReadDone
  <2>1. closed' = closed /\ ClientQueue' = ClientQueue
    <3>1. closed' = closed
      BY <1>4 DEF Next, Manager, Writer, Reader, RpcThread, Node, Take, NextWriteWaits,
        NextWriteStarts, NextWriteAfterDone, Transmit, OnWriteDone, OnWriteFailed, SpuriousWakeup,
        OnReadDoneInVain, ReturnResult, OnReadEnd, StartRead, Await, OnDone, Answer, Finish, Break, vars
    <3>2. Unanswered' = Unanswered
      BY <1>4, OthersKeep
    <3> QED BY <3>1, <3>2 DEF ClientQueue
  <2>2. q' = q /\ entries' = entries
    <3>1. on_fly_tasks' = on_fly_tasks
      BY <1>4 DEF Next, Manager, Writer, Reader, RpcThread, Node, Take, NextWriteWaits,
        NextWriteStarts, NextWriteAfterDone, Transmit, OnWriteDone, OnWriteFailed, SpuriousWakeup,
        OnReadDoneInVain, ReturnResult, OnReadEnd, StartRead, Await, OnDone, Answer, Finish, Break, vars
    <3> QED BY <2>1, <3>1
  <2>3. CASE Take
    <3>1. Clients!Take
      <4>1. result_queue # <<>> /\ result_queue' = Tail(result_queue) /\ answering' = answering
        BY <2>3 DEF Take
      <4> QED BY <2>2, <4>1 DEF Clients!Take, ClientQueue
    <3> QED BY <3>1 DEF Clients!Next
  <2>4. CASE ReturnResult
    <3>1. /\ answering[Rpi] # Nothing /\ result_queue' = Append(result_queue, answering[Rpi])
          /\ answering' = [answering EXCEPT ![Rpi] = Nothing]
      BY <2>4 DEF ReturnResult, IInv, ReaderShape
    <3>2. Clients!ReturnResult(Rpi)
      BY <2>2, <3>1 DEF Clients!ReturnResult, ClientQueue
    <3> QED BY <3>2 DEF Clients!Next, Clients!Client
  <2>5. CASE ~Take /\ ~ReturnResult
    <3>1. UNCHANGED <<reader.id, result_queue>>
      BY <1>4, <2>5 DEF Next, Manager, Writer, Reader, RpcThread, Node, NextWriteWaits,
        NextWriteStarts, NextWriteAfterDone, Transmit, OnWriteDone, OnWriteFailed, SpuriousWakeup,
        OnReadDoneInVain, OnReadEnd, StartRead, Await, OnDone, Answer, Finish, Break, vars, IInv, TypeOK
    <3> QED BY <2>2, <3>1 DEF ClientQueue
  <2> QED BY <2>3, <2>4, <2>5
<1> QED BY <1>1, <1>2, <1>3, <1>4

(* For any number of credits and any ids, whatever happens to the stream,  *)
(* a client does what ClientQueues promises the manager: it answers each   *)
(* task once, in the order it was given them, credit first, until it       *)
(* searches for one in vain.                                               *)
THEOREM ImplementsClients == Spec => ClientsStep
<1>1. Init => Clients!Init
  <2> SUFFICES ASSUME Init PROVE Clients!Init
    OBVIOUS
  <2>1. Unanswered \o (IF closed THEN <<Stop>> ELSE <<>>) = <<>>
    <3>1. Unsent = <<>> /\ Ids(task_queue) = <<>> /\ Ids(to_server) = <<>> /\ to_client = <<>> /\ ~closed
      BY IdsFacts, NothingAssumption DEF Init, Unsent
    <3>2. <<>> \o <<>> = <<>>
      OBVIOUS
    <3> QED BY <3>1, <3>2, Zenon DEF Unanswered
  <2> QED BY <2>1 DEF Init, Clients!Init
<1> QED BY <1>1, ClientsNext, NextIInv, Invariance, PTL DEF Spec, ClientsStep
=============================================================================
