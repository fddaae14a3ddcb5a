--------------------------- MODULE TraceThreadProofs ---------------------------
(***************************************************************************)
(* Proofs about TraceThread and its LockFreeQueue, for every number of     *)
(* handlers, every buffer size and every run of the two threads.           *)
(***************************************************************************)
EXTENDS TraceThread, ProofFacts

-----------------------------------------------------------------------------
(* The queue *)

Waiting == read_cnt..write_cnt-1

\* What each thread knows of the buffer between two of its steps.
QueueInv ==
  /\ QueueTypeOK
  /\ read_cnt <= write_cnt /\ write_cnt - read_cnt <= size
  /\ push_pc \in {"store", "count"} => write_cnt - read_cnt < size
  /\ push_pc # "idle" => pushed \in Data
  /\ push_pc = "count" => slots[write_cnt % size] = pushed
  /\ push_pc = "copy" <=> resize_mutex = "push"
  /\ pop_pc = "read" <=> resize_mutex = "pop"
  /\ pop_pc # "idle" => read_cnt < write_cnt
  /\ pop_pc = "read" => pos = read_cnt % size
  /\ pop_pc = "count" => popped = slots[read_cnt % size]
  /\ \A k \in Waiting : slots[k % size] \in Data

LEMMA QueueInit_Inv == QueueInit => QueueInv
BY QueueAssumption DEF QueueInit, QueueInv, QueueTypeOK, Cells, Waiting

\* Every waiting element is found at its new position.
LEMMA CopiedKeeps ==
    ASSUME QueueInv, NEW n \in Nat \ {0}, size <= n
    PROVE  /\ Copied(n) \in Cells(n)
           /\ \A k \in Waiting : Copied(n)[k % n] = slots[k % size]
<1> DEFINE at(i) == {k \in Waiting : k % n = i}
<1>1. /\ size \in Nat \ {0} /\ read_cnt \in Nat /\ write_cnt \in Nat
      /\ write_cnt - read_cnt <= size
      /\ \A k \in Waiting : slots[k % size] \in Data
  BY DEF QueueInv, QueueTypeOK
<1>2. Copied(n) = [i \in 0..n-1 |->
          IF at(i) = {} THEN NULL ELSE slots[(CHOOSE k \in at(i) : TRUE) % size]]
  BY DEF Copied, Waiting
<1>3. ASSUME NEW i \in 0..n-1, at(i) # {}
      PROVE  (CHOOSE k \in at(i) : TRUE) \in Waiting
  <2>1. (CHOOSE k \in at(i) : TRUE) \in at(i)
    BY <1>3
  <2> QED
    BY <2>1
<1>4. Copied(n) \in Cells(n)
  BY <1>1, <1>2, <1>3 DEF Cells
<1>5. ASSUME NEW k \in Waiting
      PROVE  Copied(n)[k % n] = slots[k % size]
  <2>1. k % n \in 0..n-1 /\ k \in Nat
    BY <1>1, DivMod DEF Waiting
  <2>2. ASSUME NEW j \in at(k % n) PROVE j = k
    <3>1. /\ j \in Nat /\ j % n = k % n
          /\ j - k < n /\ k - j < n
      BY <1>1, <2>2 DEF Waiting
    <3> QED
      BY <2>1, <3>1, ModWindow
  <2>3. k \in at(k % n)
    BY <2>1
  <2>4. (CHOOSE j \in at(k % n) : TRUE) = k
    BY <2>2, <2>3
  <2> HIDE DEF at
  <2> QED
    BY <1>2, <2>1, <2>3, <2>4
<1> QED
  BY <1>4, <1>5

LEMMA PushStartInv == ASSUME QueueInv, NEW d \in Data, PushStart(d) PROVE QueueInv'
BY DEF PushStart, readerVars, QueueInv, QueueTypeOK, Waiting, IsFull

LEMMA LockForIncreaseInv == ASSUME QueueInv, LockForIncrease PROVE QueueInv'
BY DEF LockForIncrease, readerVars, QueueInv, QueueTypeOK, Waiting

LEMMA IncreaseInv == ASSUME QueueInv, increase_buffer PROVE QueueInv'
<1> DEFINE n == size + Chunk
<1>1. /\ push_pc = "copy" /\ push_pc' = "store" /\ resize_mutex = "push" /\ resize_mutex' = "free"
      /\ size' = n /\ slots' = Copied(n)
      /\ UNCHANGED <<read_cnt, write_cnt, pushed, pop_pc, pos, popped>>
  BY DEF increase_buffer, readerVars, QueueInv
<1>2. n \in Nat \ {0} /\ size \in Nat /\ size < n /\ size <= n
  BY QueueAssumption DEF QueueInv, QueueTypeOK
<1>3. slots' \in Cells(n) /\ \A k \in Waiting : slots'[k % n] = slots[k % size]
  <2> HIDE DEF n
  <2> QED
    BY <1>1, <1>2, CopiedKeeps
<1>4. pop_pc # "read"
  BY <1>1 DEF QueueInv
<1>5. pop_pc = "count" => read_cnt \in Waiting
  BY DEF QueueInv, QueueTypeOK, Waiting
<1> QED
  BY <1>1, <1>2, <1>3, <1>4, <1>5 DEF QueueInv, QueueTypeOK, Waiting

\* The slot that is written holds no waiting element.
LEMMA StoreKeeps ==
    ASSUME QueueInv, StoreSlot
    PROVE  \A k \in Waiting : slots'[k % size] = slots[k % size]
<1>1. ASSUME NEW k \in Waiting PROVE k % size # write_cnt % size
  <2>1. /\ k \in Nat /\ write_cnt \in Nat /\ size \in Nat \ {0}
        /\ write_cnt - k < size /\ k - write_cnt < size /\ k # write_cnt
    BY DEF StoreSlot, QueueInv, QueueTypeOK, Waiting
  <2> QED
    BY <2>1, ModWindow
<1> QED
  BY <1>1 DEF StoreSlot, QueueInv, QueueTypeOK, Cells

LEMMA StoreSlotInv == ASSUME QueueInv, StoreSlot PROVE QueueInv'
<1>1. write_cnt % size \in 0..size-1
  <2>1. write_cnt \in Int /\ size \in Nat \ {0}
    BY DEF QueueInv, QueueTypeOK
  <2> QED
    BY <2>1, DivMod
<1>2. slots' \in Cells(size) /\ slots'[write_cnt % size] = pushed
  BY <1>1 DEF StoreSlot, QueueInv, QueueTypeOK, Cells
<1>3. pop_pc = "count" => read_cnt \in Waiting
  BY DEF QueueInv, QueueTypeOK, Waiting
<1>4. /\ push_pc = "store" /\ push_pc' = "count"
      /\ UNCHANGED <<size, read_cnt, write_cnt, resize_mutex, pushed, pop_pc, pos, popped>>
  BY DEF StoreSlot, readerVars
<1> QED
  BY <1>2, <1>3, <1>4, StoreKeeps DEF QueueInv, QueueTypeOK, Waiting

LEMMA CountWriteInv == ASSUME QueueInv, CountWrite PROVE QueueInv'
<1>1. /\ push_pc = "count" /\ push_pc' = "idle" /\ write_cnt' = write_cnt + 1
      /\ UNCHANGED <<slots, size, read_cnt, resize_mutex, pushed, pop_pc, pos, popped>>
  BY DEF CountWrite, readerVars
<1>2. \A k \in Waiting' : k \in Waiting \/ k = write_cnt
  BY <1>1 DEF Waiting, QueueInv, QueueTypeOK
<1> QED
  BY <1>1, <1>2 DEF QueueInv, QueueTypeOK

LEMMA PopEmptyInv == ASSUME QueueInv, PopEmpty PROVE QueueInv'
BY DEF PopEmpty, writerVars, QueueInv, QueueTypeOK, Waiting

LEMMA PopStartInv == ASSUME QueueInv, PopStart PROVE QueueInv'
BY DEF PopStart, writerVars, QueueInv, QueueTypeOK, Waiting

LEMMA PopPositionInv == ASSUME QueueInv, PopPosition PROVE QueueInv'
<1>1. read_cnt % size \in Nat
  BY DivMod DEF QueueInv, QueueTypeOK
<1> QED
  BY <1>1 DEF PopPosition, writerVars, QueueInv, QueueTypeOK, Waiting

LEMMA PopReadInv == ASSUME QueueInv, PopRead PROVE QueueInv'
<1>1. read_cnt \in Waiting
  BY DEF PopRead, QueueInv, QueueTypeOK, Waiting
<1> QED
  BY <1>1 DEF PopRead, writerVars, QueueInv, QueueTypeOK, Waiting

LEMMA CountReadInv == ASSUME QueueInv, CountRead PROVE QueueInv'
<1>1. \A k \in Waiting' : k \in Waiting
  BY DEF CountRead, Waiting, QueueInv, QueueTypeOK
<1> QED
  BY <1>1 DEF CountRead, writerVars, QueueInv, QueueTypeOK

LEMMA QueueNextInv == ASSUME QueueInv, [QueueNext]_queueVars PROVE QueueInv'
<1>1. CASE UNCHANGED queueVars
  BY <1>1 DEF queueVars, writerVars, readerVars, QueueInv, QueueTypeOK, Waiting
<1> QED
  BY <1>1, PushStartInv, LockForIncreaseInv, IncreaseInv, StoreSlotInv, CountWriteInv,
     PopEmptyInv, PopStartInv, PopPositionInv, PopReadInv, CountReadInv
  DEF QueueNext, PushStep, PopStep

-----------------------------------------------------------------------------
(* The queue refines Fifo. The first waiting element is gone with PopRead. *)

First == IF pop_pc = "count" THEN read_cnt + 1 ELSE read_cnt
Queue == [i \in 1..write_cnt - First |-> slots[(First + i - 1) % size]]

LEMMA FirstType ==
    ASSUME QueueInv
    PROVE  /\ First \in Nat /\ write_cnt \in Nat /\ First <= write_cnt
           /\ \A k \in First..write_cnt-1 : k \in Waiting
BY DEF QueueInv, QueueTypeOK, First, Waiting

LEMMA QueueSeq ==
    QueueInv => /\ Queue \in Seq(Data) /\ Len(Queue) = write_cnt - First
                /\ \A i \in 1..write_cnt - First : Queue[i] = slots[(First + i - 1) % size]
<1> HAVE QueueInv
<1>1. /\ First \in Nat /\ write_cnt \in Nat /\ First <= write_cnt
      /\ \A k \in First..write_cnt-1 : k \in Waiting
  BY FirstType
<1>2. \A i \in 1..write_cnt - First : First + i - 1 \in Waiting
  BY <1>1
<1>3. \A i \in 1..write_cnt - First : slots[(First + i - 1) % size] \in Data
  BY <1>2 DEF QueueInv
<1>4. write_cnt - First \in Nat
  BY <1>1
<1> QED
  BY <1>3, <1>4 DEF Queue

LEMMA QueueSeqNext ==
    QueueInv' => /\ Queue' \in Seq(Data) /\ Len(Queue') = write_cnt' - First'
                 /\ \A i \in 1..write_cnt' - First' :
                      Queue'[i] = slots'[(First' + i - 1) % size']
<1>1. (QueueInv => /\ Queue \in Seq(Data) /\ Len(Queue) = write_cnt - First
                   /\ \A i \in 1..write_cnt - First : Queue[i] = slots[(First + i - 1) % size])'
  BY QueueSeq, PTL
<1> QED
  BY <1>1

\* A step that moves no waiting element is a stutter of the abstract queue.
LEMMA SameQueue ==
    ASSUME QueueInv, QueueInv', First' = First, write_cnt' = write_cnt,
           \A k \in Waiting : slots'[k % size'] = slots[k % size]
    PROVE  Queue' = Queue
<1>1. /\ First \in Nat /\ write_cnt \in Nat
      /\ \A k \in First..write_cnt-1 : k \in Waiting
  BY FirstType
<1>2. \A i \in 1..write_cnt - First : First + i - 1 \in Waiting
  BY <1>1
<1> QED
  BY <1>2 DEF Queue

LEMMA QueueStutters ==
    ASSUME QueueInv, QueueInv',
           \/ \E d \in Data : PushStart(d)
           \/ LockForIncrease \/ increase_buffer \/ StoreSlot \/ PopStart \/ PopPosition
           \/ CountRead \/ UNCHANGED queueVars
    PROVE  Queue' = Queue /\ popped' = popped
<1>1. ASSUME UNCHANGED <<slots, size, read_cnt, write_cnt, popped>>,
             (pop_pc = "count") <=> (pop_pc' = "count")
      PROVE  Queue' = Queue /\ popped' = popped
  BY <1>1 DEF Queue, First
<1>2. CASE \/ \E d \in Data : PushStart(d)
           \/ LockForIncrease \/ PopStart \/ PopPosition \/ UNCHANGED queueVars
  BY <1>1, <1>2 DEF PushStart, LockForIncrease, PopStart, PopPosition, queueVars, readerVars,
     writerVars
<1>3. CASE increase_buffer
  <2> DEFINE n == size + Chunk
  <2>1. slots' = Copied(n) /\ size' = n /\ UNCHANGED <<read_cnt, write_cnt, pop_pc, popped>>
    BY <1>3 DEF increase_buffer, readerVars
  <2>2. n \in Nat \ {0} /\ size <= n
    BY QueueAssumption DEF QueueInv, QueueTypeOK
  <2>3. \A k \in Waiting : slots'[k % size'] = slots[k % size]
    <3> HIDE DEF n
    <3> QED
      BY <2>1, <2>2, CopiedKeeps
  <2>4. First' = First
    BY <2>1 DEF First
  <2> QED
    BY <2>1, <2>3, <2>4, SameQueue
<1>4. CASE StoreSlot
  <2>1. UNCHANGED <<size, read_cnt, write_cnt, pop_pc, popped>>
    BY <1>4 DEF StoreSlot, readerVars
  <2>2. First' = First
    BY <2>1 DEF First
  <2> QED
    BY <1>4, <2>1, <2>2, StoreKeeps, SameQueue
<1>5. CASE CountRead
  <2>1. First' = First /\ UNCHANGED <<slots, size, write_cnt, popped>>
    BY <1>5 DEF CountRead, writerVars, First
  <2> QED
    BY <2>1 DEF Queue
<1> QED
  BY <1>2, <1>3, <1>4, <1>5

LEMMA CountWriteIsPush ==
    ASSUME QueueInv, QueueInv', CountWrite
    PROVE  Queue' = Append(Queue, pushed) /\ pushed \in Data /\ popped' = popped
<1>1. /\ write_cnt' = write_cnt + 1 /\ First' = First /\ push_pc = "count"
      /\ UNCHANGED <<slots, size, popped>>
  BY DEF CountWrite, readerVars, First
<1>2. First \in Nat /\ write_cnt \in Nat /\ First <= write_cnt
  BY FirstType
<1>3. /\ Queue \in Seq(Data) /\ Len(Queue) = write_cnt - First
      /\ \A i \in 1..write_cnt - First : Queue[i] = slots[(First + i - 1) % size]
  BY QueueSeq
<1>4. /\ Queue' \in Seq(Data) /\ Len(Queue') = write_cnt + 1 - First
      /\ \A i \in 1..write_cnt + 1 - First : Queue'[i] = slots[(First + i - 1) % size]
  BY <1>1, <1>2, QueueSeqNext
<1>5. pushed \in Data /\ slots[write_cnt % size] = pushed
  BY <1>1 DEF QueueInv
<1> DEFINE appended == Append(Queue, pushed)
<1>6. /\ appended \in Seq(Data) /\ Len(appended) = Len(Queue) + 1
      /\ \A i \in 1..Len(Queue) : appended[i] = Queue[i]
      /\ appended[Len(Queue) + 1] = pushed
  BY <1>3, <1>5, AppendProperties
<1>7. First + (Len(Queue) + 1) - 1 = write_cnt
  BY <1>2, <1>3
<1>8. \A i \in 1..Len(Queue') : Queue'[i] = appended[i]
  <2> HIDE DEF appended
  <2> SUFFICES ASSUME NEW i \in 1..Len(Queue') PROVE Queue'[i] = appended[i]
    OBVIOUS
  <2>1. CASE i = Len(Queue) + 1
    BY <1>2, <1>3, <1>4, <1>5, <1>6, <1>7, <2>1
  <2>2. CASE i \in 1..Len(Queue)
    BY <1>2, <1>3, <1>4, <1>6, <2>2
  <2> QED
    BY <1>2, <1>3, <1>4, <2>1, <2>2
<1>9. Len(Queue') = Len(appended)
  <2> HIDE DEF appended
  <2> QED
    BY <1>2, <1>3, <1>4, <1>6
<1>10. Queue' = appended
  <2> HIDE DEF appended
  <2> QED
    BY <1>4, <1>6, <1>8, <1>9, SeqEqual
<1> QED
  BY <1>1, <1>5, <1>10

LEMMA PopReadIsPop ==
    ASSUME QueueInv, QueueInv', PopRead
    PROVE  Queue # <<>> /\ popped' = Head(Queue) /\ Queue' = Tail(Queue)
<1>1. /\ First = read_cnt /\ First' = read_cnt + 1 /\ popped' = slots[pos]
      /\ pop_pc = "read" /\ UNCHANGED <<slots, size, write_cnt>>
  BY DEF PopRead, writerVars, First
<1>2. First \in Nat /\ write_cnt \in Nat /\ First < write_cnt /\ pos = read_cnt % size
  BY <1>1 DEF QueueInv, QueueTypeOK
<1>3. /\ Queue \in Seq(Data) /\ Len(Queue) = write_cnt - First
      /\ \A i \in 1..write_cnt - First : Queue[i] = slots[(First + i - 1) % size]
  BY QueueSeq
<1>4. /\ Queue' \in Seq(Data) /\ Len(Queue') = write_cnt - (First + 1)
      /\ \A i \in 1..write_cnt - (First + 1) : Queue'[i] = slots[(First + 1 + i - 1) % size]
  BY <1>1, QueueSeqNext
<1>5. Queue # <<>>
  BY <1>2, <1>3
<1>6. Head(Queue) = Queue[1] /\ First + 1 - 1 = read_cnt
  BY <1>1, <1>2, <1>3, <1>5
<1>7. popped' = Head(Queue)
  BY <1>1, <1>2, <1>3, <1>6
<1>8. /\ Tail(Queue) \in Seq(Data) /\ Len(Tail(Queue)) = Len(Queue) - 1
      /\ \A i \in 1..Len(Tail(Queue)) : Tail(Queue)[i] = Queue[i + 1]
  BY <1>3, <1>5, HeadTailProperties
<1>9. \A i \in 1..Len(Queue') : Queue'[i] = Tail(Queue)[i]
  <2> SUFFICES ASSUME NEW i \in 1..Len(Queue') PROVE Queue'[i] = Tail(Queue)[i]
    OBVIOUS
  <2>1. First + 1 + i - 1 = First + (i + 1) - 1 /\ i + 1 \in 1..write_cnt - First
    BY <1>2, <1>4
  <2>2. Queue'[i] = slots[(First + 1 + i - 1) % size]
    BY <1>2, <1>4
  <2>3. Queue[i + 1] = slots[(First + (i + 1) - 1) % size]
    BY <1>3, <2>1
  <2>4. i \in 1..Len(Tail(Queue))
    BY <1>2, <1>3, <1>4, <1>8
  <2> QED
    BY <1>8, <2>1, <2>2, <2>3, <2>4
<1>10. Len(Queue') = Len(Tail(Queue))
  BY <1>2, <1>3, <1>4, <1>8
<1>11. Queue' = Tail(Queue)
  BY <1>4, <1>8, <1>9, <1>10, SeqEqual
<1> QED
  BY <1>5, <1>7, <1>11

LEMMA PopEmptyIsNothing ==
    ASSUME QueueInv, QueueInv', PopEmpty
    PROVE  Queue = <<>> /\ popped' = NULL /\ Queue' = Queue
<1>1. First = read_cnt /\ read_cnt >= write_cnt /\ popped' = NULL
  BY DEF PopEmpty, First
<1>2. Queue' = Queue
  BY DEF PopEmpty, writerVars, Queue, First
<1>3. Len(Queue) = 0 /\ Queue \in Seq(Data)
  BY <1>1, QueueSeq, FirstType
<1> QED
  BY <1>1, <1>2, <1>3

LEMMA QueueStepIsFifo ==
    ASSUME QueueInv, QueueInv', [QueueNext]_queueVars
    PROVE  [Pool!Next]_(Pool!fifoVars)
<1>1. CASE \/ \E d \in Data : PushStart(d)
           \/ LockForIncrease \/ increase_buffer \/ StoreSlot \/ PopStart \/ PopPosition
           \/ CountRead \/ UNCHANGED queueVars
  BY <1>1, QueueStutters DEF Pool!fifoVars, Queue, First
<1>2. CASE CountWrite
  <2>1. PICK d \in Data : d = pushed
    BY <1>2, CountWriteIsPush
  <2>2. Pool!Push(d)
    BY <1>2, <2>1, CountWriteIsPush DEF Pool!Push, Queue, First
  <2> QED
    BY <2>2 DEF Pool!Next
<1>3. CASE PopRead
  BY <1>3, PopReadIsPop DEF Pool!Next, Pool!Pop, Queue, First
<1>4. CASE PopEmpty
  BY <1>4, PopEmptyIsNothing DEF Pool!Next, Pool!PopNothing, Queue, First
<1> QED
  BY <1>1, <1>2, <1>3, <1>4 DEF QueueNext, PushStep, PopStep

-----------------------------------------------------------------------------
(***************************************************************************)
(* The inductive invariant of the two threads.                             *)
(***************************************************************************)

\* A call in progress has the queue; there is a stamp to make when one is asked for.
ControlInv ==
  /\ scenario \in Scenarios
  /\ main_pc = "pop" <=> pop_pc # "idle"
  /\ thread_pc = "push" <=> push_pc # "idle"
  /\ phase = "new" <=> thread_pc = "none"
  /\ main_pc \in {"pop", "got"} => left > 0
  /\ phase \in {"new", "initialize"} => sent + left = scenario.unused
  /\ thread_pc \in {"none", "lock", "waiting"} => stamp_post_buffer = <<>>
  /\ Len(stamp_pre_buffer) <= PreMax
  /\ main_pc \in {"idle", "pop", "got", "exclusive"} => Len(stamp_pre_buffer) < PreMax
  /\ main_pc \in {"full", "sync", "sync_wait", "join"} => stamp_pre_buffer = <<>>

\* Every handler somewhere exists, and none waits twice in the queue.
HandlersExist ==
  /\ Travelling \cup held \cup Returning \cup Free \cup NextHandler \subseteq allocated
  /\ \A j, k \in Waiting : slots[j % size] = slots[k % size] => j = k

\* A message for synchronization is the last item, and what it answers is asked for.
Asking == request = Sync /\ main_pc \in {"flush", "full", "sync", "sync_wait"}
SyncInv ==
  /\ main_pc \in {"sync", "sync_wait"} => request = Sync
  /\ \A i \in DOMAIN Way : Way[i] = Sync => i = Len(Way) /\ Asking /\ ~sync_done
  /\ sync_done => Asking /\ Way = <<>> /\ thread_pc \in {"lock", "waiting", "work"}
  /\ main_pc = "exclusive" /\ phase # "initialize" =>
       Way = <<>> /\ thread_pc \in {"lock", "waiting", "work"}

\* Before the simulation runs the thread has nothing to do, unless the stamps of
\* unconnected signals fill a buffer.
StartInv ==
  phase \in {"new", "initialize"} /\ scenario.unused < PreMax =>
    /\ stamp_post_buffer = <<>> /\ stamp_buffer = <<>>
    /\ Len(stamp_pre_buffer) = sent
    /\ main_pc \in {"idle", "pop", "got", "exclusive"}
    /\ thread_pc \in {"none", "lock", "waiting"}

ThreadInv ==
  /\ QueueInv /\ TypeOK /\ ControlInv
  /\ OneOwner /\ HandlersExist /\ StampsArriveInOrder
  /\ SyncInv /\ StartInv /\ NoLostWakeup

-----------------------------------------------------------------------------
(* Sequences of handlers and messages *)

Item == Data \cup Messages
Stamps(w) == {i \in 1..Len(w) : w[i] \in Data}
Handlers(w) == {w[i] : i \in Stamps(w)}
Distinct(w) == \A i, j \in Stamps(w) : w[i] = w[j] => i = j
\* The stamps n+1 to m, oldest first.
Ordered(w, c, n, m) ==
  /\ {c[w[i]] : i \in Stamps(w)} = n+1..m
  /\ \A i, j \in Stamps(w) : i < j => c[w[i]] < c[w[j]]

LEMMA AppendMessage ==
    ASSUME NEW w \in Seq(Item), NEW x \in Messages
    PROVE  Stamps(Append(w, x)) = Stamps(w) /\ \A i \in Stamps(w) : Append(w, x)[i] = w[i]
<1> DEFINE v == Append(w, x)
<1>1. /\ v \in Seq(Item) /\ Len(v) = Len(w) + 1 /\ Len(w) \in Nat
      /\ \A i \in 1..Len(w) : v[i] = w[i]
      /\ v[Len(w) + 1] = x
  BY AppendProperties, LenProperties DEF Item
<1>2. x \notin Data
  BY ThreadAssumption
<1> HIDE DEF v
<1>3. \A i \in 1..Len(v) : i \in 1..Len(w) \/ i = Len(w) + 1
  BY <1>1
<1>4. Stamps(v) = Stamps(w) /\ \A i \in Stamps(w) : v[i] = w[i]
  BY <1>1, <1>2, <1>3 DEF Stamps
<1> QED
  BY <1>4 DEF v

LEMMA AppendHandler ==
    ASSUME NEW w \in Seq(Item), NEW h \in Data
    PROVE  /\ Len(w) \in Nat /\ Stamps(Append(w, h)) = Stamps(w) \cup {Len(w) + 1}
           /\ \A i \in Stamps(w) : i \in 1..Len(w) /\ Append(w, h)[i] = w[i]
           /\ Append(w, h)[Len(w) + 1] = h
<1> DEFINE v == Append(w, h)
<1>1. /\ v \in Seq(Item) /\ Len(v) = Len(w) + 1 /\ Len(w) \in Nat
      /\ \A i \in 1..Len(w) : v[i] = w[i]
      /\ v[Len(w) + 1] = h
  BY AppendProperties, LenProperties DEF Item
<1> HIDE DEF v
<1>3. \A i \in 1..Len(v) : i \in 1..Len(w) \/ i = Len(w) + 1
  BY <1>1
<1>4. Stamps(v) = Stamps(w) \cup {Len(w) + 1} /\ \A i \in Stamps(w) : i \in 1..Len(w) /\ v[i] = w[i]
  BY <1>1, <1>3 DEF Stamps
<1> QED
  BY <1>1, <1>4 DEF v

\* The positions behind the head move by one.
LEMMA TailStamps ==
    ASSUME NEW w \in Seq(Item), w # <<>>
    PROVE  /\ w[1] = Head(w) /\ \A i \in Stamps(w) : i \in Nat \ {0}
           /\ \A i \in Stamps(Tail(w)) : i + 1 \in Stamps(w) /\ Tail(w)[i] = w[i + 1]
           /\ \A i \in Stamps(w) : i # 1 => i - 1 \in Stamps(Tail(w)) /\ Tail(w)[i - 1] = w[i]
           /\ Head(w) \in Data => 1 \in Stamps(w)
           /\ Head(w) \in Messages => 1 \notin Stamps(w)
<1> DEFINE v == Tail(w)
<1>1. /\ v \in Seq(Item) /\ Len(v) = Len(w) - 1 /\ Len(w) \in Nat \ {0}
      /\ \A i \in 1..Len(v) : v[i] = w[i + 1]
      /\ w[1] = Head(w)
  BY HeadTailProperties, EmptySeq
<1>2. Messages \cap Data = {}
  BY ThreadAssumption
<1> HIDE DEF v
<1>3. \A i \in Stamps(v) : i + 1 \in Stamps(w) /\ v[i] = w[i + 1]
  BY <1>1 DEF Stamps
<1>4. ASSUME NEW i \in Stamps(w), i # 1 PROVE i - 1 \in Stamps(v) /\ v[i - 1] = w[i]
  <2>1. i - 1 \in 1..Len(v) /\ (i - 1) + 1 = i /\ w[i] \in Data
    BY <1>1, <1>4 DEF Stamps
  <2> QED
    BY <1>1, <2>1 DEF Stamps
<1>5. /\ Head(w) \in Data => 1 \in Stamps(w)
      /\ Head(w) \in Messages => 1 \notin Stamps(w)
      /\ \A i \in Stamps(w) : i \in Nat \ {0}
  BY <1>1, <1>2 DEF Stamps
<1> QED
  BY <1>1, <1>3, <1>4, <1>5 DEF v

LEMMA AppendMessageKeeps ==
    ASSUME NEW w \in Seq(Item), NEW x \in Messages
    PROVE  /\ Handlers(Append(w, x)) = Handlers(w)
           /\ Distinct(w) => Distinct(Append(w, x))
           /\ \A c, n, m : Ordered(w, c, n, m) => Ordered(Append(w, x), c, n, m)
<1> DEFINE v == Append(w, x)
<1>1. Stamps(v) = Stamps(w) /\ \A i \in Stamps(w) : v[i] = w[i]
  BY AppendMessage
<1> HIDE DEF v
<1>2. Handlers(v) = Handlers(w) /\ (Distinct(w) => Distinct(v))
  BY <1>1 DEF Handlers, Distinct
<1>3. ASSUME NEW c, NEW n, NEW m, Ordered(w, c, n, m) PROVE Ordered(v, c, n, m)
  BY <1>1, <1>3 DEF Ordered
<1> QED
  BY <1>2, <1>3 DEF v

LEMMA TailMessageKeeps ==
    ASSUME NEW w \in Seq(Item), w # <<>>, Head(w) \in Messages
    PROVE  /\ Handlers(Tail(w)) = Handlers(w)
           /\ Distinct(w) => Distinct(Tail(w))
           /\ \A c, n, m : Ordered(w, c, n, m) => Ordered(Tail(w), c, n, m)
<1> DEFINE v == Tail(w)
<1>1. /\ \A i \in Stamps(v) : i + 1 \in Stamps(w) /\ v[i] = w[i + 1]
      /\ \A i \in Stamps(w) : i \in Nat /\ i - 1 \in Stamps(v) /\ v[i - 1] = w[i]
      /\ \A i \in Stamps(v) : i \in Nat
  BY TailStamps, HeadTailProperties DEF Stamps
<1> HIDE DEF v
<1>2. Handlers(v) = Handlers(w)
  <2>1. ASSUME NEW i \in Stamps(v) PROVE v[i] \in Handlers(w)
    BY <1>1 DEF Handlers
  <2>2. ASSUME NEW i \in Stamps(w) PROVE w[i] \in Handlers(v)
    BY <1>1 DEF Handlers
  <2> QED
    BY <2>1, <2>2 DEF Handlers
<1>3. Distinct(w) => Distinct(v)
  BY <1>1 DEF Distinct
<1>4. ASSUME NEW c, NEW n, NEW m, Ordered(w, c, n, m) PROVE Ordered(v, c, n, m)
  <2>1. {c[v[i]] : i \in Stamps(v)} = {c[w[i]] : i \in Stamps(w)}
    BY <1>1
  <2>2. \A i, j \in Stamps(v) : i < j => i + 1 < j + 1
    BY <1>1
  <2> QED
    BY <1>1, <1>4, <2>1, <2>2 DEF Ordered
<1> QED
  BY <1>2, <1>3, <1>4 DEF v

LEMMA AppendStampKeeps ==
    ASSUME NEW w \in Seq(Item), NEW h \in Data, h \notin Handlers(w), Distinct(w),
           NEW c \in [Data -> Nat], NEW n \in Nat, NEW m \in Nat, n <= m,
           Ordered(w, c, n, m)
    PROVE  /\ Handlers(Append(w, h)) = Handlers(w) \cup {h}
           /\ Distinct(Append(w, h))
           /\ Ordered(Append(w, h), [c EXCEPT ![h] = m + 1], n, m + 1)
<1> DEFINE v == Append(w, h)  d == [c EXCEPT ![h] = m + 1]  l == Len(w) + 1
<1>1. /\ Len(w) \in Nat /\ Stamps(v) = Stamps(w) \cup {l} /\ v[l] = h
      /\ \A i \in Stamps(w) : i \in 1..Len(w) /\ v[i] = w[i] /\ w[i] \in Data
  BY AppendHandler DEF Stamps
<1>2. \A i \in Stamps(w) : i \in Nat /\ i < l
  BY <1>1
<1>3. d[h] = m + 1 /\ \A i \in Stamps(w) : w[i] # h /\ d[w[i]] = c[w[i]] /\ c[w[i]] \in n+1..m
  BY <1>1 DEF Handlers, Ordered
<1> HIDE DEF v, d, l
<1>4. Handlers(v) = Handlers(w) \cup {h}
  BY <1>1 DEF Handlers
<1>5. Distinct(v)
  BY <1>1, <1>3 DEF Distinct
<1>6. {d[v[i]] : i \in Stamps(v)} = {c[w[i]] : i \in Stamps(w)} \cup {m + 1}
  BY <1>1, <1>3
<1>7. {d[v[i]] : i \in Stamps(v)} = n+1..m+1
  <2>1. (n+1..m) \cup {m + 1} = n+1..m+1
    OBVIOUS
  <2> QED
    BY <1>6, <2>1 DEF Ordered
<1>8. ASSUME NEW i \in Stamps(v), NEW j \in Stamps(v), i < j PROVE d[v[i]] < d[v[j]]
  <2>1. CASE i \in Stamps(w) /\ j \in Stamps(w)
    BY <1>1, <1>3, <1>8, <2>1 DEF Ordered
  <2>2. CASE i \in Stamps(w) /\ j = l
    BY <1>1, <1>3, <2>2
  <2>3. CASE i = l
    <3>1. l \in Nat
      BY <1>1 DEF l
    <3> QED
      BY <1>1, <1>2, <1>8, <2>3, <3>1
  <2> QED
    BY <1>1, <2>1, <2>2, <2>3
<1> QED
  BY <1>4, <1>5, <1>7, <1>8 DEF Ordered, v, d

LEMMA TailStampKeeps ==
    ASSUME NEW w \in Seq(Item), w # <<>>, Head(w) \in Data, Distinct(w),
           NEW c \in [Data -> Nat], NEW n \in Nat, NEW m \in Nat, n <= m,
           Ordered(w, c, n, m)
    PROVE  /\ Handlers(Tail(w)) = Handlers(w) \ {Head(w)} /\ Head(w) \in Handlers(w)
           /\ Distinct(Tail(w))
           /\ c[Head(w)] = n + 1 /\ n + 1 <= m
           /\ Ordered(Tail(w), c, n + 1, m)
<1> DEFINE v == Tail(w)  h == Head(w)
<1>1. /\ w[1] = h /\ 1 \in Stamps(w)
      /\ \A i \in Stamps(v) : i \in Nat /\ i + 1 \in Stamps(w) /\ v[i] = w[i + 1]
      /\ \A i \in Stamps(w) : i \in Nat \ {0} /\ (i # 1 => i - 1 \in Stamps(v) /\ v[i - 1] = w[i])
  BY TailStamps DEF Stamps
<1>2. \A i \in Stamps(w) : w[i] \in Data /\ c[w[i]] \in n+1..m
  BY DEF Stamps, Ordered
<1>3. \A i \in Stamps(v) : i > 0
  BY DEF Stamps
<1> HIDE DEF v, h
<1>4. \A i \in Stamps(v) : i + 1 # 1
  BY <1>1, <1>3
<1>5. Handlers(v) = Handlers(w) \ {h} /\ h \in Handlers(w)
  BY <1>1, <1>4 DEF Handlers, Distinct
<1>6. Distinct(v)
  BY <1>1 DEF Distinct
<1>7. \A i \in Stamps(w) : i # 1 => c[h] < c[w[i]]
  BY <1>1 DEF Ordered
<1>8. n + 1 \in {c[w[i]] : i \in Stamps(w)}
  <2>1. c[h] \in n+1..m
    BY <1>1, <1>2
  <2>2. n + 1 \in n+1..m
    BY <2>1
  <2> QED
    BY <2>2 DEF Ordered
<1>9. c[h] = n + 1 /\ n + 1 <= m
  <2>1. PICK i \in Stamps(w) : c[w[i]] = n + 1
    BY <1>8
  <2>2. c[h] \in Nat /\ n + 1 <= c[h] /\ c[h] <= m
    BY <1>1, <1>2
  <2>3. i = 1
    BY <1>7, <2>1, <2>2
  <2> QED
    BY <1>1, <2>1, <2>2, <2>3
<1>10. {c[v[i]] : i \in Stamps(v)} = n+2..m
  <2>1. ASSUME NEW i \in Stamps(v) PROVE c[v[i]] \in n+2..m
    BY <1>1, <1>2, <1>4, <1>7, <1>9, SMTT(30)
  <2>2. ASSUME NEW k \in n+2..m PROVE \E i \in Stamps(v) : c[v[i]] = k
    <3>1. k \in n+1..m
      OBVIOUS
    <3>2. PICK i \in Stamps(w) : c[w[i]] = k
      BY <3>1 DEF Ordered
    <3>3. i # 1
      BY <1>1, <1>9, <3>2
    <3> QED
      BY <1>1, <3>2, <3>3
  <2> QED
    BY <2>1, <2>2
<1>11. ASSUME NEW i \in Stamps(v), NEW j \in Stamps(v), i < j
       PROVE  c[v[i]] < c[v[j]]
  <2>1. i + 1 \in Stamps(w) /\ j + 1 \in Stamps(w) /\ i + 1 < j + 1
    BY <1>1, <1>11
  <2>2. c[w[i + 1]] < c[w[j + 1]]
    BY <2>1 DEF Ordered
  <2> QED
    BY <1>1, <2>2
<1>12. n + 1 + 1 = n + 2
  OBVIOUS
<1> QED
  BY <1>5, <1>6, <1>9, <1>10, <1>11, <1>12 DEF Ordered, v, h

-----------------------------------------------------------------------------
(* Steps of the threads and the queue *)

\* The actions that leave the queue alone.
QuietNext ==
  \/ Initialize \/ Synchronize \/ Enable \/ Close
  \/ AppendStamp \/ Flush \/ EndOfBackPressure \/ WaitForSync \/ Join \/ SetFlags
  \/ Initialized \/ UseFile \/ Closed
  \/ TakeBuffer \/ ThreadWakes \/ BufferDone \/ StoreStamp \/ SignalSync \/ EndThread
  \/ SpuriousWakeup \/ Rest \/ UNCHANGED vars

LEMMA QuietKeepsQueue == QuietNext => UNCHANGED queueVars
BY DEF QuietNext, Initialize, Synchronize, Enable, Close, SendMessage, AppendStamp, Flush,
   EndOfBackPressure, WaitForSync, Join, SetFlags, Initialized, UseFile, Closed, TakeBuffer,
   ThreadWakes, BufferDone, StoreStamp, SignalSync, EndThread, SpuriousWakeup, Rest, vars

LEMMA NextSplit ==
    [Next]_vars => QuietNext \/ GetNew \/ ContinuePop \/ Release \/ ContinuePush
BY DEF Next, MainStart, MainStep, ThreadStep, QuietNext

LEMMA QueueStep == TypeOK /\ [Next]_vars => [QueueNext]_queueVars
<1> SUFFICES ASSUME TypeOK, [Next]_vars PROVE [QueueNext]_queueVars
  OBVIOUS
<1>1. CASE QuietNext
  BY <1>1, QuietKeepsQueue
<1>2. CASE GetNew
  BY <1>2 DEF GetNew, QueueNext
<1>3. CASE ContinuePop
  BY <1>3 DEF ContinuePop, QueueNext
<1>4. CASE Release
  BY <1>4 DEF Release, QueueNext, TypeOK
<1>5. CASE ContinuePush
  BY <1>5 DEF ContinuePush, QueueNext
<1> QED
  BY <1>1, <1>2, <1>3, <1>4, <1>5, NextSplit

-----------------------------------------------------------------------------
(* What a step does to the items on their way *)

LEMMA WayType ==
    TypeOK => /\ Way \in Seq(Item) /\ OnTheWay = Stamps(Way)
              /\ Travelling = Handlers(Way)
<1> HAVE TypeOK
<1>1. /\ stamp_pre_buffer \in Seq(Item) /\ stamp_buffer \in Seq(Item)
      /\ stamp_post_buffer \in Seq(Item)
  BY DEF TypeOK, Item
<1>2. Way \in Seq(Item)
  BY <1>1, ConcatProperties DEF Way
<1>3. DOMAIN Way = 1..Len(Way)
  BY <1>2, LenProperties
<1> QED
  BY <1>2, <1>3 DEF OnTheWay, Travelling, Stamps, Handlers

LEMMA AppendToWay ==
    ASSUME TypeOK, NEW x \in Item, stamp_pre_buffer' = Append(stamp_pre_buffer, x),
           UNCHANGED <<stamp_buffer, stamp_post_buffer>>
    PROVE  Way' = Append(Way, x)
<1> DEFINE s == stamp_post_buffer \o stamp_buffer  p == stamp_pre_buffer
<1>1. s \in Seq(Item) /\ p \in Seq(Item)
  BY ConcatProperties DEF TypeOK, Item
<1>2. Way' = s \o Append(p, x) /\ Way = s \o p
  BY DEF Way
<1> HIDE DEF s, p
<1>3. Append(p, x) = p \o <<x>> /\ <<x>> \in Seq(Item) /\ p \o <<x>> \in Seq(Item)
  BY <1>1, AppendIsConcat, AppendProperties
<1>4. s \o (p \o <<x>>) = (s \o p) \o <<x>>
  BY <1>1, <1>3, ConcatAssociative
<1>5. s \o p \in Seq(Item)
  BY <1>1, ConcatProperties
<1>6. Append(s \o p, x) = (s \o p) \o <<x>>
  BY <1>5, AppendIsConcat
<1> QED
  BY <1>2, <1>3, <1>4, <1>6

LEMMA FlushWay ==
    ASSUME TypeOK, stamp_buffer' = Merged, stamp_pre_buffer' = <<>>,
           UNCHANGED stamp_post_buffer
    PROVE  Way' = Way
<1> DEFINE a == stamp_post_buffer  b == stamp_buffer  c == stamp_pre_buffer
<1>1. a \in Seq(Item) /\ b \in Seq(Item) /\ c \in Seq(Item)
  BY DEF TypeOK, Item
<1>2. Way' = (a \o (b \o c)) \o <<>> /\ Way = (a \o b) \o c
  BY DEF Way, Merged
<1> HIDE DEF a, b, c
<1>3. a \o (b \o c) \in Seq(Item) /\ (a \o b) \o c = a \o (b \o c)
  BY <1>1, ConcatProperties, ConcatAssociative
<1> QED
  BY <1>2, <1>3, ConcatEmptySeq

LEMMA TakeWay ==
    ASSUME TypeOK, stamp_post_buffer = <<>>, stamp_post_buffer' = stamp_buffer,
           stamp_buffer' = <<>>, UNCHANGED stamp_pre_buffer
    PROVE  Way' = Way
<1> DEFINE b == stamp_buffer  c == stamp_pre_buffer
<1>1. b \in Seq(Item)
  BY DEF TypeOK, Item
<1>2. Way' = (b \o <<>>) \o c /\ Way = (<<>> \o b) \o c
  BY DEF Way
<1> HIDE DEF b, c
<1> QED
  BY <1>1, <1>2, ConcatEmptySeq

LEMMA TailOfWay ==
    ASSUME TypeOK, stamp_post_buffer # <<>>, stamp_post_buffer' = Tail(stamp_post_buffer),
           UNCHANGED <<stamp_buffer, stamp_pre_buffer>>
    PROVE  Way # <<>> /\ Head(Way) = Head(stamp_post_buffer) /\ Way' = Tail(Way)
<1> DEFINE a == stamp_post_buffer  b == stamp_buffer  c == stamp_pre_buffer  t == Tail(a)
<1>1. a \in Seq(Item) /\ b \in Seq(Item) /\ c \in Seq(Item) /\ a # <<>>
  BY DEF TypeOK, Item
<1>2. Way' = (t \o b) \o c /\ Way = (a \o b) \o c
  BY DEF Way
<1>3. /\ t \in Seq(Item) /\ Len(t) = Len(a) - 1 /\ Len(a) \in Nat \ {0}
      /\ \A i \in 1..Len(t) : t[i] = a[i + 1]
  BY <1>1, HeadTailProperties, EmptySeq
<1> HIDE DEF a, b, c, t
<1> DEFINE r == b \o c
<1>5. /\ r \in Seq(Item) /\ (a \o b) \o c = a \o r /\ (t \o b) \o c = t \o r
  <2>1. r \in Seq(Item)
    BY <1>1, ConcatProperties
  <2>2. (a \o b) \o c = a \o (b \o c)
    BY <1>1, ConcatAssociative
  <2>3. (t \o b) \o c = t \o (b \o c)
    <3>1. t \in Seq(Item) /\ b \in Seq(Item) /\ c \in Seq(Item)
      BY <1>1, <1>3
    <3> QED
      BY <3>1, ConcatAssociative, SMTT(30)
  <2> QED
    BY <2>1, <2>2, <2>3
<1> HIDE DEF r
<1>6. /\ a \o r \in Seq(Item) /\ Len(a \o r) = Len(a) + Len(r) /\ Len(r) \in Nat
      /\ \A i \in 1..Len(a) + Len(r) : (a \o r)[i] = IF i <= Len(a) THEN a[i] ELSE r[i - Len(a)]
  BY <1>1, <1>5, ConcatProperties, LenProperties
<1>7. /\ t \o r \in Seq(Item) /\ Len(t \o r) = Len(t) + Len(r)
      /\ \A i \in 1..Len(t) + Len(r) : (t \o r)[i] = IF i <= Len(t) THEN t[i] ELSE r[i - Len(t)]
  BY <1>3, <1>5, ConcatProperties
<1>8. a \o r # <<>> /\ Head(a \o r) = (a \o r)[1] /\ Head(a) = a[1]
  BY <1>1, <1>3, <1>6
<1>9. /\ Tail(a \o r) \in Seq(Item) /\ Len(Tail(a \o r)) = Len(a \o r) - 1
      /\ \A i \in 1..Len(Tail(a \o r)) : Tail(a \o r)[i] = (a \o r)[i + 1]
  BY <1>6, <1>8, HeadTailProperties
<1>10. Head(a \o r) = Head(a)
  BY <1>3, <1>6, <1>8
<1>11. Len(t \o r) = Len(Tail(a \o r))
  BY <1>3, <1>6, <1>7, <1>9
<1>12. ASSUME NEW i \in 1..Len(t \o r) PROVE (t \o r)[i] = Tail(a \o r)[i]
  <2>1. Tail(a \o r)[i] = (a \o r)[i + 1] /\ i + 1 \in 1..Len(a) + Len(r) /\ i \in Nat
    BY <1>3, <1>6, <1>7, <1>9, <1>11
  <2>2. CASE i <= Len(t)
    <3>1. (t \o r)[i] = a[i + 1] /\ i + 1 <= Len(a)
      BY <1>3, <1>6, <1>7, <2>1, <2>2
    <3> QED
      BY <1>6, <2>1, <3>1
  <2>3. CASE ~(i <= Len(t))
    <3>1. ~(i + 1 <= Len(a)) /\ i + 1 - Len(a) = i - Len(t)
      BY <1>3, <2>1, <2>3
    <3> QED
      BY <1>6, <1>7, <2>1, <2>3, <3>1
  <2> QED
    BY <2>2, <2>3
<1>13. t \o r = Tail(a \o r)
  BY <1>7, <1>9, <1>11, <1>12, SeqEqual
<1> QED
  BY <1>2, <1>5, <1>8, <1>10, <1>13 DEF a

-----------------------------------------------------------------------------
(* Types *)

LEMMA QueueTypes == QueueInv => QueueTypeOK
BY DEF QueueInv

\* The part of the type invariant that is not the queue's.
ThreadTypeOK ==
  /\ phase \in {"new", "initialize", "run", "close", "closed", "aborted"}
  /\ main_pc \in {"idle", "pop", "got", "flush", "full", "sync", "sync_wait",
                  "exclusive", "join"}
  /\ thread_pc \in {"none", "lock", "waiting", "work", "release", "push", "done"}
  /\ stamp_pre_buffer \in Seq(Item) /\ stamp_buffer \in Seq(Item)
  /\ stamp_post_buffer \in Seq(Item)
  /\ request \in Messages \cup {"none"}
  /\ enabled \in BOOLEAN /\ wait_for_read \in BOOLEAN /\ sync_done \in BOOLEAN
  /\ main_notified \in BOOLEAN /\ thread_notified \in BOOLEAN
  /\ allocated \subseteq Data /\ held \subseteq Data
  /\ content \in [Data -> Nat] /\ left \in Nat /\ sent \in Nat /\ stored \in Seq(Nat)

LEMMA TypeSplit == TypeOK <=> QueueTypeOK /\ ThreadTypeOK
BY DEF TypeOK, ThreadTypeOK, Item

LEMMA SequenceTypes ==
    ASSUME NEW S, NEW s \in Seq(S), NEW t \in Seq(S), NEW x \in S
    PROVE  /\ Append(s, x) \in Seq(S) /\ s \o t \in Seq(S) /\ <<>> \in Seq(S)
           /\ s # <<>> => Tail(s) \in Seq(S)
BY AppendProperties, ConcatProperties, EmptySeq, HeadTailProperties

LEMMA WakeTypes ==
    ASSUME ThreadTypeOK
    PROVE  /\ NotifyMain => main_notified' \in BOOLEAN
           /\ NotifyThread => thread_notified' \in BOOLEAN
BY DEF NotifyMain, NotifyThread

LEMMA MainTypes ==
    ASSUME QueueInv, ThreadTypeOK, ControlInv,
           \/ Initialize \/ GetNew \/ Synchronize \/ Enable \/ Close
           \/ ContinuePop \/ Flush \/ EndOfBackPressure \/ WaitForSync \/ Join
           \/ SetFlags \/ Initialized \/ UseFile \/ Closed
    PROVE  ThreadTypeOK'
<1> USE DEF ThreadTypeOK, modeVars, bufferVars, flagVars, wakeVars, dataVars
<1>1. CASE Initialize
  BY <1>1 DEF Initialize
<1>2. CASE GetNew
  BY <1>2 DEF GetNew
<1>3. CASE Synchronize
  <2>1. Sync \in Item /\ Sync \in Messages
    BY DEF Item, Messages
  <2>2. Append(stamp_pre_buffer, Sync) \in Seq(Item)
    BY <2>1, SequenceTypes
  <2> QED
    BY <1>3, <2>1, <2>2 DEF Synchronize, SendMessage
<1>4. CASE Enable
  BY <1>4 DEF Enable
<1>5. CASE Close
  <2>1. Stop \in Item /\ Stop \in Messages
    BY DEF Item, Messages
  <2>2. Append(stamp_pre_buffer, Stop) \in Seq(Item)
    BY <2>1, SequenceTypes
  <2>3. scenario.digital \in Nat
    BY ThreadAssumption DEF ControlInv
  <2> QED
    BY <1>5, <2>1, <2>2, <2>3 DEF Close, SendMessage
<1>6. CASE ContinuePop
  BY <1>6 DEF ContinuePop
<1>7. CASE Flush
  <2>1. Merged \in Seq(Item) /\ <<>> \in Seq(Item)
    BY SequenceTypes DEF Merged
  <2>2. AfterFlush \in {"sync", "join", "idle"}
    BY DEF AfterFlush
  <2>3. main_notified' \in BOOLEAN /\ thread_notified' \in BOOLEAN /\ wait_for_read' \in BOOLEAN
    BY <1>7, WakeTypes, Zenon DEF Flush
  <2>4. /\ stamp_buffer' = Merged /\ stamp_pre_buffer' = <<>>
        /\ main_pc' = "full" \/ main_pc' = AfterFlush
        /\ UNCHANGED <<modeVars, request, thread_pc, stamp_post_buffer, sync_done, dataVars>>
    BY <1>7 DEF Flush
  <2> QED
    BY <2>1, <2>2, <2>3, <2>4
<1>8. CASE EndOfBackPressure
  <2>1. AfterFlush \in {"sync", "join", "idle"}
    BY DEF AfterFlush
  <2>2. main_notified' \in BOOLEAN /\ thread_notified' \in BOOLEAN
    BY <1>8, WakeTypes, Zenon DEF EndOfBackPressure
  <2>3. /\ main_pc' = main_pc \/ main_pc' = AfterFlush
        /\ UNCHANGED <<modeVars, request, thread_pc, bufferVars, flagVars, dataVars>>
    BY <1>8 DEF EndOfBackPressure
  <2> QED
    BY <2>1, <2>2, <2>3
<1>9. CASE WaitForSync
  BY <1>9, ZenonT(40) DEF WaitForSync, FlagAfterSync
<1>10. CASE Join
  BY <1>10 DEF Join
<1>11. CASE SetFlags
  BY <1>11 DEF SetFlags
<1>12. CASE Initialized
  <2>1. Sync \in Item /\ Sync \in Messages
    BY DEF Item, Messages
  <2>2. Append(stamp_pre_buffer, Sync) \in Seq(Item)
    BY <2>1, SequenceTypes
  <2>3. MaxStamps - sent \in Nat
    BY <1>12, ThreadAssumption DEF Initialized, ControlInv
  <2> QED
    BY <1>12, <2>1, <2>2, <2>3 DEF Initialized
<1>13. CASE UseFile
  BY <1>13, ZenonT(40) DEF UseFile
<1>14. CASE Closed
  BY <1>14 DEF Closed
<1> QED
  BY <1>1, <1>2, <1>3, <1>4, <1>5, <1>6, <1>7, <1>8, <1>9, <1>10, <1>11, <1>12, <1>13, <1>14

LEMMA AppendStampTypes ==
    ASSUME QueueInv, ThreadTypeOK, ControlInv, AppendStamp
    PROVE  ThreadTypeOK'
<1>1. PICK h \in Data : /\ allocated' = allocated \cup {h}
                        /\ content' = [content EXCEPT ![h] = sent + 1]
                        /\ stamp_pre_buffer' = Append(stamp_pre_buffer, h)
  BY DEF AppendStamp
<1>2. Append(stamp_pre_buffer, h) \in Seq(Item)
  BY SequenceTypes DEF ThreadTypeOK, Item
<1>3. sent + 1 \in Nat /\ left - 1 \in Nat
  BY DEF AppendStamp, ControlInv, ThreadTypeOK
<1> QED
  BY <1>1, <1>2, <1>3 DEF AppendStamp, ThreadTypeOK, modeVars, flagVars, wakeVars

LEMMA ThreadTypes ==
    ASSUME QueueInv, ThreadTypeOK, ControlInv,
           \/ TakeBuffer \/ ThreadWakes \/ BufferDone \/ StoreStamp \/ Release \/ ContinuePush
           \/ SignalSync \/ EndThread \/ SpuriousWakeup \/ Rest \/ UNCHANGED vars
    PROVE  ThreadTypeOK'
<1> USE DEF ThreadTypeOK, modeVars, bufferVars, flagVars, wakeVars, dataVars
<1>1. CASE TakeBuffer
  <2>1. <<>> \in Seq(Item)
    BY EmptySeq
  <2>2. main_notified' \in BOOLEAN /\ thread_notified' \in BOOLEAN /\ wait_for_read' \in BOOLEAN
    BY <1>1, WakeTypes, Zenon DEF TakeBuffer
  <2>3. /\ thread_pc' \in {"waiting", "work"}
        /\ stamp_buffer' \in Seq(Item) /\ stamp_post_buffer' \in Seq(Item)
        /\ UNCHANGED <<modeVars, main_pc, request, stamp_pre_buffer, sync_done, dataVars>>
    BY <1>1, <2>1 DEF TakeBuffer
  <2> QED
    BY <2>2, <2>3
<1>2. CASE ThreadWakes
  BY <1>2 DEF ThreadWakes
<1>3. CASE BufferDone
  BY <1>3 DEF BufferDone
<1>4. CASE StoreStamp
  <2>1. PICK h \in Data : NextItem(h) /\ stored' = Append(stored, content[h])
                          /\ held' = held \cup {h}
    BY <1>4 DEF StoreStamp
  <2>2. stamp_post_buffer' \in Seq(Item)
    BY <2>1, HeadTailProperties DEF NextItem
  <2>3. stored' \in Seq(Nat)
    BY <2>1, AppendProperties
  <2> QED
    BY <1>4, <2>1, <2>2, <2>3 DEF StoreStamp
<1>5. CASE Release
  BY <1>5 DEF Release
<1>6. CASE ContinuePush
  BY <1>6 DEF ContinuePush
<1>7. CASE SignalSync
  <2>1. stamp_post_buffer' \in Seq(Item)
    BY <1>7, HeadTailProperties DEF SignalSync, NextItem
  <2> QED
    BY <1>7, <2>1, WakeTypes DEF SignalSync
<1>8. CASE EndThread
  <2>1. stamp_post_buffer' \in Seq(Item)
    BY <1>8, HeadTailProperties DEF EndThread, NextItem
  <2> QED
    BY <1>8, <2>1 DEF EndThread
<1>9. CASE SpuriousWakeup
  <2>1. main_notified' \in BOOLEAN /\ thread_notified' \in BOOLEAN
    BY <1>9 DEF SpuriousWakeup
  <2>2. UNCHANGED <<modeVars, main_pc, request, thread_pc, bufferVars, flagVars, dataVars>>
    BY <1>9 DEF SpuriousWakeup
  <2> QED
    BY <2>1, <2>2
<1>10. CASE Rest \/ UNCHANGED vars
  BY <1>10 DEF Rest, vars
<1> QED
  BY <1>1, <1>2, <1>3, <1>4, <1>5, <1>6, <1>7, <1>8, <1>9, <1>10

LEMMA NextTypes ==
    ASSUME QueueInv, TypeOK, ControlInv, [Next]_vars
    PROVE  QueueInv' /\ TypeOK'
<1>1. QueueInv'
  BY QueueStep, QueueNextInv
<1>2. QueueTypeOK'
  BY <1>1 DEF QueueInv
<1>3. ThreadTypeOK'
  BY TypeSplit, MainTypes, AppendStampTypes, ThreadTypes
  DEF Next, MainStart, MainStep, ThreadStep
<1> QED
  BY <1>1, <1>2, <1>3 DEF TypeOK, ThreadTypeOK, Item

-----------------------------------------------------------------------------
(* Control *)

LEMMA LenTypes ==
    ASSUME ThreadTypeOK
    PROVE  /\ Len(stamp_pre_buffer) \in Nat
           /\ \A x \in Item : Len(Append(stamp_pre_buffer, x)) = Len(stamp_pre_buffer) + 1
           /\ Len(<<>>) = 0 /\ PreMax \in Nat \ {0}
BY AppendProperties, LenProperties, EmptySeq, ThreadAssumption DEF ThreadTypeOK

LEMMA SendControl ==
    ASSUME ThreadTypeOK, ControlInv, NEW m \in Messages, SendMessage(m),
           phase \in {"run", "aborted"}, phase' \in {"run", "close", "aborted"}
    PROVE  ControlInv'
<1>1. m \in Item
  BY DEF Item
<1>2. Len(stamp_pre_buffer') = Len(stamp_pre_buffer) + 1 /\ Len(stamp_pre_buffer) \in Nat
      /\ PreMax \in Nat
  BY <1>1, LenTypes DEF SendMessage
<1> QED
  BY <1>2 DEF SendMessage, ControlInv, queueVars, readerVars, writerVars

LEMMA MainControl ==
    ASSUME QueueInv, ThreadTypeOK, ControlInv,
           \/ Initialize \/ GetNew \/ Synchronize \/ Enable \/ Close
           \/ ContinuePop \/ Flush \/ EndOfBackPressure \/ WaitForSync \/ Join
           \/ SetFlags \/ Initialized \/ UseFile \/ Closed
    PROVE  ControlInv'
<1> USE DEF queueVars, readerVars, writerVars, modeVars, bufferVars, dataVars
<1>1. CASE Initialize
  BY <1>1 DEF Initialize, ControlInv
<1>2. CASE GetNew
  BY <1>2 DEF GetNew, MayStore, PopEmpty, PopStart, ControlInv, ThreadTypeOK
<1>3. CASE Synchronize
  BY <1>3, SendControl DEF Synchronize, Messages
<1>4. CASE Enable
  BY <1>4 DEF Enable, ControlInv
<1>5. CASE Close
  BY <1>5, SendControl DEF Close, Messages
<1>6. CASE ContinuePop
  BY <1>6 DEF ContinuePop, PopStep, PopPosition, PopRead, CountRead, ControlInv
<1>7. CASE Flush
  <2>1. AfterFlush \in {"sync", "join", "idle"}
    BY DEF AfterFlush
  <2>2. /\ stamp_pre_buffer' = <<>> /\ main_pc = "flush"
        /\ main_pc' = "full" \/ main_pc' = AfterFlush
        /\ UNCHANGED <<queueVars, modeVars, thread_pc, stamp_post_buffer, dataVars>>
    BY <1>7 DEF Flush
  <2> QED
    BY <2>1, <2>2, LenTypes DEF ControlInv
<1>8. CASE EndOfBackPressure
  <2>1. AfterFlush \in {"sync", "join", "idle"}
    BY DEF AfterFlush
  <2>2. /\ main_pc = "full"
        /\ main_pc' = main_pc \/ main_pc' = AfterFlush
        /\ UNCHANGED <<queueVars, modeVars, thread_pc, bufferVars, dataVars>>
    BY <1>8 DEF EndOfBackPressure
  <2> QED
    BY <2>1, <2>2, LenTypes DEF ControlInv
<1>9. CASE WaitForSync
  BY <1>9, LenTypes DEF WaitForSync, ControlInv
<1>10. CASE Join
  BY <1>10, LenTypes DEF Join, ControlInv
<1>11. CASE SetFlags
  BY <1>11 DEF SetFlags, ControlInv
<1>12. CASE Initialized
  <2>1. Sync \in Item
    BY DEF Item, Messages
  <2>2. Len(stamp_pre_buffer') = Len(stamp_pre_buffer) + 1 /\ Len(stamp_pre_buffer) \in Nat
        /\ PreMax \in Nat
    BY <1>12, <2>1, LenTypes DEF Initialized
  <2> QED
    BY <1>12, <2>2 DEF Initialized, ControlInv
<1>13. CASE UseFile
  BY <1>13 DEF UseFile, ControlInv
<1>14. CASE Closed
  BY <1>14 DEF Closed, ControlInv
<1> QED
  BY <1>1, <1>2, <1>3, <1>4, <1>5, <1>6, <1>7, <1>8, <1>9, <1>10, <1>11, <1>12, <1>13, <1>14

LEMMA AppendStampControl ==
    ASSUME ThreadTypeOK, ControlInv, AppendStamp
    PROVE  ControlInv'
<1>1. PICK h \in Data : stamp_pre_buffer' = Append(stamp_pre_buffer, h)
  BY DEF AppendStamp
<1>2. Len(stamp_pre_buffer') = Len(stamp_pre_buffer) + 1 /\ Len(stamp_pre_buffer) \in Nat
      /\ PreMax \in Nat
  BY <1>1, LenTypes DEF Item
<1>3. left \in Nat /\ sent \in Nat /\ sent' + left' = sent + left
  BY DEF AppendStamp, ThreadTypeOK
<1>4. main_pc = "got" /\ main_pc' = IF Len(stamp_pre_buffer') >= PreMax THEN "flush" ELSE "idle"
  BY DEF AppendStamp
<1> QED
  BY <1>2, <1>3, <1>4 DEF AppendStamp, ControlInv, queueVars, readerVars, writerVars, modeVars

LEMMA ThreadControl ==
    ASSUME QueueInv, ThreadTypeOK, ControlInv,
           \/ TakeBuffer \/ ThreadWakes \/ BufferDone \/ StoreStamp \/ Release \/ ContinuePush
           \/ SignalSync \/ EndThread \/ SpuriousWakeup \/ Rest \/ UNCHANGED vars
    PROVE  ControlInv'
<1> USE DEF queueVars, readerVars, writerVars, modeVars, bufferVars, dataVars
<1>1. CASE TakeBuffer
  BY <1>1 DEF TakeBuffer, ControlInv
<1>2. CASE ThreadWakes
  BY <1>2 DEF ThreadWakes, ControlInv
<1>3. CASE BufferDone
  BY <1>3 DEF BufferDone, ControlInv
<1>4. CASE StoreStamp
  BY <1>4 DEF StoreStamp, NextItem, ControlInv
<1>5. CASE Release
  BY <1>5 DEF Release, PushStart, ControlInv
<1>6. CASE ContinuePush
  BY <1>6 DEF ContinuePush, PushStep, LockForIncrease, increase_buffer, StoreSlot, CountWrite,
     ControlInv
<1>7. CASE SignalSync
  BY <1>7 DEF SignalSync, NextItem, ControlInv
<1>8. CASE EndThread
  BY <1>8 DEF EndThread, NextItem, ControlInv
<1>9. CASE SpuriousWakeup
  BY <1>9 DEF SpuriousWakeup, ControlInv
<1>10. CASE Rest \/ UNCHANGED vars
  BY <1>10 DEF Rest, vars, ControlInv
<1> QED
  BY <1>1, <1>2, <1>3, <1>4, <1>5, <1>6, <1>7, <1>8, <1>9, <1>10

LEMMA NextControl ==
    ASSUME QueueInv, TypeOK, ControlInv, [Next]_vars
    PROVE  ControlInv'
BY TypeSplit, MainControl, AppendStampControl, ThreadControl
DEF Next, MainStart, MainStep, ThreadStep

-----------------------------------------------------------------------------
LEMMA InitInv == Init => QueueInv /\ TypeOK /\ ControlInv
<1> SUFFICES ASSUME Init PROVE QueueInv /\ TypeOK /\ ControlInv
  OBVIOUS
<1>1. QueueInv
  BY QueueInit_Inv DEF Init
<1>2. /\ scenario.unused \in Nat /\ <<>> \in Seq(Data \cup Messages) /\ <<>> \in Seq(Nat)
      /\ Len(<<>>) = 0 /\ PreMax \in Nat \ {0}
  BY ThreadAssumption, EmptySeq DEF Init
<1>3. TypeOK
  BY <1>1, <1>2 DEF Init, TypeOK, QueueInv
<1>4. ControlInv
  BY <1>2 DEF Init, QueueInit, ControlInv
<1> QED
  BY <1>1, <1>3, <1>4

LEMMA ControlInvariance == Spec => [](QueueInv /\ TypeOK /\ ControlInv)
<1>1. QueueInv /\ TypeOK /\ ControlInv /\ [Next]_vars => (QueueInv /\ TypeOK /\ ControlInv)'
  BY NextTypes, NextControl
<1> QED
  BY <1>1, InitInv, PTL DEF Spec

\* The pool of handlers is a first-in first-out queue of unlimited length between
\* two threads, whatever their interleaving and however often the buffer grows
\* (sca_lock_free_queue).
THEOREM PoolImplementsFifo == Spec => PoolIsFifo
<1>1. Init => Pool!Init
  <2> SUFFICES ASSUME Init PROVE Pool!Init
    OBVIOUS
  <2>1. QueueInv /\ popped = NULL /\ write_cnt - First = 0
    BY InitInv DEF Init, QueueInit, First
  <2>2. Queue \in Seq(Data) /\ Len(Queue) = 0
    BY <2>1, QueueSeq
  <2> QED
    BY <2>1, <2>2 DEF Pool!Init, Queue, First
<1>2. /\ QueueInv /\ TypeOK /\ ControlInv /\ (QueueInv /\ TypeOK /\ ControlInv)'
      /\ [Next]_vars
      => [Pool!Next]_(Pool!fifoVars)
  BY QueueStep, QueueStepIsFifo
<1> QED
  BY <1>1, <1>2, ControlInvariance, PTL DEF Spec, PoolIsFifo, Pool!Spec

-----------------------------------------------------------------------------
(***************************************************************************)
(* Owners of the handlers and order of the stamps.                         *)
(***************************************************************************)
StampInv == OneOwner /\ HandlersExist /\ StampsArriveInOrder

Disjoint ==
  /\ Handlers(Way) \cap (held \cup Returning \cup Free \cup NextHandler) = {}
  /\ held \cap (Returning \cup Free \cup NextHandler) = {}
  /\ Returning \cap (Free \cup NextHandler) = {}
  /\ NextHandler \cap Free = {}
Existing == Handlers(Way) \cup held \cup Returning \cup Free \cup NextHandler \subseteq allocated
FreeDistinct == \A j, k \in Waiting : slots[j % size] = slots[k % size] => j = k
InOrder ==
  /\ Len(stored) <= sent /\ \A n \in 1..Len(stored) : stored[n] = n
  /\ Ordered(Way, content, Len(stored), sent)

LEMMA StampForm ==
    TypeOK => (StampInv <=> Distinct(Way) /\ Disjoint /\ Existing /\ FreeDistinct /\ InOrder)
<1> HAVE TypeOK
<1>1. OnTheWay = Stamps(Way) /\ Travelling = Handlers(Way)
  BY WayType
<1>2. OneOwner <=> Distinct(Way) /\ Disjoint
  BY <1>1 DEF OneOwner, Distinct, Disjoint
<1>3. HandlersExist <=> Existing /\ FreeDistinct
  BY <1>1 DEF HandlersExist, Existing, FreeDistinct
<1>4. StampsArriveInOrder <=> InOrder
  BY <1>1 DEF StampsArriveInOrder, InOrder, Ordered
<1> QED
  BY <1>2, <1>3, <1>4 DEF StampInv

LEMMA StampFormNext ==
    TypeOK' => (StampInv' <=> (Distinct(Way) /\ Disjoint /\ Existing /\ FreeDistinct /\ InOrder)')
BY StampForm, PTL

LEMMA SameFree == UNCHANGED queueVars => Free' = Free /\ Waiting' = Waiting /\ Returning' = Returning
BY DEF queueVars, writerVars, readerVars, Free, Waiting, Returning

\* The actions that touch neither the queue nor a handler.
MessageNext ==
  \/ Initialize \/ Synchronize \/ Enable \/ Close
  \/ Flush \/ EndOfBackPressure \/ WaitForSync \/ Join \/ SetFlags
  \/ Initialized \/ UseFile \/ Closed
  \/ TakeBuffer \/ ThreadWakes \/ BufferDone \/ SignalSync \/ EndThread
  \/ SpuriousWakeup \/ Rest \/ UNCHANGED vars

\* They move the items on, add a message or take one.
WayMoves ==
  \/ Way' = Way
  \/ \E m \in Messages : Way' = Append(Way, m)
  \/ Way # <<>> /\ Head(Way) \in Messages /\ Way' = Tail(Way)

LEMMA SendWay ==
    ASSUME TypeOK, NEW m \in Messages, SendMessage(m)
    PROVE  Way' = Append(Way, m)
BY AppendToWay DEF SendMessage, Item

LEMMA MessageFrame ==
    ASSUME MessageNext
    PROVE  /\ UNCHANGED <<queueVars, allocated, content, held, sent, stored>>
           /\ NextHandler' = NextHandler
<1>1. UNCHANGED <<queueVars, allocated, content, held, sent, stored>>
  BY DEF MessageNext, Initialize, Synchronize, Enable, Close, SendMessage, Flush,
   EndOfBackPressure, WaitForSync, Join, SetFlags, Initialized, UseFile, Closed, TakeBuffer,
   ThreadWakes, BufferDone, SignalSync, EndThread, SpuriousWakeup, Rest, vars, dataVars
<1>2. AfterFlush # "got"
  BY DEF AfterFlush
<1>3. main_pc = "got" <=> main_pc' = "got"
  BY <1>2 DEF MessageNext, Initialize, Synchronize, Enable, Close, SendMessage, Flush,
   EndOfBackPressure, WaitForSync, Join, SetFlags, Initialized, UseFile, Closed, TakeBuffer,
   ThreadWakes, BufferDone, SignalSync, EndThread, SpuriousWakeup, Rest, vars
<1> QED
  BY <1>1, <1>3 DEF NextHandler, queueVars, readerVars

LEMMA MessageWay ==
    ASSUME TypeOK, ControlInv, MessageNext
    PROVE  WayMoves
<1>1. CASE UNCHANGED bufferVars
  BY <1>1 DEF bufferVars, Way, WayMoves
<1>2. CASE Synchronize \/ Close
  BY <1>2, SendWay DEF Synchronize, Close, Messages, WayMoves
<1>3. CASE Initialized
  BY <1>3, AppendToWay DEF Initialized, Messages, Item, WayMoves
<1>4. CASE Flush
  BY <1>4, FlushWay DEF Flush, WayMoves
<1>5. CASE TakeBuffer
  <2>1. CASE stamp_buffer = <<>>
    BY <1>5, <2>1 DEF TakeBuffer, Way, WayMoves
  <2>2. CASE stamp_buffer # <<>>
    BY <1>5, <2>2, TakeWay DEF TakeBuffer, ControlInv, WayMoves
  <2> QED
    BY <2>1, <2>2
<1>6. CASE SignalSync \/ EndThread
  BY <1>6, TailOfWay DEF SignalSync, EndThread, NextItem, Messages, WayMoves
<1> QED
  BY <1>1, <1>2, <1>3, <1>4, <1>5, <1>6
  DEF MessageNext, Initialize, Enable, EndOfBackPressure, WaitForSync, Join, SetFlags, UseFile,
   Closed, ThreadWakes, BufferDone, SpuriousWakeup, Rest, vars

LEMMA MessageStamps ==
    ASSUME TypeOK, TypeOK', ControlInv, StampInv, MessageNext
    PROVE  StampInv'
<1>1. /\ UNCHANGED <<queueVars, allocated, content, held, sent, stored>>
      /\ NextHandler' = NextHandler /\ WayMoves
  BY MessageFrame, MessageWay
<1>2. Free' = Free /\ Waiting' = Waiting /\ Returning' = Returning
      /\ UNCHANGED <<slots, size>>
  BY <1>1, SameFree DEF queueVars
<1>3. Distinct(Way) /\ Disjoint /\ Existing /\ FreeDistinct /\ InOrder /\ Way \in Seq(Item)
  BY StampForm, WayType
<1>4. /\ Handlers(Way') = Handlers(Way) /\ Distinct(Way')
      /\ Ordered(Way', content, Len(stored), sent)
  BY <1>1, <1>3, AppendMessageKeeps, TailMessageKeeps DEF WayMoves, InOrder
<1>5. Disjoint' /\ Existing' /\ FreeDistinct' /\ InOrder'
  BY <1>1, <1>2, <1>3, <1>4 DEF Disjoint, Existing, FreeDistinct, InOrder
<1> QED
  BY <1>4, <1>5, StampFormNext

\* The handler of a new stamp is nowhere else: fresh, or taken from the pool.
LEMMA AppendStampStamps ==
    ASSUME TypeOK, TypeOK', StampInv, AppendStamp
    PROVE  StampInv'
<1>1. PICK h \in Data :
        /\ IF popped # NULL THEN h = popped
           ELSE h \notin allocated /\ h = CHOOSE i \in Data : i \notin allocated
        /\ allocated' = allocated \cup {h}
        /\ content' = [content EXCEPT ![h] = sent + 1]
        /\ stamp_pre_buffer' = Append(stamp_pre_buffer, h)
  BY DEF AppendStamp
<1>2. /\ UNCHANGED <<queueVars, held, stored>> /\ sent' = sent + 1
      /\ main_pc = "got" /\ main_pc' \in {"flush", "idle"}
  BY DEF AppendStamp
<1>3. Free' = Free /\ Waiting' = Waiting /\ Returning' = Returning
      /\ UNCHANGED <<slots, size>>
  BY <1>2, SameFree DEF queueVars
<1>4. NextHandler' = {} /\ NextHandler = {popped} \ {NULL}
  BY <1>2 DEF NextHandler
<1>5. Distinct(Way) /\ Disjoint /\ Existing /\ FreeDistinct /\ InOrder /\ Way \in Seq(Item)
  BY StampForm, WayType
<1>6. /\ h \notin Handlers(Way) /\ h \notin held
      /\ h \notin Returning /\ h \notin Free
  BY <1>1, <1>4, <1>5, QueueAssumption DEF Disjoint, Existing
<1>7. Way' = Append(Way, h)
  BY <1>1, AppendToWay DEF AppendStamp, Item
<1>8. /\ content \in [Data -> Nat] /\ sent \in Nat /\ Len(stored) \in Nat
      /\ Len(stored) <= sent
  BY <1>5, LenProperties DEF TypeOK, InOrder
<1>9. Ordered(Way, content, Len(stored), sent)
  BY <1>5 DEF InOrder
<1>10. /\ Handlers(Way') = Handlers(Way) \cup {h}
       /\ Distinct(Way')
       /\ Ordered(Way', content', Len(stored), sent')
  BY <1>1, <1>2, <1>5, <1>6, <1>7, <1>8, <1>9, AppendStampKeeps
<1>11. Disjoint' /\ Existing' /\ FreeDistinct'
  BY <1>1, <1>2, <1>3, <1>4, <1>5, <1>6, <1>10 DEF Disjoint, Existing, FreeDistinct
<1>12. InOrder'
  BY <1>2, <1>5, <1>8, <1>10 DEF InOrder
<1> QED
  BY <1>10, <1>11, <1>12, StampFormNext

\* The oldest stamp on its way is the next one to store.
LEMMA StoreStampStamps ==
    ASSUME TypeOK, TypeOK', StampInv, StoreStamp
    PROVE  StampInv'
<1>1. PICK h \in Data : /\ NextItem(h)
                        /\ stored' = Append(stored, content[h])
                        /\ held' = held \cup {h}
  BY DEF StoreStamp
<1>2. UNCHANGED <<queueVars, main_pc, allocated, content, sent>>
  BY DEF StoreStamp
<1>3. Free' = Free /\ Waiting' = Waiting /\ Returning' = Returning
      /\ UNCHANGED <<slots, size>>
  BY <1>2, SameFree DEF queueVars
<1>4. NextHandler' = NextHandler
  BY <1>2 DEF NextHandler, queueVars, readerVars
<1>5. Distinct(Way) /\ Disjoint /\ Existing /\ FreeDistinct /\ InOrder /\ Way \in Seq(Item)
  BY StampForm, WayType
<1>6. Way # <<>> /\ Head(Way) = h /\ Way' = Tail(Way)
  BY <1>1, TailOfWay DEF StoreStamp, NextItem
<1>7. /\ content \in [Data -> Nat] /\ sent \in Nat /\ Len(stored) \in Nat
      /\ Len(stored) <= sent /\ stored \in Seq(Nat)
  BY <1>5, LenProperties DEF TypeOK, InOrder
<1>8. Ordered(Way, content, Len(stored), sent)
  BY <1>5 DEF InOrder
<1>9. /\ Handlers(Way') = Handlers(Way) \ {h} /\ h \in Handlers(Way)
      /\ Distinct(Way')
      /\ content[h] = Len(stored) + 1 /\ Len(stored) + 1 <= sent
      /\ Ordered(Way', content, Len(stored) + 1, sent)
  BY <1>5, <1>6, <1>7, <1>8, TailStampKeeps
<1>10. /\ Len(stored') = Len(stored) + 1
       /\ \A n \in 1..Len(stored) : stored'[n] = stored[n]
       /\ stored'[Len(stored) + 1] = Len(stored) + 1
  BY <1>1, <1>7, <1>9, AppendProperties
<1>11. InOrder'
  <2>1. \A n \in 1..Len(stored') : n \in 1..Len(stored) \/ n = Len(stored) + 1
    BY <1>7, <1>10
  <2> QED
    BY <1>2, <1>5, <1>9, <1>10, <2>1 DEF InOrder
<1>12. Disjoint' /\ Existing' /\ FreeDistinct'
  BY <1>1, <1>2, <1>3, <1>4, <1>5, <1>9 DEF Disjoint, Existing, FreeDistinct
<1> QED
  BY <1>9, <1>11, <1>12, StampFormNext

-----------------------------------------------------------------------------
(* The queue and the owners *)

LEMMA WayKept ==
    ASSUME UNCHANGED <<bufferVars, content, sent, stored>>
    PROVE  Way' = Way /\ (Distinct(Way) => Distinct(Way')) /\ (InOrder => InOrder')
BY DEF bufferVars, Way, InOrder

\* GetNew takes nothing yet, or finds nothing.
LEMMA GetNewStamps ==
    ASSUME TypeOK, TypeOK', StampInv, GetNew
    PROVE  StampInv'
<1>1. /\ UNCHANGED <<bufferVars, dataVars, slots, size, read_cnt, write_cnt, writerVars>>
      /\ main_pc = "idle" /\ (main_pc' = "pop" \/ popped' = NULL)
  BY DEF GetNew, PopEmpty, PopStart, MayStore
<1>2. /\ Free' = Free /\ Waiting' = Waiting /\ Returning' = Returning
      /\ NextHandler' = NextHandler
  BY <1>1 DEF Free, Waiting, Returning, NextHandler, writerVars
<1>3. Distinct(Way) /\ Disjoint /\ Existing /\ FreeDistinct /\ InOrder
  BY StampForm
<1>4. Way' = Way /\ Distinct(Way') /\ InOrder'
  BY <1>1, <1>3, WayKept DEF dataVars
<1>5. Disjoint' /\ Existing' /\ FreeDistinct'
  BY <1>1, <1>2, <1>3, <1>4 DEF Disjoint, Existing, FreeDistinct, dataVars
<1> QED
  BY <1>4, <1>5, StampFormNext

\* The last step of pop moves the oldest free handler to the next stamp.
LEMMA ContinuePopStamps ==
    ASSUME QueueInv, TypeOK, TypeOK', StampInv, ContinuePop
    PROVE  StampInv'
<1>1. Distinct(Way) /\ Disjoint /\ Existing /\ FreeDistinct /\ InOrder
  BY StampForm
<1>2. UNCHANGED <<bufferVars, dataVars, slots, size, write_cnt, writerVars>> /\ main_pc = "pop"
  BY DEF ContinuePop, PopStep, PopPosition, PopRead, CountRead
<1>3. Way' = Way /\ Distinct(Way') /\ InOrder'
  BY <1>1, <1>2, WayKept DEF dataVars
<1>4. Returning' = Returning /\ NextHandler = {}
  BY <1>2 DEF Returning, NextHandler, writerVars
<1>5. CASE PopPosition \/ PopRead
  <2>1. read_cnt' = read_cnt /\ main_pc' = "pop"
    BY <1>5 DEF ContinuePop, PopPosition, PopRead
  <2>2. Free' = Free /\ Waiting' = Waiting /\ NextHandler' = {}
    BY <1>2, <2>1 DEF Free, Waiting, NextHandler
  <2>3. Disjoint' /\ Existing' /\ FreeDistinct'
    BY <1>1, <1>2, <1>3, <1>4, <2>2 DEF Disjoint, Existing, FreeDistinct, dataVars
  <2> QED
    BY <1>3, <2>3, StampFormNext
<1>6. CASE CountRead
  <2>1. /\ read_cnt' = read_cnt + 1 /\ main_pc' = "got" /\ popped' = popped
        /\ popped = slots[read_cnt % size] /\ read_cnt < write_cnt
    BY <1>6 DEF ContinuePop, CountRead, QueueInv
  <2>2. /\ read_cnt \in Waiting /\ \A k \in Waiting' : k \in Waiting /\ k # read_cnt
    BY <1>2, <2>1 DEF Waiting, QueueInv, QueueTypeOK
  <2>3. popped \in Free /\ NextHandler' \subseteq {popped}
    BY <2>1, <2>2 DEF Free, Waiting, NextHandler
  <2>4. popped \notin Free'
    BY <1>1, <1>2, <2>1, <2>2 DEF Free, Waiting, FreeDistinct
  <2>5. Free' \subseteq Free
    BY <1>2, <2>2 DEF Free, Waiting
  <2>6. Disjoint' /\ Existing'
    BY <1>1, <1>2, <1>3, <1>4, <2>3, <2>4, <2>5 DEF Disjoint, Existing, dataVars
  <2>7. FreeDistinct'
    BY <1>1, <1>2, <2>2 DEF FreeDistinct
  <2> QED
    BY <1>3, <2>6, <2>7, StampFormNext
<1> QED
  BY <1>5, <1>6 DEF ContinuePop, PopStep

LEMMA ReleaseStamps ==
    ASSUME QueueInv, TypeOK, TypeOK', ControlInv, StampInv, Release
    PROVE  StampInv'
<1>1. Distinct(Way) /\ Disjoint /\ Existing /\ FreeDistinct /\ InOrder
  BY StampForm
<1>2. /\ UNCHANGED <<bufferVars, main_pc, allocated, content, sent, stored,
                     slots, size, read_cnt, write_cnt, popped>>
      /\ push_pc = "idle"
  BY DEF Release, PushStart, queueVars, readerVars, writerVars, ControlInv
<1>3. Way' = Way /\ Distinct(Way') /\ InOrder'
  BY <1>1, <1>2, WayKept
<1>4. Free' = Free /\ Waiting' = Waiting /\ NextHandler' = NextHandler /\ Returning = {}
  BY <1>2 DEF Free, Waiting, NextHandler, Returning
<1>5. FreeDistinct'
  BY <1>1, <1>2, <1>4 DEF FreeDistinct
<1>6. CASE UNCHANGED <<queueVars, held>>
  <2>1. Returning' = Returning
    BY <1>6 DEF Returning, queueVars, writerVars
  <2> QED
    BY <1>1, <1>2, <1>3, <1>4, <1>5, <1>6, <2>1, StampFormNext DEF Disjoint, Existing
<1>7. ASSUME NEW h \in held, PushStart(h), held' = held \ {h} PROVE StampInv'
  <2>1. Returning' = {h}
    BY <1>7 DEF PushStart, Returning
  <2>2. Disjoint' /\ Existing'
    BY <1>1, <1>2, <1>3, <1>4, <1>7, <2>1 DEF Disjoint, Existing
  <2> QED
    BY <1>3, <1>5, <2>2, StampFormNext
<1> QED
  BY <1>6, <1>7 DEF Release

LEMMA ContinuePushStamps ==
    ASSUME QueueInv, QueueInv', TypeOK, TypeOK', StampInv, ContinuePush
    PROVE  StampInv'
<1>1. Distinct(Way) /\ Disjoint /\ Existing /\ FreeDistinct /\ InOrder
  BY StampForm
<1>2. /\ UNCHANGED <<bufferVars, dataVars, main_pc, read_cnt, pushed, readerVars>>
  BY DEF ContinuePush, PushStep, LockForIncrease, increase_buffer, StoreSlot, CountWrite
<1>3. Way' = Way /\ Distinct(Way') /\ InOrder' /\ NextHandler' = NextHandler
  BY <1>1, <1>2, WayKept DEF dataVars, NextHandler, readerVars
<1>4. ASSUME write_cnt' = write_cnt, push_pc # "idle", push_pc' # "idle",
             \A k \in Waiting : slots'[k % size'] = slots[k % size]
      PROVE  StampInv'
  <2>1. Waiting' = Waiting /\ Free' = Free /\ Returning' = Returning
    BY <1>2, <1>4 DEF Waiting, Free, Returning
  <2>2. Disjoint' /\ Existing' /\ FreeDistinct'
    BY <1>1, <1>2, <1>3, <1>4, <2>1 DEF Disjoint, Existing, FreeDistinct, dataVars
  <2> QED
    BY <1>3, <2>2, StampFormNext
<1>5. CASE LockForIncrease
  BY <1>4, <1>5 DEF LockForIncrease
<1>6. CASE increase_buffer
  <2> DEFINE n == size + Chunk
  <2>1. n \in Nat \ {0} /\ size <= n
    BY QueueAssumption DEF QueueInv, QueueTypeOK
  <2>2. slots' = Copied(n) /\ size' = n /\ write_cnt' = write_cnt
        /\ push_pc = "copy" /\ push_pc' = "store"
    BY <1>6 DEF increase_buffer
  <2>3. \A k \in Waiting : slots'[k % size'] = slots[k % size]
    <3> HIDE DEF n
    <3> QED
      BY <2>1, <2>2, CopiedKeeps
  <2> QED
    BY <1>4, <2>2, <2>3
<1>7. CASE StoreSlot
  BY <1>4, <1>7, StoreKeeps DEF StoreSlot
<1>8. CASE CountWrite
  <2>1. /\ push_pc = "count" /\ push_pc' = "idle" /\ write_cnt' = write_cnt + 1
        /\ UNCHANGED <<slots, size>> /\ slots[write_cnt % size] = pushed
    BY <1>8 DEF CountWrite, QueueInv
  <2>2. /\ \A k \in Waiting' : k \in Waiting \/ k = write_cnt
        /\ write_cnt \notin Waiting /\ write_cnt \in Waiting'
        /\ \A k \in Waiting : k \in Waiting'
    BY <1>2, <2>1 DEF Waiting, QueueInv, QueueTypeOK
  <2>3. Returning = {pushed} /\ Returning' = {}
    BY <2>1 DEF Returning
  <2>4. Free' = Free \cup {pushed}
    BY <1>2, <2>1, <2>2 DEF Free, Waiting
  <2>5. pushed \notin Free
    BY <1>1, <2>3 DEF Disjoint
  <2>6. FreeDistinct'
    <3>1. \A k \in Waiting : slots[k % size] # pushed
      BY <2>5 DEF Free, Waiting
    <3> QED
      BY <1>1, <2>1, <2>2, <3>1 DEF FreeDistinct
  <2>7. Disjoint' /\ Existing'
    BY <1>1, <1>2, <1>3, <2>3, <2>4 DEF Disjoint, Existing, dataVars
  <2> QED
    BY <1>3, <2>6, <2>7, StampFormNext
<1> QED
  BY <1>5, <1>6, <1>7, <1>8 DEF ContinuePush, PushStep

LEMMA NextStamps ==
    ASSUME QueueInv, QueueInv', TypeOK, TypeOK', ControlInv, StampInv, [Next]_vars
    PROVE  StampInv'
BY MessageStamps, AppendStampStamps, StoreStampStamps, GetNewStamps, ContinuePopStamps,
   ReleaseStamps, ContinuePushStamps
DEF Next, MainStart, MainStep, ThreadStep, MessageNext

LEMMA InitStamps == Init => StampInv
<1> SUFFICES ASSUME Init PROVE StampInv
  OBVIOUS
<1>1. TypeOK
  BY InitInv
<1>2. Way = <<>> /\ Len(<<>>) = 0 /\ stored = <<>> /\ sent = 0
  <2>1. <<>> \in Seq(Item)
    BY EmptySeq
  <2> QED
    BY <2>1, ConcatEmptySeq, EmptySeq DEF Init, Way
<1>3. Stamps(Way) = {} /\ Handlers(Way) = {}
  BY <1>2 DEF Stamps, Handlers
<1>4. Waiting = {} /\ Free = {} /\ Returning = {} /\ NextHandler = {} /\ held = {}
  BY DEF Init, QueueInit, Waiting, Free, Returning, NextHandler
<1>5. Distinct(Way) /\ Disjoint /\ Existing /\ FreeDistinct
  BY <1>3, <1>4 DEF Distinct, Disjoint, Existing, FreeDistinct
<1>6. InOrder
  BY <1>2, <1>3 DEF InOrder, Ordered
<1> QED
  BY <1>1, <1>5, <1>6, StampForm

-----------------------------------------------------------------------------
(* No wakeup is lost *)

\* The thread only sleeps before an empty buffer, so that what the simulation
\* flushes without a notification is never more than the buffer holds.
LEMMA FlushWakes ==
    ASSUME TypeOK, ControlInv, NoLostWakeup, Flush
    PROVE  NoLostWakeup'
<1>1. AfterFlush \notin {"full", "sync_wait"}
  BY DEF AfterFlush
<1>2. UNCHANGED <<thread_pc, sync_done>> /\ main_pc = "flush"
  BY DEF Flush, flagVars
<1>3. CASE Len(stamp_buffer') > BufferMax
  <2>1. main_pc' = "full" /\ wait_for_read' = TRUE /\ UNCHANGED thread_notified
    BY <1>3 DEF Flush
  <2>2. ~(thread_pc = "waiting" /\ ~thread_notified)
    <3>1. stamp_pre_buffer \in Seq(Item) /\ Len(stamp_pre_buffer) <= PreMax
          /\ PreMax \in Nat /\ BufferMax \in Nat /\ PreMax <= BufferMax
      BY ThreadAssumption DEF TypeOK, ControlInv, Item
    <3>2. stamp_buffer' = stamp_buffer \o stamp_pre_buffer
      BY DEF Flush, Merged
    <3>3. stamp_buffer = <<>> => Len(stamp_buffer') = Len(stamp_pre_buffer)
      BY <3>1, <3>2, ConcatEmptySeq
    <3>4. Len(stamp_pre_buffer) \in Nat
      BY <3>1, LenProperties
    <3> QED
      BY <1>3, <3>1, <3>3, <3>4 DEF NoLostWakeup
  <2> QED
    BY <1>2, <2>1, <2>2 DEF NoLostWakeup
<1>4. CASE ~(Len(stamp_buffer') > BufferMax)
  <2>1. NotifyThread /\ main_pc' = AfterFlush
    BY <1>4 DEF Flush
  <2>2. thread_pc = "waiting" => thread_notified'
    BY <2>1, Zenon DEF NotifyThread
  <2> QED
    BY <1>1, <1>2, <2>1, <2>2 DEF NoLostWakeup
<1> QED
  BY <1>3, <1>4

LEMMA TakeBufferWakes ==
    ASSUME TypeOK, NoLostWakeup, TakeBuffer
    PROVE  NoLostWakeup'
<1>1. UNCHANGED <<main_pc, sync_done>> /\ thread_pc = "lock"
  BY DEF TakeBuffer
<1>2. CASE stamp_buffer = <<>>
  BY <1>1, <1>2 DEF TakeBuffer, NoLostWakeup
<1>3. CASE stamp_buffer # <<>>
  <2>1. thread_pc' = "work" /\ wait_for_read' = FALSE
        /\ IF wait_for_read THEN NotifyMain ELSE UNCHANGED main_notified
    BY <1>3 DEF TakeBuffer
  <2>2. wait_for_read /\ main_pc \in {"full", "sync_wait"} => main_notified'
    BY <2>1, Zenon DEF NotifyMain
  <2>3. ~wait_for_read => main_notified' = main_notified
    BY <2>1
  <2> QED
    BY <1>1, <2>1, <2>2, <2>3 DEF NoLostWakeup
<1> QED
  BY <1>2, <1>3

LEMMA NextWakes ==
    ASSUME TypeOK, ControlInv, NoLostWakeup, [Next]_vars
    PROVE  NoLostWakeup'
<1> USE DEF modeVars, bufferVars, flagVars, wakeVars, dataVars
<1>1. CASE \/ Initialize \/ GetNew \/ Synchronize \/ Enable \/ Close \/ ContinuePop
           \/ AppendStamp \/ Join \/ SetFlags \/ Initialized \/ UseFile \/ Closed
  <2>1. /\ UNCHANGED <<stamp_buffer, wait_for_read, sync_done, main_notified, thread_notified>>
        /\ thread_pc' = thread_pc \/ thread_pc' = "lock"
        /\ main_pc' \notin {"full", "sync_wait"} \/ main_pc' = main_pc
    BY <1>1 DEF Initialize, GetNew, Synchronize, Enable, Close, SendMessage, ContinuePop,
       AppendStamp, Join, SetFlags, Initialized, UseFile, Closed
  <2> QED
    BY <2>1 DEF NoLostWakeup
<1>2. CASE EndOfBackPressure
  <2>1. AfterFlush \notin {"full", "sync_wait"}
    BY DEF AfterFlush
  <2>2. CASE wait_for_read
    BY <1>2, <2>2 DEF EndOfBackPressure, NoLostWakeup
  <2>3. CASE ~wait_for_read
    <3>1. NotifyThread /\ main_pc' = AfterFlush
      BY <1>2, <2>3 DEF EndOfBackPressure
    <3>2. thread_pc = "waiting" => thread_notified'
      BY <3>1, Zenon DEF NotifyThread
    <3> QED
      BY <1>2, <2>1, <3>1, <3>2 DEF EndOfBackPressure, NoLostWakeup
  <2> QED
    BY <2>2, <2>3
<1>3. CASE WaitForSync
  BY <1>3 DEF WaitForSync, FlagAfterSync, NoLostWakeup
<1>4. CASE ThreadWakes \/ BufferDone \/ StoreStamp \/ Release \/ ContinuePush \/ EndThread
  <2>1. /\ UNCHANGED <<stamp_buffer, wait_for_read, sync_done, main_notified, thread_notified,
                       main_pc>>
        /\ thread_pc' # "waiting"
    BY <1>4 DEF ThreadWakes, BufferDone, StoreStamp, Release, ContinuePush, EndThread, NextItem
  <2> QED
    BY <2>1 DEF NoLostWakeup
<1>5. CASE SignalSync
  <2>1. NotifyMain /\ thread_pc = "work"
        /\ UNCHANGED <<main_pc, thread_pc, wait_for_read>>
    BY <1>5 DEF SignalSync, NextItem
  <2>2. main_pc \in {"full", "sync_wait"} => main_notified'
    BY <2>1, Zenon DEF NotifyMain
  <2> QED
    BY <2>1, <2>2 DEF NoLostWakeup
<1>6. CASE SpuriousWakeup
  <2>1. UNCHANGED <<main_pc, thread_pc, stamp_buffer, wait_for_read, sync_done>>
    BY <1>6 DEF SpuriousWakeup
  <2>2. (main_notified => main_notified') /\ (thread_notified => thread_notified')
    BY <1>6 DEF SpuriousWakeup
  <2> QED
    BY <2>1, <2>2 DEF NoLostWakeup
<1>7. CASE Rest \/ UNCHANGED vars
  BY <1>7 DEF Rest, vars, NoLostWakeup
<1> QED
  BY <1>1, <1>2, <1>3, <1>4, <1>5, <1>6, <1>7, FlushWakes, TakeBufferWakes
  DEF Next, MainStart, MainStep, ThreadStep

LEMMA StampInvariance ==
    Spec => [](QueueInv /\ TypeOK /\ ControlInv /\ StampInv /\ NoLostWakeup)
<1> DEFINE I == QueueInv /\ TypeOK /\ ControlInv /\ StampInv /\ NoLostWakeup
<1>1. Init => I
  <2>1. Init => NoLostWakeup
    BY DEF Init, NoLostWakeup
  <2> QED
    BY <2>1, InitInv, InitStamps
<1>2. I /\ [Next]_vars => I'
  BY NextTypes, NextControl, NextStamps, NextWakes
<1> QED
  BY <1>1, <1>2, PTL DEF Spec

\* No time stamp is lost, doubled, overtaken or overwritten on its way to the
\* thread, no handler is in two places, and neither thread sleeps through a
\* notification, with any number of handlers and any buffer sizes.
THEOREM StampsAreSafe == Spec => []StampsSafe
<1>1. TypeOK /\ StampInv /\ NoLostWakeup => StampsSafe
  BY DEF StampsSafe, StampInv
<1> QED
  BY <1>1, StampInvariance, PTL

-----------------------------------------------------------------------------
(***************************************************************************)
(* Synchronization: when the simulation goes on, nothing is on its way.    *)
(***************************************************************************)
ThreadAtRest == thread_pc \in {"lock", "waiting", "work"}
SyncIsLast == \A i \in 1..Len(Way) : Way[i] = Sync => i = Len(Way) /\ Asking /\ ~sync_done

LEMMA SyncForm ==
    TypeOK => (SyncInv <=>
      /\ main_pc \in {"sync", "sync_wait"} => request = Sync
      /\ SyncIsLast
      /\ sync_done => Asking /\ Way = <<>> /\ ThreadAtRest
      /\ main_pc = "exclusive" /\ phase # "initialize" => Way = <<>> /\ ThreadAtRest)
<1> HAVE TypeOK
<1>1. DOMAIN Way = 1..Len(Way)
  BY WayType, LenProperties
<1> QED
  BY <1>1 DEF SyncInv, SyncIsLast, ThreadAtRest

LEMMA SyncFormNext ==
    TypeOK' => (SyncInv' <=>
      /\ main_pc' \in {"sync", "sync_wait"} => request' = Sync
      /\ SyncIsLast'
      /\ sync_done' => Asking' /\ Way' = <<>> /\ ThreadAtRest'
      /\ main_pc' = "exclusive" /\ phase' # "initialize" => Way' = <<>> /\ ThreadAtRest')
<1>1. (TypeOK => (SyncInv <=>
        /\ main_pc \in {"sync", "sync_wait"} => request = Sync
        /\ SyncIsLast
        /\ sync_done => Asking /\ Way = <<>> /\ ThreadAtRest
        /\ main_pc = "exclusive" /\ phase # "initialize" => Way = <<>> /\ ThreadAtRest))'
  BY SyncForm, PTL
<1> QED
  BY <1>1

\* An item is added while nobody waits for a synchronization.
LEMMA AppendSyncs ==
    ASSUME TypeOK, TypeOK', SyncInv, NEW x \in Item, Way' = Append(Way, x), ~Asking,
           main_pc' \in {"flush", "idle"}, x = Sync => Asking',
           UNCHANGED <<thread_pc, sync_done>>
    PROVE  SyncInv'
<1>1. Way \in Seq(Item)
  BY WayType
<1>2. /\ Len(Way') = Len(Way) + 1 /\ Len(Way) \in Nat
      /\ \A i \in 1..Len(Way) : Way'[i] = Way[i]
      /\ Way'[Len(Way) + 1] = x
  BY <1>1, AppendProperties, LenProperties
<1>3. ~sync_done /\ \A i \in 1..Len(Way) : Way[i] # Sync
  BY SyncForm DEF SyncIsLast
<1>4. \A i \in 1..Len(Way') : i \in 1..Len(Way) \/ i = Len(Way')
  BY <1>2
<1>5. SyncIsLast'
  BY <1>2, <1>3, <1>4 DEF SyncIsLast
<1> QED
  BY <1>3, <1>5, SyncFormNext

\* The thread takes an item that is not for synchronization.
LEMMA TailSyncs ==
    ASSUME TypeOK, TypeOK', SyncInv, Way # <<>>, Way' = Tail(Way), Head(Way) # Sync,
           UNCHANGED <<main_pc, request, phase, sync_done>>
    PROVE  SyncInv'
<1>1. Way \in Seq(Item)
  BY WayType
<1>2. /\ Len(Way') = Len(Way) - 1 /\ Len(Way) \in Nat
      /\ \A i \in 1..Len(Way') : Way'[i] = Way[i + 1]
  BY <1>1, HeadTailProperties, LenProperties
<1>3. \A i \in 1..Len(Way') : i \in Nat /\ i + 1 \in 1..Len(Way)
                            /\ (i + 1 = Len(Way) => i = Len(Way'))
  <2> DEFINE n == Len(Way)  k == Len(Way')
  <2>1. n \in Nat /\ k = n - 1
    BY <1>2
  <2> HIDE DEF n, k
  <2>2. \A i \in 1..k : i \in Nat /\ i + 1 \in 1..n /\ (i + 1 = n => i = k)
    BY <2>1
  <2> QED
    BY <2>2 DEF n, k
<1>4. ~sync_done /\ ~(main_pc = "exclusive" /\ phase # "initialize")
  BY SyncForm
<1>5. SyncIsLast'
  BY <1>2, <1>3, SyncForm DEF SyncIsLast, Asking
<1> QED
  BY <1>4, <1>5, SyncForm, SyncFormNext

\* The thread answers: the message was the only item left.
LEMMA SignalSyncs ==
    ASSUME TypeOK, TypeOK', SyncInv, SignalSync
    PROVE  SyncInv'
<1>1. Way # <<>> /\ Head(Way) = Sync /\ Way' = Tail(Way) /\ Way \in Seq(Item)
  BY TailOfWay, WayType DEF SignalSync, NextItem
<1>2. /\ Len(Way') = Len(Way) - 1 /\ Len(Way) \in Nat \ {0} /\ Way[1] = Head(Way)
      /\ Way' \in Seq(Item)
  BY <1>1, HeadTailProperties, EmptySeq
<1>3. 1 \in 1..Len(Way) /\ Len(Way) = 1 /\ Asking
  <2>1. SyncIsLast /\ 1 \in 1..Len(Way)
    BY <1>2, SyncForm
  <2> QED
    BY <1>1, <1>2, <2>1 DEF SyncIsLast
<1>4. Way' = <<>> /\ Len(Way') = 0
  BY <1>2, <1>3, EmptySeq
<1>5. /\ UNCHANGED <<main_pc, request, phase, thread_pc>> /\ thread_pc = "work"
  BY DEF SignalSync, NextItem, modeVars
<1>6. Asking' /\ ThreadAtRest'
  BY <1>3, <1>5 DEF Asking, ThreadAtRest
<1> QED
  BY <1>3, <1>4, <1>5, <1>6, SyncFormNext DEF SyncIsLast, Asking

\* Nothing is added or taken, and who asks goes on asking.
LEMMA SameWaySyncs ==
    ASSUME TypeOK, TypeOK', SyncInv, Way' = Way, sync_done' = sync_done,
           Asking => Asking', ThreadAtRest => ThreadAtRest',
           main_pc' \in {"sync", "sync_wait"} => request' = Sync,
           main_pc' = "exclusive" /\ phase' # "initialize" => Way = <<>> /\ ThreadAtRest
    PROVE  SyncInv'
BY SyncForm, SyncFormNext DEF SyncIsLast

LEMMA WaitSyncs ==
    ASSUME TypeOK, TypeOK', SyncInv, WaitForSync
    PROVE  SyncInv'
<1>1. /\ main_pc \in {"sync", "sync_wait"} /\ request = Sync
      /\ UNCHANGED <<request, phase, thread_pc, bufferVars>>
  BY DEF WaitForSync, SyncInv, modeVars
<1>2. Way' = Way /\ Asking
  BY <1>1 DEF bufferVars, Way, Asking
<1>3. CASE sync_done
  <2>1. Way = <<>> /\ ThreadAtRest /\ Len(<<>>) = 0
    BY <1>3, SyncForm, EmptySeq
  <2>2. main_pc' = "exclusive" /\ sync_done' = FALSE /\ ThreadAtRest'
    BY <1>1, <1>3, <2>1 DEF WaitForSync, FlagAfterSync, ThreadAtRest
  <2> QED
    BY <1>2, <2>1, <2>2, SyncFormNext DEF SyncIsLast
<1>4. CASE ~sync_done
  <2>1. main_pc' = "sync_wait" /\ sync_done' = sync_done
    BY <1>4 DEF WaitForSync
  <2> QED
    BY <1>1, <1>2, <2>1, SameWaySyncs DEF Asking, ThreadAtRest
<1> QED
  BY <1>3, <1>4

LEMMA NextSyncs ==
    ASSUME QueueInv, TypeOK, TypeOK', ControlInv, SyncInv, [Next]_vars
    PROVE  SyncInv'
<1> USE DEF modeVars, bufferVars, flagVars, wakeVars, dataVars
<1>1. CASE Initialize
  <2>1. Way' = Way /\ UNCHANGED <<main_pc, request, sync_done>> /\ thread_pc = "none"
        /\ thread_pc' = "lock" /\ phase' = "initialize"
    BY <1>1 DEF Initialize, Way, ControlInv
  <2> QED
    BY <2>1, SameWaySyncs, SyncForm DEF Asking, ThreadAtRest
<1>2. CASE GetNew \/ ContinuePop \/ Enable
  <2>1. Way' = Way /\ UNCHANGED <<request, phase, thread_pc, sync_done>>
        /\ main_pc \in {"idle", "pop"} /\ main_pc' \in {"idle", "pop", "got"}
    BY <1>2 DEF GetNew, MayStore, ContinuePop, Enable, Way
  <2> QED
    BY <2>1, SameWaySyncs DEF Asking, ThreadAtRest
<1>3. CASE Synchronize \/ Close
  <2>1. PICK m \in Messages : SendMessage(m)
    BY <1>3 DEF Synchronize, Close, Messages
  <2>2. Way' = Append(Way, m) /\ m \in Item
    BY <2>1, SendWay DEF Item
  <2>3. /\ main_pc = "idle" /\ main_pc' = "flush" /\ request' = m
        /\ UNCHANGED <<thread_pc, sync_done>>
    BY <2>1 DEF SendMessage
  <2>4. ~Asking /\ (m = Sync => Asking')
    BY <2>3 DEF Asking
  <2> QED
    BY <2>2, <2>3, <2>4, AppendSyncs
<1>4. CASE AppendStamp
  <2>1. PICK h \in Data : stamp_pre_buffer' = Append(stamp_pre_buffer, h)
    BY <1>4 DEF AppendStamp
  <2>2. Way' = Append(Way, h) /\ h \in Item /\ h # Sync
    BY <1>4, <2>1, AppendToWay, ThreadAssumption DEF AppendStamp, Item, Messages
  <2>3. main_pc = "got" /\ main_pc' \in {"flush", "idle"} /\ UNCHANGED <<thread_pc, sync_done>>
    BY <1>4 DEF AppendStamp
  <2>4. ~Asking
    BY <2>3 DEF Asking
  <2> QED
    BY <2>2, <2>3, <2>4, AppendSyncs
<1>5. CASE Flush \/ EndOfBackPressure
  <2>1. Way' = Way
    BY <1>5, FlushWay DEF Flush, EndOfBackPressure, Way
  <2>2. /\ main_pc \in {"flush", "full"} /\ main_pc' \in {"full", AfterFlush}
        /\ UNCHANGED <<request, phase, thread_pc, sync_done>>
    BY <1>5 DEF Flush, EndOfBackPressure
  <2>3. /\ AfterFlush \notin {"exclusive", "sync_wait"}
        /\ AfterFlush = "sync" => request = Sync
        /\ request = Sync => AfterFlush = "sync"
    BY ThreadAssumption DEF AfterFlush
  <2> QED
    BY <2>1, <2>2, <2>3, SameWaySyncs DEF Asking, ThreadAtRest
<1>6. CASE Join \/ SetFlags
  <2>1. /\ Way' = Way /\ main_pc \in {"join", "idle"}
        /\ UNCHANGED <<request, phase, thread_pc, sync_done>>
    BY <1>6 DEF Join, SetFlags, Way
  <2>2. /\ main_pc' \in {"idle", "exclusive"}
        /\ main_pc' = "exclusive" => phase = "initialize"
    BY <1>6 DEF Join, SetFlags
  <2> QED
    BY <2>1, <2>2, SameWaySyncs DEF Asking, ThreadAtRest
<1>7. CASE Initialized
  <2>1. Way' = Append(Way, Sync) /\ Sync \in Item
    BY <1>7, AppendToWay DEF Initialized, Item, Messages
  <2>2. /\ main_pc = "exclusive" /\ main_pc' = "flush" /\ request' = Sync
        /\ UNCHANGED <<thread_pc, sync_done>>
    BY <1>7 DEF Initialized
  <2> QED
    BY <2>1, <2>2, AppendSyncs DEF Asking
<1>8. CASE UseFile \/ Closed
  <2>1. Way' = Way /\ main_pc \in {"exclusive", "idle"} /\ main_pc' = "idle"
        /\ UNCHANGED <<request, thread_pc, sync_done>>
    BY <1>8 DEF UseFile, Closed, Way
  <2> QED
    BY <2>1, SameWaySyncs DEF Asking, ThreadAtRest
<1>9. CASE TakeBuffer \/ ThreadWakes \/ BufferDone \/ Release \/ ContinuePush
  <2>1. Way' = Way
    <3>1. CASE TakeBuffer /\ stamp_buffer # <<>>
      BY <3>1, TakeWay DEF TakeBuffer, ControlInv
    <3> QED
      BY <1>9, <3>1 DEF TakeBuffer, ThreadWakes, BufferDone, Release, ContinuePush, Way
  <2>2. UNCHANGED <<main_pc, request, phase, sync_done>>
    BY <1>9 DEF TakeBuffer, ThreadWakes, BufferDone, Release, ContinuePush
  <2>3. ThreadAtRest => ThreadAtRest'
    BY <1>9 DEF TakeBuffer, ThreadWakes, BufferDone, Release, ContinuePush, ThreadAtRest
  <2> QED
    BY <2>1, <2>2, <2>3, SameWaySyncs, SyncForm DEF Asking
<1>10. CASE StoreStamp
  <2>1. PICK h \in Data : NextItem(h)
    BY <1>10 DEF StoreStamp
  <2>2. Way # <<>> /\ Head(Way) = h /\ Way' = Tail(Way) /\ h # Sync
    BY <1>10, <2>1, TailOfWay, ThreadAssumption DEF StoreStamp, NextItem, Messages
  <2> QED
    BY <1>10, <2>2, TailSyncs DEF StoreStamp
<1>11. CASE EndThread
  <2>1. Way # <<>> /\ Head(Way) = Stop /\ Way' = Tail(Way) /\ Stop # Sync
    BY <1>11, TailOfWay, ThreadAssumption DEF EndThread, NextItem
  <2> QED
    BY <1>11, <2>1, TailSyncs DEF EndThread
<1>12. CASE SpuriousWakeup \/ Rest \/ UNCHANGED vars
  <2>1. Way' = Way /\ UNCHANGED <<main_pc, request, phase, sync_done, thread_pc>>
    BY <1>12 DEF SpuriousWakeup, Rest, vars, Way
  <2> QED
    BY <2>1, SameWaySyncs, SyncForm DEF Asking, ThreadAtRest
<1> QED
  BY <1>1, <1>2, <1>3, <1>4, <1>5, <1>6, <1>7, <1>8, <1>9, <1>10, <1>11, <1>12,
     WaitSyncs, SignalSyncs
  DEF Next, MainStart, MainStep, ThreadStep

LEMMA NextStarts ==
    ASSUME QueueInv, TypeOK, ControlInv, StartInv, [Next]_vars
    PROVE  StartInv'
<1> SUFFICES ASSUME phase' \in {"new", "initialize"}, scenario'.unused < PreMax
             PROVE  /\ stamp_post_buffer' = <<>> /\ stamp_buffer' = <<>>
                    /\ Len(stamp_pre_buffer') = sent'
                    /\ main_pc' \in {"idle", "pop", "got", "exclusive"}
                    /\ thread_pc' \in {"none", "lock", "waiting"}
  BY DEF StartInv
<1> USE DEF modeVars, bufferVars, flagVars, wakeVars, dataVars
<1>1. phase \in {"new", "initialize"} /\ scenario' = scenario
  BY DEF Next, MainStart, MainStep, ThreadStep, Initialize, GetNew, Synchronize, Enable, Close,
     SendMessage, ContinuePop, AppendStamp, Flush, EndOfBackPressure, WaitForSync, Join,
     SetFlags, Initialized, UseFile, Closed, TakeBuffer, ThreadWakes, BufferDone, StoreStamp,
     Release, ContinuePush, SignalSync, EndThread, SpuriousWakeup, Rest, vars
<1>2. /\ stamp_post_buffer = <<>> /\ stamp_buffer = <<>>
      /\ Len(stamp_pre_buffer) = sent
      /\ main_pc \in {"idle", "pop", "got", "exclusive"}
      /\ thread_pc \in {"none", "lock", "waiting"}
  BY <1>1 DEF StartInv
<1>3. CASE AppendStamp
  <2>1. PICK h \in Data : stamp_pre_buffer' = Append(stamp_pre_buffer, h)
    BY <1>3 DEF AppendStamp
  <2>2. Len(stamp_pre_buffer') = Len(stamp_pre_buffer) + 1
    BY <2>1, TypeSplit, LenTypes DEF Item
  <2>3. /\ sent \in Nat /\ left \in Nat /\ left > 0 /\ sent + left = scenario.unused
        /\ scenario.unused < PreMax /\ PreMax \in Nat
    BY <1>1, <1>3, ThreadAssumption DEF AppendStamp, ControlInv, TypeOK
  <2>4. ~(Len(stamp_pre_buffer') >= PreMax)
    BY <1>2, <2>2, <2>3
  <2> QED
    BY <1>2, <1>3, <2>2, <2>4 DEF AppendStamp
<1>4. CASE \/ Initialize \/ GetNew \/ ContinuePop \/ SetFlags \/ TakeBuffer \/ ThreadWakes
           \/ SpuriousWakeup \/ Rest \/ UNCHANGED vars
  BY <1>2, <1>4 DEF Initialize, GetNew, ContinuePop, SetFlags, TakeBuffer, ThreadWakes,
     SpuriousWakeup, Rest, vars
<1>5. ~(\/ Synchronize \/ Enable \/ Close \/ Flush \/ EndOfBackPressure \/ WaitForSync \/ Join
        \/ Initialized \/ UseFile \/ Closed \/ BufferDone \/ StoreStamp \/ Release
        \/ ContinuePush \/ SignalSync \/ EndThread)
  BY <1>1, <1>2 DEF Synchronize, Enable, Close, Flush, EndOfBackPressure, WaitForSync, Join,
     Initialized, UseFile, Closed, BufferDone, StoreStamp, Release, ContinuePush, SignalSync,
     EndThread, NextItem
<1> QED
  BY <1>3, <1>4, <1>5 DEF Next, MainStart, MainStep, ThreadStep

\* Between a synchronization and the end of what follows it the simulation has
\* the file and the trace buffer for itself, and every stamp is stored. The
\* initialization does not synchronize first: the stamps of the unconnected
\* signals must not fill a buffer before it.
THEOREM FileAccessIsExclusive ==
    ASSUME \A s \in Scenarios : s.unused < PreMax
    PROVE  Spec => []ExclusiveFileAccess
<1> DEFINE Known == QueueInv /\ TypeOK /\ ControlInv /\ StampInv /\ NoLostWakeup
<1>1. Init => SyncInv /\ StartInv
  <2> SUFFICES ASSUME Init PROVE SyncInv /\ StartInv
    OBVIOUS
  <2>1. <<>> \in Seq(Item) /\ Len(<<>>) = 0
    BY EmptySeq
  <2>2. Way = <<>>
    BY <2>1, ConcatEmptySeq DEF Init, Way
  <2>3. TypeOK
    BY InitInv
  <2> QED
    BY <2>1, <2>2, <2>3, SyncForm DEF Init, SyncIsLast, StartInv
<1>2. Known /\ Known' /\ SyncInv /\ StartInv /\ [Next]_vars => SyncInv' /\ StartInv'
  BY NextSyncs, NextStarts
<1>3. Known /\ SyncInv /\ StartInv => ExclusiveFileAccess
  <2> SUFFICES ASSUME Known, SyncInv, StartInv, main_pc = "exclusive"
               PROVE  /\ stamp_post_buffer = <<>> /\ stamp_buffer = <<>>
                      /\ thread_pc \in {"lock", "waiting", "work"}
                      /\ phase # "initialize" => Len(stored) = sent
    BY DEF ExclusiveFileAccess
  <2>1. CASE phase = "initialize"
    BY <2>1 DEF StartInv, ControlInv
  <2>2. CASE phase # "initialize"
    <3>1. Way = <<>> /\ ThreadAtRest
      BY <2>2, SyncForm
    <3>2. stamp_post_buffer = <<>> /\ stamp_buffer = <<>>
      <4>1. /\ stamp_post_buffer \in Seq(Item) /\ stamp_buffer \in Seq(Item)
            /\ stamp_pre_buffer \in Seq(Item)
        BY DEF TypeOK, Item
      <4>2. /\ stamp_post_buffer \o stamp_buffer \in Seq(Item)
            /\ Len(stamp_post_buffer \o stamp_buffer) = Len(stamp_post_buffer) + Len(stamp_buffer)
        BY <4>1, ConcatProperties
      <4>3. Len(Way) = Len(stamp_post_buffer \o stamp_buffer) + Len(stamp_pre_buffer)
        BY <4>1, <4>2, ConcatProperties DEF Way
      <4>4. Len(Way) = 0
        BY <3>1, EmptySeq
      <4>5. Len(stamp_post_buffer) = 0 /\ Len(stamp_buffer) = 0
        BY <4>1, <4>2, <4>3, <4>4, LenProperties
      <4> QED
        BY <4>1, <4>5, EmptySeq
    <3>3. Len(stored) = sent
      <4>1. Stamps(Way) = {} /\ InOrder
        BY <3>1, StampForm DEF Stamps
      <4>2. Len(stored)+1..sent = {} /\ Len(stored) <= sent
        BY <4>1 DEF InOrder, Ordered
      <4>3. Len(stored) \in Nat /\ sent \in Nat
        BY LenProperties DEF TypeOK
      <4>4. Len(stored) < sent => Len(stored) + 1 \in Len(stored)+1..sent
        BY <4>3
      <4> QED
        BY <4>2, <4>3, <4>4
    <3> QED
      BY <3>1, <3>2, <3>3 DEF ThreadAtRest
  <2> QED
    BY <2>1, <2>2
<1>4. Spec => []Known
  BY StampInvariance
<1> HIDE DEF Known
<1>5. Spec => [](SyncInv /\ StartInv)
  BY <1>1, <1>2, <1>4, PTL DEF Spec
<1> QED
  BY <1>3, <1>4, <1>5, PTL

===============================================================================
