----------------------------- MODULE LockFreeQueue -----------------------------
(***************************************************************************)
(* sca_lock_free_queue: one thread pushes, one thread pops. Positions are  *)
(* taken from two counters that only grow; a mutex protects the buffer     *)
(* against being exchanged while it is read.                               *)
(*                                                                         *)
(* Between two steps of one thread the other one may run. Code under the   *)
(* mutex is one step where the other thread can neither see nor change     *)
(* what it touches.                                                        *)
(***************************************************************************)
EXTENDS Integers, Sequences

CONSTANTS Data, NULL,
          Chunk         \* 256 slots at first, and with every increase

ASSUME QueueAssumption == NULL \notin Data /\ Chunk \in Nat \ {0}

VARIABLES
  slots, size,          \* buffer and its size
  read_cnt, write_cnt,
  resize_mutex,         \* "free" or the thread that holds it
  push_pc, pushed,      \* the pushing thread and its argument
  pop_pc, pos, popped   \* the popping thread, its position and its result

writerVars == <<push_pc, pushed>>
readerVars == <<pop_pc, pos, popped>>
queueVars  == <<slots, size, read_cnt, write_cnt, resize_mutex, writerVars, readerVars>>

Cells(n) == [0..n-1 -> Data \cup {NULL}]

QueueInit ==
  /\ size = Chunk
  /\ slots = [i \in 0..Chunk-1 |-> NULL]
  /\ read_cnt = 0 /\ write_cnt = 0
  /\ resize_mutex = "free"
  /\ push_pc = "idle" /\ pushed = NULL
  /\ pop_pc = "idle" /\ pos = 0 /\ popped = NULL

-----------------------------------------------------------------------------
(* push *)

IsFull_Late == write_cnt - read_cnt > size
IsFull == write_cnt - read_cnt >= size

PushStart(d) ==
  /\ push_pc = "idle"
  /\ pushed' = d
  /\ push_pc' = IF IsFull THEN "lock" ELSE "store"
  /\ UNCHANGED <<slots, size, read_cnt, write_cnt, resize_mutex, readerVars>>

LockForIncrease ==
  /\ push_pc = "lock"
  /\ resize_mutex = "free"
  /\ resize_mutex' = "push"
  /\ push_pc' = "copy"
  /\ UNCHANGED <<slots, size, read_cnt, write_cnt, pushed, readerVars>>

\* Every entry moves to its position modulo the new size.
Copied(n) ==
  LET waiting == read_cnt..write_cnt-1
      at(i) == {k \in waiting : k % n = i}
  IN [i \in 0..n-1 |->
        IF at(i) = {} THEN NULL ELSE slots[(CHOOSE k \in at(i) : TRUE) % size]]

increase_buffer ==
  /\ push_pc = "copy"
  /\ slots' = Copied(size + Chunk)
  /\ size' = size + Chunk
  /\ resize_mutex' = "free"
  /\ push_pc' = "store"
  /\ UNCHANGED <<read_cnt, write_cnt, pushed, readerVars>>

StoreSlot ==
  /\ push_pc = "store"
  /\ slots' = [slots EXCEPT ![write_cnt % size] = pushed]
  /\ push_pc' = "count"
  /\ UNCHANGED <<size, read_cnt, write_cnt, resize_mutex, pushed, readerVars>>

CountWrite ==
  /\ push_pc = "count"
  /\ write_cnt' = write_cnt + 1
  /\ push_pc' = "idle"
  /\ UNCHANGED <<slots, size, read_cnt, resize_mutex, pushed, readerVars>>

-----------------------------------------------------------------------------
(* pop *)

PopEmpty ==
  /\ pop_pc = "idle"
  /\ read_cnt >= write_cnt
  /\ popped' = NULL
  /\ UNCHANGED <<slots, size, read_cnt, write_cnt, resize_mutex, pop_pc, pos, writerVars>>

PopStart ==
  /\ pop_pc = "idle"
  /\ read_cnt < write_cnt
  /\ pop_pc' = "lock"
  /\ UNCHANGED <<slots, size, read_cnt, write_cnt, resize_mutex, pos, popped, writerVars>>

PopPosition_NoMutex ==
  /\ pop_pc = "lock"
  /\ pos' = read_cnt % size
  /\ pop_pc' = "read"
  /\ UNCHANGED <<slots, size, read_cnt, write_cnt, resize_mutex, popped, writerVars>>
PopPosition ==
  /\ pop_pc = "lock"
  /\ resize_mutex = "free"
  /\ resize_mutex' = "pop"
  /\ pos' = read_cnt % size
  /\ pop_pc' = "read"
  /\ UNCHANGED <<slots, size, read_cnt, write_cnt, popped, writerVars>>

PopRead ==
  /\ pop_pc = "read"
  /\ popped' = slots[pos]
  /\ resize_mutex' = "free"
  /\ pop_pc' = "count"
  /\ UNCHANGED <<slots, size, read_cnt, write_cnt, pos, writerVars>>

CountRead ==
  /\ pop_pc = "count"
  /\ read_cnt' = read_cnt + 1
  /\ pop_pc' = "idle"
  /\ UNCHANGED <<slots, size, write_cnt, resize_mutex, pos, popped, writerVars>>

-----------------------------------------------------------------------------
PushStep == LockForIncrease \/ increase_buffer \/ StoreSlot \/ CountWrite
PopStep == PopPosition \/ PopRead \/ CountRead

QueueNext ==
  \/ \E d \in Data : PushStart(d)
  \/ PushStep
  \/ PopEmpty \/ PopStart \/ PopStep

QueueSpec == QueueInit /\ [][QueueNext]_queueVars

QueueTypeOK ==
  /\ size \in Nat \ {0}
  /\ slots \in Cells(size)
  /\ read_cnt \in Nat /\ write_cnt \in Nat
  /\ resize_mutex \in {"free", "push", "pop"}
  /\ push_pc \in {"idle", "lock", "copy", "store", "count"}
  /\ pop_pc \in {"idle", "lock", "read", "count"} /\ pos \in Nat
  /\ pushed \in Data \cup {NULL} /\ popped \in Data \cup {NULL}
===============================================================================
