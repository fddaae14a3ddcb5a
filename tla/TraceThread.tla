------------------------------ MODULE TraceThread ------------------------------
(***************************************************************************)
(* A trace file between the simulation, which produces time stamps, and    *)
(* its thread, which sorts and writes them (sca_trace_file_base). Value    *)
(* handlers go one way through two buffers and come back through the       *)
(* queue of their memory manager.                                          *)
(*                                                                         *)
(* Everything under the mutex of the file is one step.                     *)
(***************************************************************************)
EXTENDS LockFreeQueue, Sequences

CONSTANTS Sync, Stop,   \* handlers with the negative ids -2 and -1
          Scenarios,
          BufferMax,    \* MAX_THREAD_TRACE_BUFFER_SIZE
          PreMax,       \* a tenth of it
          MaxStamps     \* bound on the time stamps of the simulation

Messages == {Sync, Stop}

\* unused: traces of unconnected signals; digital: traces of SystemC signals;
\* deleted: a traced object is deleted before the file is closed.
ASSUME ThreadAssumption ==
  /\ PreMax \in Nat \ {0} /\ BufferMax \in Nat /\ PreMax <= BufferMax /\ MaxStamps \in Nat
  /\ Sync # Stop /\ Messages \cap (Data \cup {NULL}) = {}
  /\ \A s \in Scenarios : s.unused \in 0..MaxStamps /\ s.digital \in Nat /\ s.deleted \in BOOLEAN

VARIABLES
  scenario,
  phase,                \* "new", "initialize", "run", "close", "closed", "aborted"
  enabled,              \* is_time_domain_enabled()
  main_pc, request,     \* the simulation; what it asks of the thread
  thread_pc,
  stamp_pre_buffer, stamp_buffer, stamp_post_buffer,
  wait_for_read, sync_done,
  main_notified, thread_notified,
  allocated, content,   \* handlers that exist, and the stamp each one holds
  held,                 \* handlers in the trace buffer
  left,                 \* stamps the simulation may still make in this phase
  sent, stored          \* stamps made by the simulation, stamps put in the buffer

bufferVars == <<stamp_pre_buffer, stamp_buffer, stamp_post_buffer>>
flagVars   == <<wait_for_read, sync_done>>
wakeVars   == <<main_notified, thread_notified>>
dataVars   == <<allocated, content, held, left, sent, stored>>
modeVars   == <<scenario, phase, enabled>>
vars == <<queueVars, modeVars, main_pc, request, thread_pc, bufferVars,
          flagVars, wakeVars, dataVars>>

Init ==
  /\ QueueInit
  /\ scenario \in Scenarios
  /\ phase = "new" /\ enabled = TRUE
  /\ main_pc = "idle" /\ request = "none"
  /\ thread_pc = "none"
  /\ stamp_pre_buffer = <<>> /\ stamp_buffer = <<>> /\ stamp_post_buffer = <<>>
  /\ wait_for_read = FALSE /\ sync_done = FALSE
  /\ main_notified = FALSE /\ thread_notified = FALSE
  /\ allocated = {} /\ content = [h \in Data |-> 0]
  /\ held = {} /\ left = scenario.unused /\ sent = 0 /\ stored = <<>>

-----------------------------------------------------------------------------
(* Condition variables: a notification nobody waits for is lost. *)

NotifyMain == main_notified' = (main_pc \in {"full", "sync_wait"} \/ main_notified)
NotifyThread == thread_notified' = (thread_pc = "waiting" \/ thread_notified)

\* A wait may also end without a notification.
SpuriousWakeup ==
  /\ \/ main_pc \in {"full", "sync_wait"} /\ ~main_notified /\ main_notified' = TRUE
        /\ UNCHANGED thread_notified
     \/ thread_pc = "waiting" /\ ~thread_notified /\ thread_notified' = TRUE
        /\ UNCHANGED main_notified
  /\ UNCHANGED <<queueVars, modeVars, main_pc, request, thread_pc, bufferVars,
                 flagVars, dataVars>>

-----------------------------------------------------------------------------
(* The simulation *)

MayStore ==
  /\ main_pc = "idle" /\ enabled /\ left > 0
  /\ phase \in {"initialize", "run", "close"}

\* initialize(): the thread starts before the traces are initialized.
Initialize ==
  /\ phase = "new"
  /\ phase' = "initialize"
  /\ thread_pc' = "lock"
  /\ UNCHANGED <<queueVars, scenario, enabled, main_pc, request, bufferVars,
                 flagVars, wakeVars, dataVars>>

\* store_time_stamp: a handler from the memory manager, or a new one.
GetNew ==
  /\ MayStore
  /\ \/ PopEmpty /\ main_pc' = "got"
     \/ PopStart /\ main_pc' = "pop"
  /\ UNCHANGED <<modeVars, request, thread_pc, bufferVars, flagVars, wakeVars, dataVars>>

ContinuePop ==
  /\ main_pc = "pop"
  /\ PopStep
  /\ main_pc' = IF pop_pc = "count" THEN "got" ELSE "pop"
  /\ UNCHANGED <<modeVars, request, thread_pc, bufferVars, flagVars, wakeVars, dataVars>>

\* A new handler is any that does not exist yet; Data bounds how many can. reset()
\* overwrites what the handler held.
AppendStamp ==
  /\ main_pc = "got"
  /\ \E h \in Data :
       /\ IF popped # NULL THEN h = popped
          ELSE h \notin allocated /\ h = CHOOSE i \in Data : i \notin allocated
       /\ allocated' = allocated \cup {h}
       /\ content' = [content EXCEPT ![h] = sent + 1]
       /\ stamp_pre_buffer' = Append(stamp_pre_buffer, h)
  /\ sent' = sent + 1 /\ left' = left - 1
  /\ main_pc' = IF Len(stamp_pre_buffer') >= PreMax THEN "flush" ELSE "idle"
  /\ request' = "none"
  /\ UNCHANGED <<queueVars, modeVars, thread_pc, stamp_buffer, stamp_post_buffer,
                 flagVars, wakeVars, held, stored>>

\* A message is flushed at once.
SendMessage(m) ==
  /\ main_pc = "idle"
  /\ stamp_pre_buffer' = Append(stamp_pre_buffer, m)
  /\ request' = m
  /\ main_pc' = "flush"
  /\ UNCHANGED <<queueVars, thread_pc, stamp_buffer, stamp_post_buffer, flagVars,
                 wakeVars, allocated, content, held, sent, stored, scenario, enabled>>

AfterFlush_StopIsSync == IF request = "none" THEN "idle" ELSE "sync"
AfterFlush ==
  CASE request = Sync -> "sync"
    [] request = Stop -> "join"
    [] OTHER -> "idle"

Merged == stamp_buffer \o stamp_pre_buffer

\* Back pressure: the simulation waits until the thread has taken the buffer.
Flush ==
  /\ main_pc = "flush"
  /\ stamp_buffer' = Merged
  /\ stamp_pre_buffer' = <<>>
  /\ IF Len(stamp_buffer') > BufferMax
     THEN /\ wait_for_read' = TRUE
          /\ main_pc' = "full" /\ main_notified' = FALSE
          /\ UNCHANGED thread_notified
     ELSE /\ NotifyThread
          /\ main_pc' = AfterFlush
          /\ UNCHANGED <<wait_for_read, main_notified>>
  /\ UNCHANGED <<queueVars, modeVars, request, thread_pc, stamp_post_buffer,
                 sync_done, dataVars>>

EndOfBackPressure ==
  /\ main_pc = "full" /\ main_notified
  /\ main_notified' = FALSE
  /\ IF wait_for_read THEN UNCHANGED <<main_pc, thread_notified>>
     ELSE NotifyThread /\ main_pc' = AfterFlush
  /\ UNCHANGED <<queueVars, modeVars, request, thread_pc, bufferVars, flagVars, dataVars>>

\* sync_with_thread waits for the flag and takes it back.
FlagAfterSync_Kept == sync_done
FlagAfterSync == FALSE
WaitForSync ==
  /\ main_pc = "sync" \/ (main_pc = "sync_wait" /\ main_notified)
  /\ main_notified' = FALSE
  /\ IF sync_done
     THEN main_pc' = "exclusive" /\ sync_done' = FlagAfterSync
     ELSE main_pc' = "sync_wait" /\ UNCHANGED sync_done
  /\ UNCHANGED <<queueVars, modeVars, request, thread_pc, bufferVars, wait_for_read,
                 thread_notified, dataVars>>

\* join(); a thread that was joined before is not joinable.
Join ==
  /\ main_pc = "join"
  /\ thread_pc = "done"
  /\ main_pc' = "idle"
  /\ UNCHANGED <<queueVars, modeVars, request, thread_pc, bufferVars, flagVars,
                 wakeVars, dataVars>>

\* initialize() sets the flags and modes of all traces, then synchronizes.
SetFlags ==
  /\ phase = "initialize" /\ left = 0 /\ main_pc = "idle"
  /\ main_pc' = "exclusive"
  /\ UNCHANGED <<queueVars, modeVars, request, thread_pc, bufferVars, flagVars,
                 wakeVars, dataVars>>

Initialized ==
  /\ phase = "initialize" /\ main_pc = "exclusive"
  /\ phase' = "run"
  /\ left' = MaxStamps - sent
  /\ stamp_pre_buffer' = Append(stamp_pre_buffer, Sync)
  /\ request' = Sync
  /\ main_pc' = "flush"
  /\ UNCHANGED <<queueVars, scenario, enabled, thread_pc, stamp_buffer,
                 stamp_post_buffer, flagVars, wakeVars, allocated, content, held,
                 sent, stored>>

\* synchronize(), reopen(), set_mode(), disable() synchronize first.
Synchronize ==
  /\ phase \in {"run", "aborted"}
  /\ SendMessage(Sync)
  /\ UNCHANGED <<phase, left>>

\* Then they use the file and the trace buffer; disable() ends the storing.
UseFile ==
  /\ phase \in {"run", "aborted"} /\ main_pc = "exclusive"
  /\ main_pc' = "idle"
  /\ enabled' \in {enabled, FALSE}
  /\ UNCHANGED <<queueVars, scenario, phase, request, thread_pc, bufferVars,
                 flagVars, wakeVars, dataVars>>

Enable ==
  /\ phase = "run" /\ main_pc = "idle" /\ ~enabled
  /\ enabled' = TRUE
  /\ UNCHANGED <<queueVars, scenario, phase, main_pc, request, thread_pc,
                 bufferVars, flagVars, wakeVars, dataVars>>

-----------------------------------------------------------------------------
(* close_trace *)

Close ==
  /\ phase = "run"
  /\ phase' = "close"
  /\ left' = scenario.digital
  /\ SendMessage(Stop)

\* After the thread has ended, the SystemC traces store a last value and what
\* is left is written, unless something traced is gone.
Closed ==
  /\ phase = "close" /\ main_pc = "idle"
  /\ IF scenario.deleted THEN phase' = "aborted"
     ELSE phase' = "closed" /\ ~MayStore
  /\ UNCHANGED <<queueVars, scenario, enabled, main_pc, request, thread_pc,
                 bufferVars, flagVars, wakeVars, dataVars>>

-----------------------------------------------------------------------------
(* store_abstract_time_stamp_thread *)

TakeBuffer ==
  /\ thread_pc = "lock"
  /\ IF stamp_buffer = <<>>
     THEN /\ thread_pc' = "waiting" /\ thread_notified' = FALSE
          /\ UNCHANGED <<stamp_buffer, stamp_post_buffer, wait_for_read, main_notified>>
     ELSE /\ stamp_post_buffer' = stamp_buffer
          /\ stamp_buffer' = <<>>
          /\ thread_pc' = "work"
          /\ IF wait_for_read THEN NotifyMain ELSE UNCHANGED main_notified
          /\ wait_for_read' = FALSE
          /\ UNCHANGED thread_notified
  /\ UNCHANGED <<queueVars, modeVars, main_pc, request, stamp_pre_buffer, sync_done,
                 dataVars>>

ThreadWakes ==
  /\ thread_pc = "waiting" /\ thread_notified
  /\ thread_pc' = "lock"
  /\ UNCHANGED <<queueVars, modeVars, main_pc, request, bufferVars, flagVars,
                 wakeVars, dataVars>>

BufferDone ==
  /\ thread_pc = "work" /\ stamp_post_buffer = <<>>
  /\ thread_pc' = "lock"
  /\ UNCHANGED <<queueVars, modeVars, main_pc, request, bufferVars, flagVars,
                 wakeVars, dataVars>>

NextItem(item) ==
  /\ thread_pc = "work" /\ stamp_post_buffer # <<>>
  /\ item = Head(stamp_post_buffer)
  /\ stamp_post_buffer' = Tail(stamp_post_buffer)

\* The trace buffer keeps the handler, or takes only its value.
StoreStamp ==
  /\ \E h \in Data :
       /\ NextItem(h)
       /\ stored' = Append(stored, content[h])
       /\ held' = held \cup {h}
  /\ thread_pc' = "release"
  /\ UNCHANGED <<queueVars, modeVars, main_pc, request, stamp_pre_buffer,
                 stamp_buffer, flagVars, wakeVars, allocated, content, left, sent>>

\* Written rows release handlers, in any number.
Release ==
  /\ thread_pc = "release"
  /\ \/ \E h \in held : PushStart(h) /\ held' = held \ {h} /\ thread_pc' = "push"
     \/ thread_pc' = "work" /\ UNCHANGED <<queueVars, held>>
  /\ UNCHANGED <<modeVars, main_pc, request, bufferVars, flagVars, wakeVars,
                 allocated, content, left, sent, stored>>

ContinuePush ==
  /\ thread_pc = "push"
  /\ PushStep
  /\ thread_pc' = IF push_pc = "count" THEN "release" ELSE "push"
  /\ UNCHANGED <<modeVars, main_pc, request, bufferVars, flagVars, wakeVars, dataVars>>

SignalSync ==
  /\ NextItem(Sync)
  /\ sync_done' = TRUE
  /\ NotifyMain
  /\ UNCHANGED <<queueVars, modeVars, main_pc, request, thread_pc, stamp_pre_buffer,
                 stamp_buffer, wait_for_read, thread_notified, dataVars>>

EndThread ==
  /\ NextItem(Stop)
  /\ thread_pc' = "done"
  /\ UNCHANGED <<queueVars, modeVars, main_pc, request, stamp_pre_buffer, stamp_buffer,
                 flagVars, wakeVars, dataVars>>

-----------------------------------------------------------------------------
MainStep ==
  \/ ContinuePop \/ AppendStamp \/ Flush \/ EndOfBackPressure \/ WaitForSync \/ Join
  \/ SetFlags \/ Initialized \/ UseFile \/ Closed
MainStart == Initialize \/ GetNew \/ Synchronize \/ Enable \/ Close
ThreadStep ==
  \/ TakeBuffer \/ ThreadWakes \/ BufferDone \/ StoreStamp \/ Release \/ ContinuePush
  \/ SignalSync \/ EndThread

\* Nothing more happens to a closed file.
Rest == phase = "closed" /\ UNCHANGED vars

Next == MainStart \/ MainStep \/ ThreadStep \/ SpuriousWakeup \/ Rest

Spec == Init /\ [][Next]_vars

\* Both threads run; the simulation calls or does not call.
FairSpec == Spec /\ WF_vars(MainStep) /\ WF_vars(ThreadStep)

-----------------------------------------------------------------------------
TypeOK ==
  /\ QueueTypeOK
  /\ phase \in {"new", "initialize", "run", "close", "closed", "aborted"}
  /\ main_pc \in {"idle", "pop", "got", "flush", "full", "sync", "sync_wait",
                  "exclusive", "join"}
  /\ thread_pc \in {"none", "lock", "waiting", "work", "release", "push", "done"}
  /\ stamp_pre_buffer \in Seq(Data \cup Messages)
  /\ stamp_buffer \in Seq(Data \cup Messages)
  /\ stamp_post_buffer \in Seq(Data \cup Messages)
  /\ request \in Messages \cup {"none"}
  /\ enabled \in BOOLEAN /\ wait_for_read \in BOOLEAN /\ sync_done \in BOOLEAN
  /\ main_notified \in BOOLEAN /\ thread_notified \in BOOLEAN
  /\ allocated \subseteq Data /\ held \subseteq Data
  /\ content \in [Data -> Nat] /\ left \in Nat /\ sent \in Nat /\ stored \in Seq(Nat)

\* What the thread still has to take, oldest first, and the stamps in it.
Way == stamp_post_buffer \o stamp_buffer \o stamp_pre_buffer
OnTheWay == {i \in DOMAIN Way : Way[i] \in Data}

\* No stamp is lost, doubled, overtaken or overwritten by a reused handler on its
\* way through the three buffers.
StampsArriveInOrder ==
  /\ Len(stored) <= sent /\ \A n \in 1..Len(stored) : stored[n] = n
  /\ {content[Way[i]] : i \in OnTheWay} = Len(stored)+1..sent
  /\ \A i, j \in OnTheWay : i < j => content[Way[i]] < content[Way[j]]

\* While the simulation uses the trace buffer or the file, the thread has
\* stored everything made before and does not touch them.
ExclusiveFileAccess ==
  main_pc = "exclusive" =>
    /\ stamp_post_buffer = <<>> /\ stamp_buffer = <<>>
    /\ thread_pc \in {"lock", "waiting", "work"}
    /\ phase # "initialize" => Len(stored) = sent

\* A handler has one owner: on its way to the thread, kept in the trace buffer,
\* being given back, free for the next stamp, or taken for it.
Travelling  == {Way[i] : i \in OnTheWay}
Returning   == IF push_pc = "idle" THEN {} ELSE {pushed}
Free        == {slots[k % size] : k \in read_cnt..write_cnt-1}
NextHandler == IF main_pc = "got" THEN {popped} \ {NULL} ELSE {}
OneOwner ==
  /\ \A i, j \in OnTheWay : Way[i] = Way[j] => i = j
  /\ Travelling \cap (held \cup Returning \cup Free \cup NextHandler) = {}
  /\ held \cap (Returning \cup Free \cup NextHandler) = {}
  /\ Returning \cap (Free \cup NextHandler) = {}
  /\ NextHandler \cap Free = {}

\* A thread only sleeps while there is nothing to do for it.
NoLostWakeup ==
  /\ thread_pc = "waiting" /\ ~thread_notified => stamp_buffer = <<>>
  /\ main_pc = "full" /\ ~main_notified => wait_for_read
  /\ main_pc = "sync_wait" /\ ~main_notified => ~sync_done

\* No stamp is lost, doubled or overtaken, because no handler is in two places,
\* and none is left lying because a thread sleeps through its notification.
StampsSafe == TypeOK /\ OneOwner /\ StampsArriveInOrder /\ NoLostWakeup

\* The pool of handlers behaves as a queue (sca_lock_free_queue).
Pool == INSTANCE Fifo WITH
  queue <- LET first == IF pop_pc = "count" THEN read_cnt + 1 ELSE read_cnt
           IN [i \in 1..write_cnt - first |-> slots[(first + i - 1) % size]],
  answer <- popped
PoolIsFifo == Pool!Spec

\* Every call of the simulation returns.
CallsReturn == main_pc # "idle" ~> main_pc = "idle"

\* What was stored before the file is closed is in the trace buffer then.
ClosedIsComplete == phase = "closed" => Len(stored) = sent
===============================================================================
