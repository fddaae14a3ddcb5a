--------------------------------- MODULE Fifo ---------------------------------
(* A queue between one writer and one reader: nothing is lost, doubled or     *)
(* overtaken, and "empty" is only answered by an empty queue.                 *)
EXTENDS Sequences

CONSTANTS Data, NULL

VARIABLES queue, answer     \* answer: what the last finished pop returned

fifoVars == <<queue, answer>>

Init == queue = <<>> /\ answer = NULL

Push(d) == queue' = Append(queue, d) /\ UNCHANGED answer

Pop ==
  /\ queue # <<>>
  /\ answer' = Head(queue)
  /\ queue' = Tail(queue)

PopNothing == queue = <<>> /\ answer' = NULL /\ UNCHANGED queue

Next == (\E d \in Data : Push(d)) \/ Pop \/ PopNothing

Spec == Init /\ [][Next]_fifoVars
===============================================================================
