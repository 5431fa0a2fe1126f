--------------------------- MODULE ThreadedExecutor ---------------------------
(***************************************************************************)
(* ThreadedExecutor (src/ThreadedExecutor.h): one worker thread and two    *)
(* lock-free task queues. A task of the high priority queue always runs    *)
(* before one of the low priority queue. A queue keeps the order of the    *)
(* tasks of one producing thread and no order between threads ("The        *)
(* execution order of jobs in a queue can not be guaranteed"), so it is a  *)
(* sequence per thread, of which the worker takes any head.                *)
(*                                                                         *)
(* An executor is a record; what its tasks mean is up to the owner.        *)
(***************************************************************************)
EXTENDS Naturals, Sequences

NewExecutor(threads) ==
  [high |-> [t \in threads |-> <<>>], low |-> [t \in threads |-> <<>>],
   RunThread |-> TRUE]

sendWork(ex, t, task) == [ex EXCEPT !.high[t] = Append(@, task)]

sendLowPriorityWork(ex, t, task) == [ex EXCEPT !.low[t] = Append(@, task)]

Waiting(queue) == {t \in DOMAIN queue : queue[t] # <<>>}

\* Mutant: the low priority queue is not held back by the other one.
Runnable_AnyQueue(ex) ==
  IF ~ex.RunThread THEN {}
  ELSE ({"high"} \X Waiting(ex.high)) \union ({"low"} \X Waiting(ex.low))

\* The queue heads the worker thread may take next, as <<queue, thread>>.
Runnable(ex) ==
  IF ~ex.RunThread THEN {}
  ELSE IF Waiting(ex.high) # {} THEN {"high"} \X Waiting(ex.high)
  ELSE {"low"} \X Waiting(ex.low)

Task(ex, slot) == Head(ex[slot[1]][slot[2]])

Dequeue(ex, slot) == [ex EXCEPT ![slot[1]][slot[2]] = Tail(@)]

\* The task the destructor sends, once it has run.
StopThread(ex) == [ex EXCEPT !.RunThread = FALSE]

\* The places of the queues that hold the given task.
Queued(ex, task) ==
  UNION {{<<q, t, i>> : i \in {k \in DOMAIN ex[q][t] : ex[q][t][k] = task}}
           : q \in {"high", "low"}, t \in DOMAIN ex.high}
=============================================================================
