----------------------------- MODULE CommonLemmas -----------------------------
(***************************************************************************)
(* Facts that the proofs of several components share:                      *)
(* what the operations of a ThreadedExecutor do to its queues, for any     *)
(* threads Th and tasks Ta: types, which task the worker may take, and how *)
(* often a task is queued; what std::remove_if keeps of a vector; that a   *)
(* set of naturals has a least member, for proofs by counterexample; and   *)
(* what the methods of a SourceFilter do to it.                            *)
(***************************************************************************)
EXTENDS ThreadedExecutor, RemoveIf, SourceFilterOps, SequenceTheorems,
        FiniteSetTheorems, WellFoundedInduction, TLAPS

Queues(Th, Ta) == [Th -> Seq(Ta)]

Executors(Th, Ta) ==
  [high : Queues(Th, Ta), low : Queues(Th, Ta), RunThread : BOOLEAN]

Put(queues, t, task) == [queues EXCEPT ![t] = Append(@, task)]
Taken(queues, t) == [queues EXCEPT ![t] = Tail(@)]

\* A new executor has empty queues.
LEMMA NewExecutorFacts ==
  ASSUME NEW Th, NEW Ta
  PROVE  /\ NewExecutor(Th) \in Executors(Th, Ta)
         /\ NewExecutor(Th).RunThread
         /\ \A t \in Th : NewExecutor(Th).high[t] = << >>
                          /\ NewExecutor(Th).low[t] = << >>
BY DEF NewExecutor, Executors, Queues

\* A task sent by a thread goes to the end of that thread's queue.
LEMMA PutFacts ==
  ASSUME NEW Th, NEW Ta, NEW queues \in Queues(Th, Ta), NEW t \in Th,
         NEW task \in Ta
  PROVE  Put(queues, t, task) \in Queues(Th, Ta)
BY DEF Put, Queues

\* Sending a task of either priority touches one queue and nothing else.
LEMMA SendFacts ==
  ASSUME NEW Th, NEW Ta, NEW ex \in Executors(Th, Ta), NEW t \in Th,
         NEW task \in Ta
  PROVE  /\ sendWork(ex, t, task) \in Executors(Th, Ta)
         /\ sendWork(ex, t, task).high = Put(ex.high, t, task)
         /\ sendWork(ex, t, task).low = ex.low
         /\ sendWork(ex, t, task).RunThread = ex.RunThread
         /\ sendLowPriorityWork(ex, t, task) \in Executors(Th, Ta)
         /\ sendLowPriorityWork(ex, t, task).low = Put(ex.low, t, task)
         /\ sendLowPriorityWork(ex, t, task).high = ex.high
         /\ sendLowPriorityWork(ex, t, task).RunThread = ex.RunThread
<1>1. ex.high \in Queues(Th, Ta) /\ ex.low \in Queues(Th, Ta)
  BY DEF Executors
<1>2. Put(ex.high, t, task) \in Queues(Th, Ta) /\ Put(ex.low, t, task) \in Queues(Th, Ta)
  BY <1>1, PutFacts
<1>3. /\ sendWork(ex, t, task) = [ex EXCEPT !.high = Put(ex.high, t, task)]
      /\ sendLowPriorityWork(ex, t, task) = [ex EXCEPT !.low = Put(ex.low, t, task)]
  BY DEF sendWork, sendLowPriorityWork, Put
<1> QED BY <1>1, <1>2, <1>3 DEF Executors

\* Taking a task leaves sequences of tasks.
LEMMA TakenFacts ==
  ASSUME NEW Th, NEW Ta, NEW queues \in Queues(Th, Ta), NEW t \in Th,
         queues[t] # << >>
  PROVE  Taken(queues, t) \in Queues(Th, Ta) /\ Head(queues[t]) \in Ta
<1>1. queues[t] \in Seq(Ta)
  BY DEF Queues
<1>2. Tail(queues[t]) \in Seq(Ta) /\ Head(queues[t]) \in Ta
  BY <1>1, HeadTailProperties
<1> QED BY <1>2 DEF Taken, Queues

(* The worker takes the first task of some thread, of the low priority queue
   only if the other one is empty. *)
LEMMA RunnableFacts ==
  ASSUME NEW Th, NEW Ta, NEW ex \in Executors(Th, Ta), NEW slot \in Runnable(ex)
  PROVE  /\ ex.RunThread
         /\ Task(ex, slot) \in Ta
         /\ Dequeue(ex, slot) \in Executors(Th, Ta)
         /\ Dequeue(ex, slot).RunThread = ex.RunThread
         /\ \E t \in Th :
              \/ /\ ex.high[t] # << >> /\ Task(ex, slot) = Head(ex.high[t])
                 /\ Dequeue(ex, slot).high = Taken(ex.high, t)
                 /\ Dequeue(ex, slot).low = ex.low
              \/ /\ ex.low[t] # << >> /\ Task(ex, slot) = Head(ex.low[t])
                 /\ Dequeue(ex, slot).low = Taken(ex.low, t)
                 /\ Dequeue(ex, slot).high = ex.high
                 /\ \A u \in Th : ex.high[u] = << >>
<1>0. ex.high \in Queues(Th, Ta) /\ ex.low \in Queues(Th, Ta)
  BY DEF Executors
<1>1. ex.RunThread
  BY DEF Runnable
<1>2. CASE Waiting(ex.high) # {}
  <2>1. PICK t \in Waiting(ex.high) : slot = <<"high", t>>
    BY <1>1, <1>2 DEF Runnable
  <2>2. t \in Th /\ ex.high[t] # << >>
    BY <1>0, <2>1 DEF Waiting, Queues
  <2>3. Task(ex, slot) = Head(ex.high[t])
    BY <2>1 DEF Task
  <2>4. Dequeue(ex, slot) = [ex EXCEPT !.high = Taken(ex.high, t)]
    BY <1>0, <2>1 DEF Dequeue, Taken, Executors
  <2>5. Taken(ex.high, t) \in Queues(Th, Ta) /\ Head(ex.high[t]) \in Ta
    BY <1>0, <2>2, TakenFacts
  <2>6. /\ Dequeue(ex, slot) \in Executors(Th, Ta)
        /\ Dequeue(ex, slot).high = Taken(ex.high, t)
        /\ Dequeue(ex, slot).low = ex.low
        /\ Dequeue(ex, slot).RunThread = ex.RunThread
    BY <2>4, <2>5 DEF Executors
  <2> QED BY <1>1, <2>2, <2>3, <2>5, <2>6
<1>3. CASE Waiting(ex.high) = {}
  <2>1. PICK t \in Waiting(ex.low) : slot = <<"low", t>>
    BY <1>1, <1>3 DEF Runnable
  <2>2. t \in Th /\ ex.low[t] # << >>
    BY <1>0, <2>1 DEF Waiting, Queues
  <2>3. Task(ex, slot) = Head(ex.low[t])
    BY <2>1 DEF Task
  <2>4. Dequeue(ex, slot) = [ex EXCEPT !.low = Taken(ex.low, t)]
    BY <1>0, <2>1 DEF Dequeue, Taken, Executors
  <2>5. Taken(ex.low, t) \in Queues(Th, Ta) /\ Head(ex.low[t]) \in Ta
    BY <1>0, <2>2, TakenFacts
  <2>6. /\ Dequeue(ex, slot) \in Executors(Th, Ta)
        /\ Dequeue(ex, slot).low = Taken(ex.low, t)
        /\ Dequeue(ex, slot).high = ex.high
        /\ Dequeue(ex, slot).RunThread = ex.RunThread
    BY <2>4, <2>5 DEF Executors
  <2>7. \A u \in Th : ex.high[u] = << >>
    BY <1>0, <1>3 DEF Waiting, Queues
  <2> QED BY <1>1, <2>2, <2>3, <2>5, <2>6, <2>7
<1> QED BY <1>2, <1>3

-----------------------------------------------------------------------------
(* How often tasks of a set S are in the queues of one priority: nowhere, or in
   one place, which holds x. *)

InAt(queues, S, t, i) ==
  t \in DOMAIN queues /\ i \in DOMAIN queues[t] /\ queues[t][i] \in S
NoneIn(queues, S) == \A t, i : ~InAt(queues, S, t, i)
OneIn(queues, S, x) ==
  \E t, i : /\ InAt(queues, S, t, i) /\ queues[t][i] = x
            /\ \A u, j : InAt(queues, S, u, j) => u = t /\ j = i

\* A task that is sent adds itself and nothing else.
LEMMA PutLine ==
  ASSUME NEW Th, NEW Ta, NEW queues \in Queues(Th, Ta), NEW t \in Th,
         NEW x \in Ta, NEW S, NEW y
  PROVE  /\ x \notin S /\ NoneIn(queues, S) => NoneIn(Put(queues, t, x), S)
         /\ x \notin S /\ OneIn(queues, S, y) => OneIn(Put(queues, t, x), S, y)
         /\ x \in S /\ NoneIn(queues, S) => OneIn(Put(queues, t, x), S, x)
<1> DEFINE q == queues[t]
           new == Put(queues, t, x)
<1>1. q \in Seq(Ta) /\ DOMAIN queues = Th
  BY DEF Queues
<1>2. /\ DOMAIN new = Th /\ \A u \in Th : u # t => new[u] = queues[u]
      /\ new[t] = Append(q, x)
  BY <1>1 DEF Put
<1>3. /\ DOMAIN q = 1..Len(q) /\ Len(q) \in Nat
      /\ DOMAIN Append(q, x) = 1..(Len(q) + 1)
      /\ \A i \in 1..Len(q) : Append(q, x)[i] = q[i]
      /\ Append(q, x)[Len(q) + 1] = x
  BY <1>1
<1>4. \A u, j : /\ InAt(new, S, u, j) <=>
                     InAt(queues, S, u, j) \/ (x \in S /\ u = t /\ j = Len(q) + 1)
                /\ InAt(queues, S, u, j) => new[u][j] = queues[u][j]
  <2> SUFFICES ASSUME NEW u, NEW j
               PROVE  /\ InAt(new, S, u, j) <=>
                           InAt(queues, S, u, j) \/ (x \in S /\ u = t /\ j = Len(q) + 1)
                      /\ InAt(queues, S, u, j) => new[u][j] = queues[u][j]
    OBVIOUS
  <2> HIDE DEF new
  <2>1. CASE u # t
    BY <1>1, <1>2, <2>1 DEF InAt
  <2>2. CASE u = t
    <3>1. InAt(new, S, u, j) <=> j \in 1..(Len(q) + 1) /\ Append(q, x)[j] \in S
      BY <1>2, <1>3, <2>2 DEF InAt
    <3>2. InAt(queues, S, u, j) <=> j \in 1..Len(q) /\ q[j] \in S
      BY <1>1, <1>3, <2>2 DEF InAt
    <3>3. new[u][j] = Append(q, x)[j] /\ queues[u][j] = q[j]
      BY <1>2, <2>2
    <3> HIDE DEF q
    <3>4. j \in 1..(Len(q) + 1) <=> j \in 1..Len(q) \/ j = Len(q) + 1
      BY <1>3
    <3>5. ~(Len(q) + 1 \in 1..Len(q))
      BY <1>3
    <3> QED BY <1>3, <2>2, <3>1, <3>2, <3>3, <3>4, <3>5
  <2> QED BY <2>1, <2>2
<1>5. new[t][Len(q) + 1] = x
  BY <1>2, <1>3
<1> HIDE DEF q, new
<1>6. x \notin S /\ NoneIn(queues, S) => NoneIn(new, S)
  BY <1>4 DEF NoneIn
<1>7. ASSUME x \notin S, OneIn(queues, S, y) PROVE OneIn(new, S, y)
  <2>1. PICK u, j : /\ InAt(queues, S, u, j) /\ queues[u][j] = y
                    /\ \A v, k : InAt(queues, S, v, k) => v = u /\ k = j
    BY <1>7 DEF OneIn
  <2>2. InAt(new, S, u, j) /\ new[u][j] = y
    BY <1>4, <2>1
  <2>3. \A v, k : InAt(new, S, v, k) => v = u /\ k = j
    BY <1>4, <1>7, <2>1
  <2> QED BY <2>2, <2>3 DEF OneIn
<1>8. ASSUME x \in S, NoneIn(queues, S) PROVE OneIn(new, S, x)
  <2>1. InAt(new, S, t, Len(q) + 1)
    BY <1>4, <1>8
  <2>2. \A u, j : InAt(new, S, u, j) => u = t /\ j = Len(q) + 1
    BY <1>4, <1>8 DEF NoneIn
  <2> QED BY <1>5, <2>1, <2>2 DEF OneIn
<1> QED BY <1>6, <1>7, <1>8 DEF new

\* A task that is taken goes, and no other.
LEMMA TakenLine ==
  ASSUME NEW Th, NEW Ta, NEW queues \in Queues(Th, Ta), NEW t \in Th,
         queues[t] # << >>, NEW S, NEW y
  PROVE  /\ NoneIn(queues, S) => Head(queues[t]) \notin S /\ NoneIn(Taken(queues, t), S)
         /\ Head(queues[t]) \notin S /\ OneIn(queues, S, y) => OneIn(Taken(queues, t), S, y)
         /\ Head(queues[t]) \in S /\ OneIn(queues, S, y) =>
              Head(queues[t]) = y /\ NoneIn(Taken(queues, t), S)
<1> DEFINE q == queues[t]
           new == Taken(queues, t)
<1>1. q \in Seq(Ta) /\ DOMAIN queues = Th /\ q # << >>
  BY DEF Queues
<1>2. /\ DOMAIN new = Th /\ \A u \in Th : u # t => new[u] = queues[u]
      /\ new[t] = Tail(q)
  BY <1>1 DEF Taken
<1> HIDE DEF q, new
<1>3. /\ Len(q) \in Nat \ {0} /\ DOMAIN q = 1..Len(q)
      /\ Tail(q) \in Seq(Ta) /\ Len(Tail(q)) = Len(q) - 1
      /\ \A i \in 1..Len(Tail(q)) : Tail(q)[i] = q[i + 1]
      /\ Head(q) = q[1]
  BY <1>1, EmptySeq, HeadTailProperties
<1>4. DOMAIN Tail(q) = 1..(Len(q) - 1)
  BY <1>3
<1>5. \A u, j : InAt(new, S, u, j) <=>
                  \/ u # t /\ InAt(queues, S, u, j)
                  \/ u = t /\ j \in 1..(Len(q) - 1) /\ InAt(queues, S, t, j + 1)
  <2> SUFFICES ASSUME NEW u, NEW j
               PROVE  InAt(new, S, u, j) <=>
                  \/ u # t /\ InAt(queues, S, u, j)
                  \/ u = t /\ j \in 1..(Len(q) - 1) /\ InAt(queues, S, t, j + 1)
    OBVIOUS
  <2>1. CASE u # t
    BY <1>1, <1>2, <2>1 DEF InAt
  <2>2. CASE u = t
    <3>1. InAt(new, S, u, j) <=> j \in 1..(Len(q) - 1) /\ Tail(q)[j] \in S
      BY <1>2, <1>4, <2>2 DEF InAt
    <3>2. InAt(queues, S, t, j + 1) <=> j + 1 \in 1..Len(q) /\ q[j + 1] \in S
      BY <1>1, <1>3 DEF InAt, q
    <3>3. j \in 1..(Len(q) - 1) => j + 1 \in 1..Len(q) /\ Tail(q)[j] = q[j + 1]
      BY <1>3
    <3> QED BY <2>2, <3>1, <3>2, <3>3
  <2> QED BY <2>1, <2>2
<1>6. InAt(queues, S, t, 1) <=> Head(q) \in S
  BY <1>1, <1>3 DEF InAt, q
<1>7. Head(q) = queues[t][1]
  BY <1>3 DEF q
<1>8. NoneIn(queues, S) => Head(q) \notin S /\ NoneIn(new, S)
  BY <1>5, <1>6 DEF NoneIn
<1>9. ASSUME OneIn(queues, S, y), Head(q) \in S PROVE Head(q) = y /\ NoneIn(new, S)
  <2>1. PICK u, j : /\ InAt(queues, S, u, j) /\ queues[u][j] = y
                    /\ \A v, k : InAt(queues, S, v, k) => v = u /\ k = j
    BY <1>9 DEF OneIn
  <2>2. u = t /\ j = 1
    BY <1>6, <1>9, <2>1
  <2>3. \A k \in 1..(Len(q) - 1) : k + 1 # 1
    BY <1>3
  <2> QED BY <1>5, <1>7, <2>1, <2>2, <2>3 DEF NoneIn
<1>10. ASSUME OneIn(queues, S, y), Head(q) \notin S PROVE OneIn(new, S, y)
  <2>1. PICK u, j : /\ InAt(queues, S, u, j) /\ queues[u][j] = y
                    /\ \A v, k : InAt(queues, S, v, k) => v = u /\ k = j
    BY <1>10 DEF OneIn
  <2>2. CASE u # t
    <3>1. InAt(new, S, u, j) /\ new[u][j] = y
      BY <1>1, <1>2, <1>5, <2>1, <2>2 DEF InAt
    <3>2. \A v, k : InAt(new, S, v, k) => v = u /\ k = j
      BY <1>5, <2>1, <2>2
    <3> QED BY <3>1, <3>2 DEF OneIn
  <2>3. CASE u = t
    <3>1. j \in 2..Len(q)
      BY <1>1, <1>3, <1>6, <1>10, <2>1, <2>3 DEF InAt, q
    <3>2. j - 1 \in 1..(Len(q) - 1) /\ (j - 1) + 1 = j
      BY <1>3, <3>1
    <3>3. InAt(new, S, t, j - 1) /\ new[t][j - 1] = y
      BY <1>2, <1>3, <1>5, <2>1, <2>3, <3>2 DEF q
    <3>4. \A k \in 1..(Len(q) - 1) : k + 1 = j => k = j - 1
      BY <1>3, <3>1
    <3>5. \A v, k : InAt(new, S, v, k) => v = t /\ k = j - 1
      BY <1>5, <2>1, <2>3, <3>4
    <3> QED BY <3>3, <3>5 DEF OneIn
  <2> QED BY <2>2, <2>3
<1> QED BY <1>8, <1>9, <1>10 DEF q, new

(* The same for one task: Absent and Single are NoneIn and OneIn for the set of that
   task. *)
Absent(queues, task) ==
  \A t \in DOMAIN queues : \A i \in DOMAIN queues[t] : queues[t][i] # task

IsAt(queues, task, t, i) ==
  t \in DOMAIN queues /\ i \in DOMAIN queues[t] /\ queues[t][i] = task

Single(queues, task) ==
  \E t, i : /\ IsAt(queues, task, t, i)
            /\ \A u, j : IsAt(queues, task, u, j) => u = t /\ j = i

\* How the two views are related.
LEMMA CountOfOne ==
  ASSUME NEW queues, NEW task
  PROVE  /\ Absent(queues, task) <=> NoneIn(queues, {task})
         /\ Single(queues, task) <=> OneIn(queues, {task}, task)
<1>1. \A t, i : IsAt(queues, task, t, i) <=> InAt(queues, {task}, t, i)
  BY DEF IsAt, InAt
<1>2. \A t, i : InAt(queues, {task}, t, i) => queues[t][i] = task
  BY DEF InAt
<1>3. Absent(queues, task) <=> \A t, i : ~IsAt(queues, task, t, i)
  BY DEF Absent, IsAt
<1>4. Absent(queues, task) <=> NoneIn(queues, {task})
  BY <1>1, <1>3 DEF NoneIn
<1>5. Single(queues, task) <=> OneIn(queues, {task}, task)
  BY <1>1, <1>2 DEF Single, OneIn
<1> QED BY <1>4, <1>5

\* A task that is sent, counted.
LEMMA PutCount ==
  ASSUME NEW Th, NEW Ta, NEW queues \in Queues(Th, Ta), NEW t \in Th,
         NEW x \in Ta, NEW task
  PROVE  /\ x # task /\ Absent(queues, task) => Absent(Put(queues, t, x), task)
         /\ x # task /\ Single(queues, task) => Single(Put(queues, t, x), task)
         /\ x = task /\ Absent(queues, task) => Single(Put(queues, t, x), task)
<1>1. /\ x \notin {task} /\ NoneIn(queues, {task}) => NoneIn(Put(queues, t, x), {task})
      /\ x \notin {task} /\ OneIn(queues, {task}, task) => OneIn(Put(queues, t, x), {task}, task)
      /\ x \in {task} /\ NoneIn(queues, {task}) => OneIn(Put(queues, t, x), {task}, x)
  BY PutLine
<1> QED BY <1>1, CountOfOne

\* A task that is taken, counted.
LEMMA TakenCount ==
  ASSUME NEW Th, NEW Ta, NEW queues \in Queues(Th, Ta), NEW t \in Th,
         queues[t] # << >>, NEW task
  PROVE  /\ Absent(queues, task) => Absent(Taken(queues, t), task)
         /\ Head(queues[t]) # task /\ Single(queues, task) =>
              Single(Taken(queues, t), task)
         /\ Head(queues[t]) = task /\ Single(queues, task) =>
              Absent(Taken(queues, t), task)
<1> DEFINE h == Head(queues[t])
<1>1. /\ NoneIn(queues, {task}) => NoneIn(Taken(queues, t), {task})
      /\ h \notin {task} /\ OneIn(queues, {task}, task) => OneIn(Taken(queues, t), {task}, task)
      /\ h \in {task} /\ OneIn(queues, {task}, task) => NoneIn(Taken(queues, t), {task})
  BY TakenLine
<1> QED BY <1>1, CountOfOne

\* The places where Queued finds a task.
LEMMA QueuedPlaces ==
  ASSUME NEW Th, NEW Ta, NEW ex \in Executors(Th, Ta), NEW task
  PROVE  \A p : p \in Queued(ex, task) <=>
               \/ \E t, i : p = <<"high", t, i>> /\ IsAt(ex.high, task, t, i)
               \/ \E t, i : p = <<"low", t, i>> /\ IsAt(ex.low, task, t, i)
<1>1. DOMAIN ex.high = Th /\ DOMAIN ex.low = Th
  BY DEF Executors, Queues
<1> SUFFICES ASSUME NEW p
             PROVE  p \in Queued(ex, task) <=>
               \/ \E t, i : p = <<"high", t, i>> /\ IsAt(ex.high, task, t, i)
               \/ \E t, i : p = <<"low", t, i>> /\ IsAt(ex.low, task, t, i)
  OBVIOUS
<1> DEFINE Places(q, t) ==
             {<<q, t, i>> : i \in {k \in DOMAIN ex[q][t] : ex[q][t][k] = task}}
<1>2. p \in Queued(ex, task) <=>
        \E q \in {"high", "low"}, t \in Th : p \in Places(q, t)
  <2>1. Queued(ex, task) = UNION {Places(q, t) : q \in {"high", "low"}, t \in Th}
    BY <1>1 DEF Queued
  <2> HIDE DEF Places
  <2> QED BY <2>1
<1>3. \A t : p \in Places("high", t) <=>
        \E i \in DOMAIN ex.high[t] : p = <<"high", t, i>> /\ ex.high[t][i] = task
  OBVIOUS
<1>4. \A t : p \in Places("low", t) <=>
        \E i \in DOMAIN ex.low[t] : p = <<"low", t, i>> /\ ex.low[t][i] = task
  OBVIOUS
<1> HIDE DEF Places
<1>5. p \in Queued(ex, task) <=>
        \E t \in Th : p \in Places("high", t) \/ p \in Places("low", t)
  BY <1>2
<1> QED BY <1>1, <1>3, <1>4, <1>5 DEF IsAt

(* What Queued counts: nothing if the task is in neither priority, one place if
   it is once in the low one. *)
LEMMA QueuedCount ==
  ASSUME NEW Th, NEW Ta, NEW ex \in Executors(Th, Ta), NEW task,
         Absent(ex.high, task)
  PROVE  /\ Absent(ex.low, task) => Queued(ex, task) = {}
         /\ Single(ex.low, task) => Cardinality(Queued(ex, task)) = 1
<1>2. \A p : p \in Queued(ex, task) <=>
               \/ \E t, i : p = <<"high", t, i>> /\ IsAt(ex.high, task, t, i)
               \/ \E t, i : p = <<"low", t, i>> /\ IsAt(ex.low, task, t, i)
  BY QueuedPlaces
<1>3. \A t, i : ~IsAt(ex.high, task, t, i)
  BY DEF Absent, IsAt
<1>4. ASSUME Absent(ex.low, task) PROVE Queued(ex, task) = {}
  <2>1. \A t, i : ~IsAt(ex.low, task, t, i)
    BY <1>4 DEF Absent, IsAt
  <2> QED BY <1>2, <1>3, <2>1
<1>5. ASSUME Single(ex.low, task) PROVE Cardinality(Queued(ex, task)) = 1
  <2>1. PICK t, i : /\ IsAt(ex.low, task, t, i)
                    /\ \A u, j : IsAt(ex.low, task, u, j) => u = t /\ j = i
    BY <1>5 DEF Single
  <2>2. Queued(ex, task) = {<<"low", t, i>>}
    BY <1>2, <1>3, <2>1
  <2> QED BY <2>2, FS_Singleton
<1> QED BY <1>4, <1>5

(* A task of low priority that is never queued twice: it waits once, or not at
   all. *)
Has(ex, task) == Absent(ex.high, task) /\ Single(ex.low, task)
Lacks(ex, task) == Absent(ex.high, task) /\ Absent(ex.low, task)

\* Nothing waits in a new executor.
LEMMA NewLacks ==
  ASSUME NEW Th, NEW task
  PROVE  Lacks(NewExecutor(Th), task)
BY DEF Lacks, Absent, NewExecutor

\* The task that is taken is one that waits, and is gone then.
LEMMA TakeCount ==
  ASSUME NEW Th, NEW Ta, NEW ex \in Executors(Th, Ta), NEW slot \in Runnable(ex),
         NEW x
  PROVE  /\ Lacks(ex, x) => Task(ex, slot) # x /\ Lacks(Dequeue(ex, slot), x)
         /\ Has(ex, x) /\ Task(ex, slot) = x => Lacks(Dequeue(ex, slot), x)
         /\ Has(ex, x) /\ Task(ex, slot) # x => Has(Dequeue(ex, slot), x)
<1> DEFINE task == Task(ex, slot)
           new == Dequeue(ex, slot)
<1>0. ex.high \in Queues(Th, Ta) /\ ex.low \in Queues(Th, Ta)
  BY DEF Executors
<1>1. PICK t \in Th :
              \/ /\ ex.high[t] # << >> /\ task = Head(ex.high[t])
                 /\ new.high = Taken(ex.high, t) /\ new.low = ex.low
              \/ /\ ex.low[t] # << >> /\ task = Head(ex.low[t])
                 /\ new.low = Taken(ex.low, t) /\ new.high = ex.high
  BY RunnableFacts
<1> HIDE DEF task, new
<1>2. ASSUME NEW queues \in Queues(Th, Ta), queues[t] # << >>, Absent(queues, x)
      PROVE  Head(queues[t]) # x
  <2>1. queues[t] \in Seq(Ta) /\ DOMAIN queues = Th
    BY DEF Queues
  <2>2. 1 \in DOMAIN queues[t] /\ Head(queues[t]) = queues[t][1]
    BY <1>2, <2>1
  <2> QED BY <1>2, <2>1, <2>2 DEF Absent
<1>3. CASE /\ ex.high[t] # << >> /\ task = Head(ex.high[t])
           /\ new.high = Taken(ex.high, t) /\ new.low = ex.low
  <2>1. Absent(ex.high, x) => task # x /\ Absent(new.high, x)
    BY <1>0, <1>2, <1>3, TakenCount
  <2> QED BY <1>3, <2>1 DEF Has, Lacks, task, new
<1>4. CASE /\ ex.low[t] # << >> /\ task = Head(ex.low[t])
           /\ new.low = Taken(ex.low, t) /\ new.high = ex.high
  <2>1. /\ Absent(ex.low, x) => task # x /\ Absent(new.low, x)
        /\ Single(ex.low, x) /\ task = x => Absent(new.low, x)
        /\ Single(ex.low, x) /\ task # x => Single(new.low, x)
    BY <1>0, <1>2, <1>4, TakenCount
  <2> QED BY <1>4, <2>1 DEF Has, Lacks, task, new
<1> QED BY <1>1, <1>3, <1>4

\* The task that is sent waits then, and every other one as before.
LEMMA SendCount ==
  ASSUME NEW Th, NEW Ta, NEW ex \in Executors(Th, Ta), NEW t \in Th, NEW task \in Ta,
         NEW x
  PROVE  /\ task # x /\ Lacks(ex, x) => Lacks(sendWork(ex, t, task), x)
         /\ task # x /\ Has(ex, x) => Has(sendWork(ex, t, task), x)
         /\ task # x /\ Lacks(ex, x) => Lacks(sendLowPriorityWork(ex, t, task), x)
         /\ task # x /\ Has(ex, x) => Has(sendLowPriorityWork(ex, t, task), x)
         /\ task = x /\ Lacks(ex, x) => Has(sendLowPriorityWork(ex, t, task), x)
<1>0. ex.high \in Queues(Th, Ta) /\ ex.low \in Queues(Th, Ta)
  BY DEF Executors
<1>1. /\ sendWork(ex, t, task).high = Put(ex.high, t, task)
      /\ sendWork(ex, t, task).low = ex.low
      /\ sendLowPriorityWork(ex, t, task).low = Put(ex.low, t, task)
      /\ sendLowPriorityWork(ex, t, task).high = ex.high
  BY SendFacts
<1>2. /\ task # x /\ Absent(ex.high, x) => Absent(Put(ex.high, t, task), x)
      /\ task # x /\ Absent(ex.low, x) => Absent(Put(ex.low, t, task), x)
      /\ task # x /\ Single(ex.low, x) => Single(Put(ex.low, t, task), x)
      /\ task = x /\ Absent(ex.low, x) => Single(Put(ex.low, t, task), x)
  BY <1>0, PutCount
<1> QED BY <1>1, <1>2 DEF Has, Lacks

(* Tasks that follow one another, each sending the next: of the tasks of a set S
   none waits, or only x, in the queue of some priority. *)
NoneOf(ex, S) == NoneIn(ex.high, S) /\ NoneIn(ex.low, S)
OneOf(ex, S, x) ==
  \/ OneIn(ex.high, S, x) /\ NoneIn(ex.low, S)
  \/ NoneIn(ex.high, S) /\ OneIn(ex.low, S, x)

\* Nothing waits in a new executor; the end of the thread changes no queue.
LEMMA NewLine ==
  ASSUME NEW Th, NEW Ta, NEW S
  PROVE  /\ NoneOf(NewExecutor(Th), S)
         /\ \A ex \in Executors(Th, Ta) :
              /\ NoneOf(ex, S) => NoneOf(StopThread(ex), S)
              /\ \A x : OneOf(ex, S, x) => OneOf(StopThread(ex), S, x)
<1>1. NoneOf(NewExecutor(Th), S)
  BY DEF NoneOf, NoneIn, InAt, NewExecutor
<1>2. ASSUME NEW ex \in Executors(Th, Ta)
      PROVE  StopThread(ex).high = ex.high /\ StopThread(ex).low = ex.low
  BY DEF StopThread, Executors
<1> QED BY <1>1, <1>2 DEF NoneOf, OneOf

\* The task of the line that is taken is the one that waits.
LEMMA TakeLine ==
  ASSUME NEW Th, NEW Ta, NEW ex \in Executors(Th, Ta), NEW slot \in Runnable(ex),
         NEW S, NEW x
  PROVE  /\ NoneOf(ex, S) => Task(ex, slot) \notin S /\ NoneOf(Dequeue(ex, slot), S)
         /\ OneOf(ex, S, x) /\ Task(ex, slot) \in S =>
              Task(ex, slot) = x /\ NoneOf(Dequeue(ex, slot), S)
         /\ OneOf(ex, S, x) /\ Task(ex, slot) \notin S => OneOf(Dequeue(ex, slot), S, x)
<1> DEFINE task == Task(ex, slot)
           new == Dequeue(ex, slot)
<1>0. ex.high \in Queues(Th, Ta) /\ ex.low \in Queues(Th, Ta)
  BY DEF Executors
<1>1. PICK t \in Th :
              \/ /\ ex.high[t] # << >> /\ task = Head(ex.high[t])
                 /\ new.high = Taken(ex.high, t) /\ new.low = ex.low
              \/ /\ ex.low[t] # << >> /\ task = Head(ex.low[t])
                 /\ new.low = Taken(ex.low, t) /\ new.high = ex.high
  BY RunnableFacts
<1> HIDE DEF task, new
<1>2. CASE /\ ex.high[t] # << >> /\ task = Head(ex.high[t])
           /\ new.high = Taken(ex.high, t) /\ new.low = ex.low
  <2>1. /\ NoneIn(ex.high, S) => task \notin S /\ NoneIn(new.high, S)
        /\ task \notin S /\ OneIn(ex.high, S, x) => OneIn(new.high, S, x)
        /\ task \in S /\ OneIn(ex.high, S, x) => task = x /\ NoneIn(new.high, S)
    <3> DEFINE h == Head(ex.high[t])
               taken == Taken(ex.high, t)
    <3>1. /\ NoneIn(ex.high, S) => h \notin S /\ NoneIn(taken, S)
          /\ h \notin S /\ OneIn(ex.high, S, x) => OneIn(taken, S, x)
          /\ h \in S /\ OneIn(ex.high, S, x) => h = x /\ NoneIn(taken, S)
      BY <1>0, <1>2, TakenLine
    <3> HIDE DEF h, taken
    <3>2. task = h /\ new.high = taken
      BY <1>2 DEF h, taken
    <3> QED BY <3>1, <3>2
  <2> QED BY <1>2, <2>1 DEF NoneOf, OneOf, task, new
<1>3. CASE /\ ex.low[t] # << >> /\ task = Head(ex.low[t])
           /\ new.low = Taken(ex.low, t) /\ new.high = ex.high
  <2>1. /\ NoneIn(ex.low, S) => task \notin S /\ NoneIn(new.low, S)
        /\ task \notin S /\ OneIn(ex.low, S, x) => OneIn(new.low, S, x)
        /\ task \in S /\ OneIn(ex.low, S, x) => task = x /\ NoneIn(new.low, S)
    <3> DEFINE h == Head(ex.low[t])
               taken == Taken(ex.low, t)
    <3>1. /\ NoneIn(ex.low, S) => h \notin S /\ NoneIn(taken, S)
          /\ h \notin S /\ OneIn(ex.low, S, x) => OneIn(taken, S, x)
          /\ h \in S /\ OneIn(ex.low, S, x) => h = x /\ NoneIn(taken, S)
      BY <1>0, <1>3, TakenLine
    <3> HIDE DEF h, taken
    <3>2. task = h /\ new.low = taken
      BY <1>3 DEF h, taken
    <3> QED BY <3>1, <3>2
  <2> QED BY <1>3, <2>1 DEF NoneOf, OneOf, task, new
<1> QED BY <1>1, <1>2, <1>3

\* The task that is sent is the next of the line, or none of it.
LEMMA SendLine ==
  ASSUME NEW Th, NEW Ta, NEW ex \in Executors(Th, Ta), NEW t \in Th, NEW task \in Ta,
         NEW S, NEW x
  PROVE  /\ task \in S /\ NoneOf(ex, S) =>
              /\ OneOf(sendWork(ex, t, task), S, task)
              /\ OneOf(sendLowPriorityWork(ex, t, task), S, task)
         /\ task \notin S /\ NoneOf(ex, S) => NoneOf(sendWork(ex, t, task), S)
         /\ task \notin S /\ OneOf(ex, S, x) => OneOf(sendWork(ex, t, task), S, x)
<1>0. ex.high \in Queues(Th, Ta) /\ ex.low \in Queues(Th, Ta)
  BY DEF Executors
<1>1. /\ sendWork(ex, t, task).high = Put(ex.high, t, task)
      /\ sendWork(ex, t, task).low = ex.low
      /\ sendLowPriorityWork(ex, t, task).low = Put(ex.low, t, task)
      /\ sendLowPriorityWork(ex, t, task).high = ex.high
  BY SendFacts
<1>2. /\ task \notin S /\ NoneIn(ex.high, S) => NoneIn(Put(ex.high, t, task), S)
      /\ task \notin S /\ OneIn(ex.high, S, x) => OneIn(Put(ex.high, t, task), S, x)
      /\ task \in S /\ NoneIn(ex.high, S) => OneIn(Put(ex.high, t, task), S, task)
      /\ task \in S /\ NoneIn(ex.low, S) => OneIn(Put(ex.low, t, task), S, task)
  BY <1>0, PutLine
<1> QED BY <1>1, <1>2 DEF NoneOf, OneOf

\* More tasks than those a queue is for.
LEMMA ExecutorsGrow ==
  ASSUME NEW Th, NEW A, NEW B, A \subseteq B, NEW ex \in Executors(Th, A)
  PROVE  ex \in Executors(Th, B)
<1>1. \A q \in Seq(A) : q \in Seq(B)
  OBVIOUS
<1> QED BY <1>1 DEF Executors, Queues

-----------------------------------------------------------------------------
(* What remove_if keeps. Induction over the naturals is by the least element
   of the set of counterexamples. *)

\* Every non-empty set of naturals has a least element.
LEMMA LeastNat ==
  ASSUME NEW T, T \subseteq Nat, T # {}
  PROVE  \E x \in T : \A y \in T : x <= y
<1>1. PICK x \in T : \A y \in T : ~(<<y, x>> \in OpToRel(<, Nat))
  BY NatLessThanWellFounded, WFMin, Zenon
<1>2. \A y \in T : ~(y < x)
  BY <1>1 DEF OpToRel
<1>3. \A y \in T : x \in Nat /\ y \in Nat
  OBVIOUS
<1>4. \A y \in T : x <= y
  BY <1>2, <1>3
<1> QED BY <1>4

IsKept(f, s, S, k) ==
  f = [n \in 0..k |-> IF n = 0 THEN << >>
                      ELSE IF s[n] \in S THEN Append(f[n - 1], s[n]) ELSE f[n - 1]]

\* The recursion of KeptUpTo has a solution, by induction on the length.
LEMMA KeptExists ==
  ASSUME NEW s, NEW S, NEW k \in Nat
  PROVE  \E f : IsKept(f, s, S, k)
<1> DEFINE T == {n \in Nat : ~\E f : IsKept(f, s, S, n)}
<1> SUFFICES ASSUME T # {} PROVE FALSE
  OBVIOUS
<1>1. PICK n \in T : \A m \in T : n <= m
  BY LeastNat
<1>2. CASE n = 0
  <2> DEFINE f == [i \in 0..0 |-> << >>]
  <2>1. IsKept(f, s, S, 0)
    BY DEF IsKept
  <2> QED BY <1>1, <1>2, <2>1
<1>3. CASE n # 0
  <2>1. n - 1 \in Nat /\ n - 1 \notin T /\ n \in Nat
    BY <1>1, <1>3
  <2>2. PICK g : IsKept(g, s, S, n - 1)
    BY <2>1
  <2> DEFINE v == IF s[n] \in S THEN Append(g[n - 1], s[n]) ELSE g[n - 1]
             f == [i \in 0..n |-> IF i = n THEN v ELSE g[i]]
  <2>3. \A i \in 0..(n-1) : g[i] = IF i = 0 THEN << >>
                      ELSE IF s[i] \in S THEN Append(g[i - 1], s[i]) ELSE g[i - 1]
    BY <2>2 DEF IsKept
  <2>4. \A i \in 0..n : f[i] = IF i = 0 THEN << >>
                      ELSE IF s[i] \in S THEN Append(f[i - 1], s[i]) ELSE f[i - 1]
    <3> SUFFICES ASSUME NEW i \in 0..n
                 PROVE f[i] = IF i = 0 THEN << >>
                      ELSE IF s[i] \in S THEN Append(f[i - 1], s[i]) ELSE f[i - 1]
      OBVIOUS
    <3>1. CASE i = n
      BY <1>3, <2>1, <3>1
    <3>2. CASE i # n
      BY <1>3, <2>1, <2>3, <3>2
    <3> QED BY <3>1, <3>2
  <2>5. IsKept(f, s, S, n)
    <3>1. f = [i \in 0..n |-> f[i]]
      OBVIOUS
    <3> HIDE DEF f
    <3> QED BY <2>4, <3>1 DEF IsKept
  <2> QED BY <1>1, <2>5
<1> QED BY <1>2, <1>3

\* So KeptUpTo satisfies the equation it is defined by.
LEMMA KeptDef ==
  ASSUME NEW D, NEW s \in Seq(D), NEW S
  PROVE  IsKept(KeptUpTo(s, S), s, S, Len(s))
<1>0. Len(s) \in Nat
  OBVIOUS
<1>1. \E f : IsKept(f, s, S, Len(s))
  BY <1>0, KeptExists, Zenon
<1>2. KeptUpTo(s, S) = CHOOSE f : IsKept(f, s, S, Len(s))
  BY DEF KeptUpTo, IsKept
<1> QED BY <1>1, <1>2

\* q has the elements of the first n of s that are in S.
HasThose(q, n, s, S) ==
  \A x : (\E i \in 1..Len(q) : q[i] = x) <=> x \in S /\ \E i \in 1..n : s[i] = x

(* remove_if keeps the elements it is to keep, all of them and no others, and
   the vector does not become longer. *)
LEMMA KeptRange ==
  ASSUME NEW D, NEW s \in Seq(D), NEW S
  PROVE  /\ Kept(s, S) \in Seq(D) /\ Len(Kept(s, S)) \in 0..Len(s)
         /\ HasThose(Kept(s, S), Len(s), s, S)
<1> DEFINE f == KeptUpTo(s, S)
           L == Len(s)
           Good(n) == /\ f[n] \in Seq(D) /\ Len(f[n]) <= n
                      /\ HasThose(f[n], n, s, S)
           T == {n \in Nat : n <= L /\ ~Good(n)}
<1>0. IsKept(f, s, S, L) /\ L \in Nat /\ \A i \in 1..L : s[i] \in D
  BY KeptDef
<1>1. \A n \in 0..L : f[n] = IF n = 0 THEN << >>
                      ELSE IF s[n] \in S THEN Append(f[n - 1], s[n]) ELSE f[n - 1]
  <2> HIDE DEF f, L
  <2> QED BY <1>0 DEF IsKept
<1> HIDE DEF f, L
<1>2. SUFFICES ASSUME T # {} PROVE FALSE
  <2>1. SUFFICES Good(L)
    <3>1. Kept(s, S) = f[L]
      BY DEF Kept, f, L
    <3>2. ASSUME Good(L) PROVE Len(f[L]) \in 0..Len(s)
      BY <1>0, <3>2 DEF L
    <3> QED BY <3>1, <3>2 DEF L
  <2>2. L \in Nat /\ L <= L
    BY <1>0
  <2> HIDE DEF Good
  <2> QED BY <2>2
<1>3. PICK n \in T : \A m \in T : n <= m
  BY <1>2, LeastNat
<1>4. n \in Nat /\ n <= L
  BY <1>3
<1>5. CASE n = 0
  <2>1. f[n] = << >>
    BY <1>0, <1>1, <1>5
  <2>2. Good(n)
    BY <1>5, <2>1 DEF HasThose
  <2> QED BY <1>3, <2>2
<1>6. CASE n # 0
  <2>1. n - 1 \in Nat /\ n - 1 <= L /\ n \in 0..L /\ n \in 1..L /\ (n - 1) + 1 = n
    BY <1>0, <1>4, <1>6
  <2>2. Good(n - 1)
    <3>1. n - 1 \notin T
      <4> HIDE DEF T
      <4> QED BY <1>3, <1>4, <2>1
    <3> HIDE DEF Good
    <3> QED BY <2>1, <3>1
  <2> DEFINE g == f[n - 1]
  <2>3. f[n] = IF s[n] \in S THEN Append(g, s[n]) ELSE g
    BY <1>1, <1>6, <2>1
  <2>4. /\ g \in Seq(D) /\ Len(g) <= n - 1 /\ Len(g) \in Nat
        /\ HasThose(g, n - 1, s, S)
    BY <2>2
  <2>i. \A x : (\E i \in 1..n : s[i] = x) <=> (\E i \in 1..(n - 1) : s[i] = x) \/ s[n] = x
    BY <2>1
  <2> HIDE DEF g
  <2>5. CASE s[n] \in S
    <3> DEFINE h == Append(g, s[n])
    <3>1. /\ h \in Seq(D) /\ Len(h) = Len(g) + 1 /\ h[Len(g) + 1] = s[n]
          /\ \A i \in 1..Len(g) : h[i] = g[i]
      BY <1>0, <2>1, <2>4
    <3>2. \A x : (\E i \in 1..Len(h) : h[i] = x) <=> (\E i \in 1..Len(g) : g[i] = x) \/ s[n] = x
      <4>1. \A i : i \in 1..Len(h) <=> i \in 1..Len(g) \/ i = Len(g) + 1
        BY <2>4, <3>1
      <4> HIDE DEF h
      <4> QED BY <3>1, <4>1
    <3>3. Good(n)
      <4>1. f[n] = h
        BY <2>3, <2>5
      <4>2. Len(h) <= n
        BY <2>4, <3>1, <2>1
      <4> HIDE DEF h
      <4>3. HasThose(h, n, s, S)
        BY <2>4, <2>i, <2>5, <3>2 DEF HasThose
      <4> QED BY <3>1, <4>1, <4>2, <4>3
    <3> QED BY <1>3, <3>3
  <2>6. CASE s[n] \notin S
    <3>1. f[n] = g
      BY <2>3, <2>6
    <3>2. HasThose(g, n, s, S)
      BY <2>4, <2>i, <2>6 DEF HasThose
    <3>3. Good(n)
      BY <2>1, <2>4, <3>1, <3>2
    <3> QED BY <1>3, <3>3
  <2> QED BY <2>5, <2>6
<1> QED BY <1>5, <1>6

-----------------------------------------------------------------------------
(* The methods of a SourceFilter, for any set M of messages and T of times. *)
(* For each way filterMessage can end: which type the filter has afterwards *)
(* and what the members hold that the properties are about. The new values  *)
(* are named and then hidden, because the prover copes with an EXCEPT of    *)
(* several fields only if their values are opaque.                          *)

\* One(c) is 0 or 1, the amount a metric grows by.
LEMMA OneIsNat == ASSUME NEW c PROVE One(c) \in Nat
<1>1. CASE c BY <1>1 DEF One
<1>2. CASE ~c BY <1>2 DEF One
<1> QED BY <1>1, <1>2

\* filterMessage dropping an invalid or repeated message.
LEMMA AfterDropFacts ==
  ASSUME NEW M, NEW T, NEW f \in FilterType(M, T), NEW m \in M,
         NEW g, g = AfterDrop(f, m)
  PROVE  /\ g \in FilterType(M, T)
         /\ g.Received = f.Received + 1
         /\ g.Transmitted = f.Transmitted
         /\ g.Discarded = f.Discarded + 1
         /\ g.BufferedMessage = f.BufferedMessage
         /\ g.CurrentTimeStamp = f.CurrentTimeStamp
         /\ g.Unordered = f.Unordered
         /\ g.Stop = f.Stop
<1> DEFINE r == f.Received + 1
           d == f.Discarded + 1
           v == f.FlatbufferInvalid + One(~m.valid)
           p == f.Repeated + One(m.valid)
<1>1. One(~m.valid) \in Nat /\ One(m.valid) \in Nat
  BY OneIsNat
<1>2. r \in Nat /\ d \in Nat /\ v \in Nat /\ p \in Nat
  BY <1>1 DEF FilterType
<1>3. g = [f EXCEPT !.Received = r, !.Discarded = d,
                    !.FlatbufferInvalid = v, !.Repeated = p]
  BY DEF AfterDrop
<1> HIDE DEF r, d, v, p
<1>4. g \in FilterType(M, T)
  BY <1>2, <1>3 DEF FilterType
<1>5. /\ g.Received = r
      /\ g.Transmitted = f.Transmitted
      /\ g.Discarded = d
      /\ g.BufferedMessage = f.BufferedMessage
      /\ g.CurrentTimeStamp = f.CurrentTimeStamp
      /\ g.Unordered = f.Unordered
      /\ g.Stop = f.Stop
  BY <1>2, <1>3 DEF FilterType
<1> QED BY <1>4, <1>5 DEF r, d

\* filterMessage keeping a message from before the window.
LEMMA AfterBufferingFacts ==
  ASSUME NEW M, NEW T, NEW f \in FilterType(M, T), NEW m \in M, m.ts \in Int,
         NEW g, g = AfterBuffering(f, m)
  PROVE  /\ g \in FilterType(M, T)
         /\ g.Received = f.Received + 1
         /\ g.Transmitted = f.Transmitted
         /\ g.Discarded = f.Discarded + One(HasBuffered(f))
         /\ g.BufferedMessage = m
         /\ g.CurrentTimeStamp = m.ts
         /\ g.Unordered = f.Unordered + One(IsUnordered(f, m))
         /\ g.Stop = f.Stop
<1> DEFINE r == f.Received + 1
           d == f.Discarded + One(HasBuffered(f))
           u == f.Unordered + One(IsUnordered(f, m))
           p == f.Repeated + One(IsRepeated(f, m))
<1>1. /\ One(HasBuffered(f)) \in Nat
      /\ One(IsUnordered(f, m)) \in Nat
      /\ One(IsRepeated(f, m)) \in Nat
  BY OneIsNat
<1>2. r \in Nat /\ d \in Nat /\ u \in Nat /\ p \in Nat
  BY <1>1 DEF FilterType
<1>4. g = [f EXCEPT !.Received = r, !.Repeated = p, !.Unordered = u,
                    !.CurrentTimeStamp = m.ts, !.Discarded = d,
                    !.BufferedMessage = m]
  BY DEF AfterBuffering
<1> HIDE DEF r, d, u, p
<1>5. g \in FilterType(M, T)
  BY <1>2, <1>4 DEF FilterType
<1>6. /\ g.Received = r
      /\ g.Transmitted = f.Transmitted
      /\ g.Discarded = d
      /\ g.BufferedMessage = m
      /\ g.CurrentTimeStamp = m.ts
      /\ g.Unordered = u
      /\ g.Stop = f.Stop
  BY <1>2, <1>4 DEF FilterType
<1> QED BY <1>5, <1>6 DEF r, d, u

\* filterMessage passing a message on, after the buffered one if there is one.
LEMMA AfterSendingFacts ==
  ASSUME NEW M, NEW T, NEW f \in FilterType(M, T), NEW m \in M, m.ts \in Int,
         NEW g, g = AfterSending(f, m)
  PROVE  /\ g \in FilterType(M, T)
         /\ g.Received = f.Received + 1
         /\ g.Transmitted = f.Transmitted + One(HasBuffered(f)) + 1
         /\ g.Discarded = f.Discarded
         /\ g.BufferedMessage = NoMessage
         /\ g.CurrentTimeStamp = m.ts
         /\ g.Unordered = f.Unordered + One(IsUnordered(f, m))
         /\ g.Stop = f.Stop
<1> DEFINE r == f.Received + 1
           t == f.Transmitted + One(HasBuffered(f)) + 1
           u == f.Unordered + One(IsUnordered(f, m))
           p == f.Repeated + One(IsRepeated(f, m))
           b == f.IsDone \/ MsgTime(m) > f.Stop
<1>1. /\ One(HasBuffered(f)) \in Nat
      /\ One(IsUnordered(f, m)) \in Nat
      /\ One(IsRepeated(f, m)) \in Nat
  BY OneIsNat
<1>2. r \in Nat /\ t \in Nat /\ u \in Nat /\ p \in Nat
  BY <1>1 DEF FilterType
<1>3. b \in BOOLEAN
  OBVIOUS
<1>5. g = [f EXCEPT !.Received = r, !.Repeated = p, !.Unordered = u,
                    !.CurrentTimeStamp = m.ts, !.IsDone = b,
                    !.Transmitted = t, !.BufferedMessage = NoMessage]
  BY DEF AfterSending
<1> HIDE DEF r, t, u, p, b
<1>6. g \in FilterType(M, T)
  BY <1>2, <1>3, <1>5 DEF FilterType
<1>7. /\ g.Received = r
      /\ g.Transmitted = t
      /\ g.Discarded = f.Discarded
      /\ g.BufferedMessage = NoMessage
      /\ g.CurrentTimeStamp = m.ts
      /\ g.Unordered = u
      /\ g.Stop = f.Stop
  BY <1>2, <1>3, <1>5 DEF FilterType
<1> QED BY <1>6, <1>7 DEF r, t, u

\* The flush of the destructor.
LEMMA AfterFlushFacts ==
  ASSUME NEW M, NEW T, NEW f \in FilterType(M, T), NEW g, g = AfterFlush(f)
  PROVE  /\ g \in FilterType(M, T)
         /\ g.Received = f.Received
         /\ g.Transmitted = f.Transmitted + One(HasBuffered(f))
         /\ g.Discarded = f.Discarded
         /\ g.BufferedMessage = NoMessage
         /\ g.CurrentTimeStamp = f.CurrentTimeStamp
         /\ g.Unordered = f.Unordered
         /\ g.Stop = f.Stop
<1> DEFINE t == f.Transmitted + One(HasBuffered(f))
<1>1. One(HasBuffered(f)) \in Nat
  BY OneIsNat
<1>2. t \in Nat
  BY <1>1 DEF FilterType
<1>3. g = [f EXCEPT !.Transmitted = t, !.BufferedMessage = NoMessage]
  BY DEF AfterFlush
<1> HIDE DEF t
<1>4. g \in FilterType(M, T)
  BY <1>2, <1>3 DEF FilterType
<1>5. /\ g.Received = f.Received
      /\ g.Transmitted = t
      /\ g.Discarded = f.Discarded
      /\ g.BufferedMessage = NoMessage
      /\ g.CurrentTimeStamp = f.CurrentTimeStamp
      /\ g.Unordered = f.Unordered
      /\ g.Stop = f.Stop
  BY <1>2, <1>3 DEF FilterType
<1> QED BY <1>4, <1>5 DEF t

\* A new stop time changes nothing the properties look at.
LEMMA FilterWithStopTimeFacts ==
  ASSUME NEW M, NEW T, NEW f \in FilterType(M, T), NEW stop \in T,
         NEW g, g = FilterWithStopTime(f, stop)
  PROVE  /\ g \in FilterType(M, T)
         /\ g.Received = f.Received
         /\ g.Transmitted = f.Transmitted
         /\ g.Discarded = f.Discarded
         /\ g.BufferedMessage = f.BufferedMessage
         /\ g.CurrentTimeStamp = f.CurrentTimeStamp
         /\ g.Unordered = f.Unordered
         /\ g.Stop = stop /\ g.IsDone = f.IsDone
BY DEF FilterWithStopTime, FilterType

\* What a filter buffers is a message, or nothing.
LEMMA BufferedFacts ==
  ASSUME NEW M, NEW T, NEW f \in FilterType(M, T)
  PROVE  /\ HasBuffered(f) => f.BufferedMessage \in M
         /\ BufferedSeq(f) \in Seq(M)
<1>1. HasBuffered(f) => f.BufferedMessage \in M
  BY DEF HasBuffered, FilterType, NoMessage
<1>2. BufferedSeq(f) \in Seq(M)
  BY <1>1 DEF BufferedSeq
<1> QED BY <1>1, <1>2

-----------------------------------------------------------------------------
\* Every message a filter was given is sent, discarded or the one it buffers.
Balanced(f) ==
  f.Received = f.Transmitted + f.Discarded + One(HasBuffered(f))

\* filterMessage counts what it passes on, and keeps the balance.
LEMMA AfterMessageFacts ==
  ASSUME NEW M, NEW T, NEW f \in FilterType(M, T), NEW m \in M, m.ts \in Int
  PROVE  /\ AfterMessage(f, m) \in FilterType(M, T)
         /\ AfterMessage(f, m).Received = f.Received + 1
         /\ AfterMessage(f, m).Stop = f.Stop
         /\ Forwarded(f, m) \in Seq(M)
         /\ AfterMessage(f, m).Transmitted = f.Transmitted + Len(Forwarded(f, m))
         /\ Balanced(f) => Balanced(AfterMessage(f, m))
<1> DEFINE g == AfterMessage(f, m)
           w == Forwarded(f, m)
<1>n. /\ f.Received \in Nat /\ f.Transmitted \in Nat /\ f.Discarded \in Nat
      /\ One(HasBuffered(f)) \in Nat
  BY OneIsNat DEF FilterType
<1>b. /\ BufferedSeq(f) \in Seq(M) /\ Len(BufferedSeq(f)) = One(HasBuffered(f))
  <2>1. CASE HasBuffered(f)
    <3>1. f.BufferedMessage \in M
      BY <2>1, BufferedFacts
    <3> QED BY <2>1, <3>1 DEF BufferedSeq, One
  <2>2. CASE ~HasBuffered(f)
    BY <2>2, EmptySeq DEF BufferedSeq, One
  <2> QED BY <2>1, <2>2
<1>1. CASE IsDropped(f, m)
  <2>1. g = AfterDrop(f, m) /\ w = << >>
    BY <1>1 DEF AfterMessage, Forwarded
  <2> HIDE DEF g, w
  <2>2. /\ g \in FilterType(M, T) /\ g.Received = f.Received + 1
        /\ g.Stop = f.Stop /\ g.Transmitted = f.Transmitted
        /\ g.Discarded = f.Discarded + 1 /\ g.BufferedMessage = f.BufferedMessage
    BY <2>1, AfterDropFacts
  <2>3. One(HasBuffered(g)) = One(HasBuffered(f))
    BY <2>2 DEF HasBuffered, One
  <2>4. w \in Seq(M) /\ Len(w) = 0
    BY <2>1, EmptySeq
  <2>5. Balanced(f) => Balanced(g)
    BY <1>n, <2>2, <2>3 DEF Balanced
  <2>6. g.Transmitted = f.Transmitted + Len(w)
    BY <1>n, <2>2, <2>4
  <2> QED BY <2>2, <2>4, <2>5, <2>6 DEF g, w
<1>2. CASE ~IsDropped(f, m) /\ IsBeforeStart(f, m)
  <2>1. g = AfterBuffering(f, m) /\ w = << >> /\ m.valid
    BY <1>2 DEF AfterMessage, Forwarded, IsDropped
  <2> HIDE DEF g, w
  <2>2. /\ g \in FilterType(M, T) /\ g.Received = f.Received + 1
        /\ g.Stop = f.Stop /\ g.Transmitted = f.Transmitted
        /\ g.Discarded = f.Discarded + One(HasBuffered(f))
        /\ g.BufferedMessage = m
    BY <2>1, AfterBufferingFacts
  <2>3. One(HasBuffered(g)) = 1
    BY <2>1, <2>2 DEF HasBuffered, One
  <2>4. w \in Seq(M) /\ Len(w) = 0
    BY <2>1, EmptySeq
  <2>5. Balanced(f) => Balanced(g)
    BY <1>n, <2>2, <2>3 DEF Balanced
  <2>6. g.Transmitted = f.Transmitted + Len(w)
    BY <1>n, <2>2, <2>4
  <2> QED BY <2>2, <2>4, <2>5, <2>6 DEF g, w
<1>3. CASE ~IsDropped(f, m) /\ ~IsBeforeStart(f, m)
  <2>1. g = AfterSending(f, m) /\ w = Append(BufferedSeq(f), m)
    BY <1>3 DEF AfterMessage, Forwarded
  <2> HIDE DEF g, w
  <2>2. /\ g \in FilterType(M, T) /\ g.Received = f.Received + 1
        /\ g.Stop = f.Stop
        /\ g.Transmitted = f.Transmitted + One(HasBuffered(f)) + 1
        /\ g.Discarded = f.Discarded /\ g.BufferedMessage = NoMessage
    BY <2>1, AfterSendingFacts
  <2>3. One(HasBuffered(g)) = 0
    BY <2>2 DEF HasBuffered, NoMessage, One
  <2>4. w \in Seq(M) /\ Len(w) = One(HasBuffered(f)) + 1
    BY <1>b, <2>1, AppendProperties
  <2>5. Balanced(f) => Balanced(g)
    BY <1>n, <2>2, <2>3 DEF Balanced
  <2>6. g.Transmitted = f.Transmitted + Len(w)
    BY <1>n, <2>2, <2>4
  <2> QED BY <2>2, <2>4, <2>5, <2>6 DEF g, w
<1> QED BY <1>1, <1>2, <1>3

\* The destructor passes on what is buffered, and then nothing is left.
LEMMA FilterFlushFacts ==
  ASSUME NEW M, NEW T, NEW f \in FilterType(M, T)
  PROVE  /\ AfterFlush(f) \in FilterType(M, T)
         /\ AfterFlush(f).Stop = f.Stop
         /\ BufferedSeq(f) \in Seq(M)
         /\ AfterFlush(f).Transmitted = f.Transmitted + Len(BufferedSeq(f))
         /\ Balanced(f) =>
              /\ Balanced(AfterFlush(f))
              /\ AfterFlush(f).Received
                   = AfterFlush(f).Transmitted + AfterFlush(f).Discarded
<1> DEFINE g == AfterFlush(f)
<1>1. /\ g \in FilterType(M, T) /\ g.Received = f.Received /\ g.Stop = f.Stop
      /\ g.Transmitted = f.Transmitted + One(HasBuffered(f))
      /\ g.Discarded = f.Discarded /\ g.BufferedMessage = NoMessage
  BY AfterFlushFacts
<1>2. /\ f.Received \in Nat /\ f.Transmitted \in Nat /\ f.Discarded \in Nat
      /\ One(HasBuffered(f)) \in Nat
  BY OneIsNat DEF FilterType
<1> HIDE DEF g
<1>3. One(HasBuffered(g)) = 0
  BY <1>1 DEF HasBuffered, NoMessage, One
<1>4. BufferedSeq(f) \in Seq(M) /\ Len(BufferedSeq(f)) = One(HasBuffered(f))
  <2>1. CASE HasBuffered(f)
    <3>1. f.BufferedMessage \in M
      BY <2>1, BufferedFacts
    <3> QED BY <2>1, <3>1 DEF BufferedSeq, One
  <2>2. CASE ~HasBuffered(f)
    BY <2>2, EmptySeq DEF BufferedSeq, One
  <2> QED BY <2>1, <2>2
<1>5. Balanced(f) => Balanced(g) /\ g.Received = g.Transmitted + g.Discarded
  BY <1>1, <1>2, <1>3 DEF Balanced
<1> QED BY <1>1, <1>4, <1>5 DEF g
=============================================================================
