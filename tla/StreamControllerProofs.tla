------------------------ MODULE StreamControllerProofs ------------------------
(***************************************************************************)
(* StreamController for any topics, stop times, queue limit, faults and    *)
(* commands, and any interleaving of its threads: types, how the streams   *)
(* are treated (the refinement of StreamContract), that a new stop time    *)
(* reaches all of them, and that a success is complete.                    *)
(***************************************************************************)
EXTENDS StreamController, CommonLemmas

Stamps == InitialStops \union StopTimes \union 0..MaxTime
NewStops == StopTimes \union 0..MaxTime

Controllers ==
  [HasError : BOOLEAN, StopNow : BOOLEAN, StreamersRemaining : BOOLEAN,
   StreamersPaused : BOOLEAN, StopTimestamp : Stamps]

Pointers == Streams \union {Null}
Owners == {"main", "self"}
Tasks == {GetTopicNames, InitStreams, Checks, Exit} \union {NewStop(t) : t \in NewStops}
Places == {Free, Failing} \union {Creating(i) : i \in 1..(Len(Topics) + 1)}
            \union {Erasing(n) : n \in Nat}
States == {"none", "reading", "done", "failed", "gone"}

\* TypeOK part by part, with the members it leaves out.
ControlOK ==
  /\ controller \in Controllers /\ Streamers \in Seq(Pointers)
  /\ executor \in Executors(Owners, Tasks) /\ busy \in Places

MainOK ==
  /\ phase \in {"running", "stopping", "done", "leaving", "metadata", "joining",
                "draining", "unwinding", "destroyed", "crashed"}
  /\ outcome \in {"none", "Success", "Failure"} /\ now \in 0..MaxTime
  /\ commanded \in {"nothing", "setStopTime", "stopNow"} /\ raced \in BOOLEAN

WriterOK ==
  /\ writer \in [RunThread : BOOLEAN,
                 at : {"loop", "write", "final", "ended"}]
  /\ written \in [Streams -> Nat] /\ queued \in [Streams -> Nat]

StreamsOK ==
  /\ stream \in [Streams -> States] /\ stop \in [Streams -> Nat]
  /\ sent \in [Streams -> Nat] /\ late \in [Streams -> Nat]
  /\ held \in [Streams -> BOOLEAN]

Types == ControlOK /\ MainOK /\ WriterOK /\ StreamsOK

\* While the executor erases, what it will drop is done, or was moved away.
TailDone ==
  busy.do = "erasing" =>
    /\ busy.keep \in 0..Len(Streamers)
    /\ \A i \in 1..Len(Streamers) : i > busy.keep =>
         Streamers[i] = Null \/ stream[Streamers[i]] \in {"done", "gone"}

TypeInv == Types /\ TailDone

\* The parts imply TypeOK.
LEMMA TypeParts == TypeInv => TypeOK
BY DEF TypeInv, Types, TypeOK, ControlOK, MainOK, WriterOK, StreamsOK, Controllers, Stamps,
       Pointers, States

-----------------------------------------------------------------------------
(* The constants, the tasks and the vector of streams. *)

\* Every stream is created in its turn, and in no other.
LEMMA TopicFacts ==
  /\ Topics \in Seq(Streams) /\ Len(Topics) \in Nat
  /\ \A s \in Streams : \E i \in 1..Len(Topics) : Topics[i] = s
  /\ \A i \in 1..Len(Topics) : Topics[i] \in Streams
  /\ \A i, j \in 1..Len(Topics) : Topics[i] = Topics[j] => i = j
  /\ Null \notin Streams
<1>1. Topics \in Seq(Streams) /\ Null \notin Streams
  BY StreamControllerAssumption
<1>2. DOMAIN Topics = 1..Len(Topics) /\ Len(Topics) \in Nat
  BY <1>1
<1>3. \A s \in Streams : \E i \in 1..Len(Topics) : Topics[i] = s
  BY <1>2 DEF Streams, Range
<1>4. \A i \in 1..Len(Topics) : Topics[i] \in Streams
  BY <1>2 DEF Streams, Range
<1>5. \A i, j \in 1..Len(Topics) : Topics[i] = Topics[j] => i = j
  BY <1>2, StreamControllerAssumption DEF IsInjective
<1> QED BY <1>1, <1>2, <1>3, <1>4, <1>5

\* The tasks can be told apart.
LEMMA TaskFacts ==
  /\ GetTopicNames \in Tasks /\ InitStreams \in Tasks /\ Checks \in Tasks /\ Exit \in Tasks
  /\ \A t \in NewStops : NewStop(t) \in Tasks /\ NewStop(t).do = "setStopTime"
                         /\ NewStop(t).stop = t
  /\ GetTopicNames.do = "getTopicNames" /\ InitStreams.do = "initStreams"
  /\ Checks.do = "performPeriodicChecks" /\ Exit.do = "exit"
  /\ \A task \in Tasks : task.do = "setStopTime" =>
       task.stop \in NewStops /\ task = NewStop(task.stop)
<1>1. \A task \in Tasks : task.do = "setStopTime" =>
        task.stop \in NewStops /\ task = NewStop(task.stop)
  BY DEF Tasks, GetTopicNames, InitStreams, Checks, Exit, NewStop
<1>2. \A t \in NewStops : NewStop(t) \in Tasks /\ NewStop(t).do = "setStopTime"
                          /\ NewStop(t).stop = t
  BY DEF Tasks, NewStop
<1> QED BY <1>1, <1>2 DEF Tasks, GetTopicNames, InitStreams, Checks, Exit

\* Where the executor may be.
LEMMA PlaceFacts ==
  /\ Free \in Places /\ Failing \in Places /\ Free.do = "nothing" /\ Failing.do = "failing"
  /\ \A i \in 1..(Len(Topics) + 1) :
       Creating(i) \in Places /\ Creating(i).do = "creating" /\ Creating(i).next = i
  /\ \A b \in Places : b.do = "creating" =>
       b.next \in 1..(Len(Topics) + 1) /\ b = Creating(b.next)
  /\ \A n \in Nat :
       Erasing(n) \in Places /\ Erasing(n).do = "erasing" /\ Erasing(n).keep = n
<1>1. \A b \in Places : b.do = "creating" =>
        b.next \in 1..(Len(Topics) + 1) /\ b = Creating(b.next)
  BY DEF Places, Free, Failing, Creating, Erasing
<1>2. \A i \in 1..(Len(Topics) + 1) :
        Creating(i) \in Places /\ Creating(i).do = "creating" /\ Creating(i).next = i
  BY DEF Places, Creating
<1>3. \A n \in Nat :
        Erasing(n) \in Places /\ Erasing(n).do = "erasing" /\ Erasing(n).keep = n
  BY DEF Places, Erasing
<1> QED BY <1>1, <1>2, <1>3 DEF Places, Free, Failing

\* The place of the first stream with an error.
LEMMA ThrowerFacts ==
  ASSUME TypeInv, Thrower # 0
  PROVE  Thrower \in 1..Len(Streamers)
<1> DEFINE I == {i \in 1..Len(Streamers) : Streamers[i] # Null /\ stream[Streamers[i]] = "failed"}
<1>0. Streamers \in Seq(Pointers) /\ Len(Streamers) \in Nat
  BY DEF TypeInv, Types, ControlOK
<1>1. Thrower = IF I # {} THEN Min(I) ELSE 0
  BY DEF Thrower, SelectInSeq
<1>2. I # {} /\ I \subseteq Nat
  BY <1>0, <1>1
<1>3. \E x \in I : \A y \in I : x <= y
  BY <1>2, LeastNat
<1> HIDE DEF I
<1>4. Min(I) \in I
  BY <1>3 DEF Min
<1> QED BY <1>1, <1>2, <1>4 DEF I

(* And what remove_if leaves of it after n streams: every stream that is not done,
   those first, and of the n places after them none that a running stream holds. *)
LEMMA MovedFacts ==
  ASSUME TypeInv, NEW n \in 0..Len(Streamers)
  PROVE  /\ Moved(n) \in Seq(Pointers) /\ Len(Moved(n)) = Len(Streamers)
         /\ Len(KeptOf(n)) \in 0..n
         /\ \A x : Contains(Moved(n), x) => x = Null \/ Contains(Streamers, x)
         /\ \A x \in NotDone : Contains(Streamers, x) => Contains(Moved(n), x)
         /\ \A i \in 1..n : i > Len(KeptOf(n)) =>
              Moved(n)[i] = Null \/ (Moved(n)[i] = Streamers[i] /\ IsDone(Streamers[i]))
<1> DEFINE before == SubSeq(Streamers, 1, n)
           kept == KeptOf(n)
           moved == Moved(n)
           L == Len(Streamers)
<1>0. /\ Streamers \in Seq(Pointers) /\ L \in Nat /\ n \in Nat /\ n <= L
      /\ Null \in Pointers /\ \A i \in 1..L : Streamers[i] \in Pointers
      /\ DOMAIN Streamers = 1..L
  BY DEF TypeInv, Types, ControlOK, Pointers
<1>1. /\ before \in Seq(Pointers) /\ Len(before) = n
      /\ \A i \in 1..n : before[i] = Streamers[i]
  BY <1>0
<1>2. /\ kept \in Seq(Pointers) /\ Len(kept) <= n /\ Len(kept) \in Nat
      /\ \A i \in 1..Len(kept) : kept[i] \in Pointers
      /\ \A x : (\E i \in 1..Len(kept) : kept[i] = x)
              <=> x \in NotDone /\ \E i \in 1..n : Streamers[i] = x
  <2> HIDE DEF before, L
  <2>0. before \in Seq(Pointers) /\ kept = Kept(before, NotDone)
    BY <1>1 DEF KeptOf, before
  <2>l. Len(kept) \in 0..Len(before)
    BY <2>0, KeptRange
  <2>1. kept \in Seq(Pointers) /\ HasThose(kept, Len(before), before, NotDone)
    BY <2>0, KeptRange
  <2> HIDE DEF kept
  <2>2. Len(kept) <= n /\ Len(kept) \in Nat
    BY <1>0, <1>1, <2>l
  <2>3. \A i \in 1..Len(kept) : kept[i] \in Pointers
    BY <2>1
  <2>4. HasThose(kept, n, before, NotDone)
    BY <1>1, <2>1
  <2>5. \A x : (\E i \in 1..n : before[i] = x) <=> \E i \in 1..n : Streamers[i] = x
    BY <1>1
  <2> QED BY <2>1, <2>2, <2>3, <2>4, <2>5 DEF HasThose
<1>3. moved = [i \in 1..L |-> IF i <= Len(kept) THEN kept[i]
                              ELSE IF i <= n /\ ~IsDone(Streamers[i]) THEN Null
                              ELSE Streamers[i]]
  BY <1>0 DEF Moved
<1> HIDE DEF kept, before, L, moved
<1>4. \A i \in 1..L : moved[i] = IF i <= Len(kept) THEN kept[i]
                              ELSE IF i <= n /\ ~IsDone(Streamers[i]) THEN Null
                              ELSE Streamers[i]
  BY <1>3
<1>5. \A i \in 1..L : moved[i] \in Pointers
  <2> SUFFICES ASSUME NEW i \in 1..L PROVE moved[i] \in Pointers
    OBVIOUS
  <2>1. i <= Len(kept) => i \in 1..Len(kept)
    BY <1>0, <1>2
  <2> QED BY <1>0, <1>2, <1>4, <2>1
<1>6. moved \in Seq(Pointers) /\ Len(moved) = L
  <2>1. moved \in [1..L -> Pointers]
    BY <1>3, <1>5
  <2> QED BY <1>0, <2>1
<1>7. ASSUME NEW i \in 1..L PROVE moved[i] = Null \/ Contains(Streamers, moved[i])
  <2>1. CASE i <= Len(kept)
    <3>1. i \in 1..Len(kept) /\ moved[i] = kept[i]
      BY <1>0, <1>2, <1>4, <2>1
    <3>2. PICK k \in 1..n : Streamers[k] = moved[i]
      BY <1>2, <3>1
    <3>3. k \in 1..Len(Streamers)
      BY <1>0, <3>2 DEF L
    <3> QED BY <3>2, <3>3 DEF Contains
  <2>2. CASE ~(i <= Len(kept))
    <3>1. i \in 1..Len(Streamers)
      BY DEF L
    <3> QED BY <1>4, <2>2, <3>1 DEF Contains
  <2> QED BY <2>1, <2>2
<1>8. ASSUME NEW x \in NotDone, Contains(Streamers, x) PROVE Contains(moved, x)
  <2>1. PICK i \in 1..L : Streamers[i] = x
    BY <1>8 DEF Contains, L
  <2>2. CASE i <= n
    <3>1. i \in 1..n
      BY <1>0, <2>2
    <3>2. PICK k \in 1..Len(kept) : kept[k] = x
      BY <1>2, <2>1, <3>1
    <3>3. k \in 1..L /\ k <= Len(kept)
      BY <1>0, <1>2
    <3>4. moved[k] = x
      BY <1>4, <3>2, <3>3
    <3> QED BY <1>6, <3>3, <3>4 DEF Contains
  <2>3. CASE ~(i <= n)
    <3>1. ~(i <= Len(kept))
      BY <1>0, <1>2, <2>3
    <3>2. moved[i] = x
      BY <1>4, <2>1, <2>3, <3>1
    <3> QED BY <1>6, <3>2 DEF Contains
  <2> QED BY <2>2, <2>3
<1>9. ASSUME NEW i \in 1..n, i > Len(kept)
      PROVE  moved[i] = Null \/ (moved[i] = Streamers[i] /\ IsDone(Streamers[i]))
  <2>1. i \in 1..L /\ ~(i <= Len(kept)) /\ i <= n
    BY <1>0, <1>2, <1>9
  <2> QED BY <1>4, <2>1
<1>10. \A x : Contains(moved, x) => x = Null \/ Contains(Streamers, x)
  BY <1>6, <1>7 DEF Contains
<1>11. Len(kept) \in 0..n
  BY <1>0, <1>2
<1> QED BY <1>6, <1>8, <1>9, <1>10, <1>11 DEF moved, kept, L

(* performPeriodicChecks, seen from the streams: those that go were done, and
   the vector holds all the others it held. *)
Erases ==
  /\ Streamers' \in Seq(Pointers) /\ stream' \in [Streams -> States]
  /\ \A s \in Streams :
       /\ stream'[s] = stream[s] \/ (stream[s] = "done" /\ stream'[s] = "gone")
       /\ Contains(Streamers', s) => Contains(Streamers, s)
       /\ Contains(Streamers, s) => Contains(Streamers', s) \/ stream'[s] = "gone"

\* The parts of the checks.
ChecksStep(ex) == checksFindNone(ex) \/ checksFindDone(ex) \/ checksThrow(ex) \/ erase

\* All of them erase streams that are done, or none.
LEMMA ChecksErase ==
  ASSUME TypeInv, NEW ex, ChecksStep(ex)
  PROVE  Erases
<1>0. /\ stream \in [Streams -> States] /\ Null \notin Streams /\ "gone" \in States
      /\ Streamers \in Seq(Pointers) /\ Len(Streamers) \in Nat
  BY TopicFacts DEF TypeInv, Types, StreamsOK, ControlOK, States
<1>1. PICK left : /\ Streamers' = left /\ stream' = ErasedFrom(left)
                  /\ left \in Seq(Pointers)
                  /\ \A x : Contains(left, x) => x = Null \/ Contains(Streamers, x)
                  /\ \A x \in Streams : Contains(Streamers, x) =>
                       Contains(left, x) \/ stream[x] \in {"done", "gone"}
  <2>n. \A x \in Streams : x \notin NotDone => stream[x] = "done"
    BY <1>0 DEF NotDone, IsDone
  <2>1. CASE checksFindNone(ex)
    <3>1. Streamers' = Streamers /\ stream' = ErasedFrom(Streamers)
      BY <2>1 DEF checksFindNone, endChecks
    <3> QED BY <1>0, <3>1
  <2>2. CASE checksFindDone(ex)
    <3>1. Len(Streamers) \in 0..Len(Streamers)
      BY <1>0
    <3> QED BY <2>2, <2>n, <3>1, MovedFacts DEF checksFindDone
  <2>3. CASE checksThrow(ex)
    <3>1. Thrower - 1 \in 0..Len(Streamers)
      BY <1>0, <2>3, ThrowerFacts DEF checksThrow
    <3> QED BY <2>3, <2>n, <3>1, MovedFacts DEF checksThrow
  <2>4. CASE erase
    <3> DEFINE k == busy.keep
    <3>1. /\ k \in 0..Len(Streamers)
          /\ \A i \in 1..Len(Streamers) : i > k =>
               Streamers[i] = Null \/ stream[Streamers[i]] \in {"done", "gone"}
      BY <2>4 DEF erase, TypeInv, TailDone
    <3>2. Streamers' = SubSeq(Streamers, 1, k) /\ stream' = ErasedFrom(SubSeq(Streamers, 1, k))
      BY <2>4 DEF erase, endChecks, erasedVector
    <3> HIDE DEF k
    <3>3. /\ SubSeq(Streamers, 1, k) \in Seq(Pointers) /\ Len(SubSeq(Streamers, 1, k)) = k
          /\ \A i \in 1..k : SubSeq(Streamers, 1, k)[i] = Streamers[i]
      BY <1>0, <3>1
    <3>4. \A i \in 1..Len(Streamers) : i > k \/ i \in 1..k
      BY <1>0, <3>1
    <3>5. \A i \in 1..k : i \in 1..Len(Streamers)
      BY <1>0, <3>1
    <3>6. \A x : Contains(SubSeq(Streamers, 1, k), x) => Contains(Streamers, x)
      BY <3>3, <3>5 DEF Contains
    <3>7. ASSUME NEW x \in Streams, Contains(Streamers, x)
          PROVE  Contains(SubSeq(Streamers, 1, k), x) \/ stream[x] \in {"done", "gone"}
      <4>1. PICK i \in 1..Len(Streamers) : Streamers[i] = x
        BY <3>7 DEF Contains
      <4> QED BY <1>0, <3>1, <3>3, <3>4, <4>1 DEF Contains
    <3> QED BY <3>2, <3>3, <3>6, <3>7
  <2> QED BY <2>1, <2>2, <2>3, <2>4 DEF ChecksStep
<1>2. stream' \in [Streams -> States]
  BY <1>0, <1>1 DEF ErasedFrom
<1>3. ASSUME NEW s \in Streams
      PROVE  /\ stream'[s] = stream[s] \/ (stream[s] = "done" /\ stream'[s] = "gone")
             /\ Contains(Streamers', s) => Contains(Streamers, s)
             /\ Contains(Streamers, s) => Contains(Streamers', s) \/ stream'[s] = "gone"
  <2>1. stream'[s] = IF Contains(Streamers, s) /\ ~Contains(left, s) THEN "gone" ELSE stream[s]
    BY <1>1 DEF ErasedFrom
  <2> QED BY <1>0, <1>1, <2>1
<1> QED BY <1>1, <1>2, <1>3 DEF Erases
-----------------------------------------------------------------------------
(* Types. *)

\* A stop time is a natural number.
LEMMA StampFacts ==
  /\ \A t \in NewStops : t \in Nat /\ t \in Stamps
  /\ \A t \in Stamps : t \in Nat
  /\ 0..MaxTime \subseteq NewStops /\ StopTimes \subseteq NewStops
BY StreamControllerAssumption DEF NewStops, Stamps

\* The members of the controller that the actions assign.
LEMMA ControllerFacts ==
  ASSUME NEW c \in Controllers, NEW b \in BOOLEAN, NEW t \in Stamps
  PROVE  /\ [c EXCEPT !.HasError = TRUE] \in Controllers
         /\ [c EXCEPT !.StopNow = TRUE] \in Controllers
         /\ [c EXCEPT !.StreamersRemaining = @ /\ b,
                      !.StreamersPaused = throttleIfWriteQueueIsFull(@)] \in Controllers
         /\ [c EXCEPT !.StreamersRemaining = FALSE,
                      !.StreamersPaused = throttleIfWriteQueueIsFull(@)] \in Controllers
         /\ setStopTimestamp(c, t) \in Controllers
<1>1. c.StreamersPaused \in BOOLEAN /\ c.StreamersRemaining \in BOOLEAN
  BY DEF Controllers
<1> DEFINE p == throttleIfWriteQueueIsFull(c.StreamersPaused)
           r == c.StreamersRemaining /\ b
<1>2. p \in BOOLEAN
  BY <1>1 DEF throttleIfWriteQueueIsFull
<1>3. r \in BOOLEAN
  BY <1>1
<1> HIDE DEF p, r
<1>4. [c EXCEPT !.StreamersRemaining = r, !.StreamersPaused = p] \in Controllers
  BY <1>2, <1>3 DEF Controllers
<1>5. [c EXCEPT !.StreamersRemaining = FALSE, !.StreamersPaused = p] \in Controllers
  BY <1>2 DEF Controllers
<1>6. [c EXCEPT !.HasError = TRUE] \in Controllers /\ [c EXCEPT !.StopNow = TRUE] \in Controllers
  BY DEF Controllers
<1>7. setStopTimestamp(c, t) \in Controllers
  BY DEF Controllers, setStopTimestamp
<1> QED BY <1>4, <1>5, <1>6, <1>7 DEF p, r

\* stop() in any of its callers.
LEMMA StopStreamsFacts ==
  ASSUME TypeInv, NEW ctl \in Controllers, NEW next, stopStreams(ctl, next)
  PROVE  \/ phase' = "crashed" /\ UNCHANGED <<controller, writer>>
         \/ /\ phase' = next /\ controller' = [ctl EXCEPT !.StopNow = TRUE]
            /\ controller' \in Controllers
            /\ writer' = [writer EXCEPT !.RunThread = FALSE]
<1>1. [ctl EXCEPT !.StopNow = TRUE] \in Controllers
  BY DEF Controllers
<1> QED BY <1>1 DEF stopStreams, stopWriter

\* Messages that a stream hands over are counted once, as queued or as late.
LEMMA AddFacts ==
  ASSUME TypeInv, NEW s \in Streams, NEW n \in Nat, addMessages(s, n)
  PROVE  /\ sent' \in [Streams -> Nat] /\ late' \in [Streams -> Nat]
         /\ queued' \in [Streams -> Nat]
         /\ sent'[s] = sent[s] + n
         /\ \A r \in Streams : r # s =>
              sent'[r] = sent[r] /\ late'[r] = late[r] /\ queued'[r] = queued[r]
         /\ writer.at = "ended" => late'[s] = late[s] + n /\ queued' = queued
         /\ writer.at # "ended" => late' = late /\ queued'[s] = queued[s] + n
<1>1. sent \in [Streams -> Nat] /\ late \in [Streams -> Nat] /\ queued \in [Streams -> Nat]
  BY DEF TypeInv, Types, StreamsOK, WriterOK
<1>2. sent[s] + n \in Nat /\ late[s] + n \in Nat /\ queued[s] + n \in Nat
  BY <1>1
<1>3. CASE writer.at = "ended"
  BY <1>1, <1>2, <1>3 DEF addMessages
<1>4. CASE writer.at # "ended"
  BY <1>1, <1>2, <1>4 DEF addMessages
<1> QED BY <1>3, <1>4

\* What the executor's next task may be.
LEMMA TakenTask ==
  ASSUME TypeInv, NEW slot \in Runnable(executor)
  PROVE  /\ Dequeue(executor, slot) \in Executors(Owners, Tasks)
         /\ Task(executor, slot) \in Tasks
<1>1. executor \in Executors(Owners, Tasks)
  BY DEF TypeInv, Types, ControlOK
<1> QED BY <1>1, RunnableFacts

\* Tasks the threads send.
LEMMA SentTask ==
  ASSUME NEW ex \in Executors(Owners, Tasks), NEW t \in Owners, NEW task \in Tasks
  PROVE  /\ sendWork(ex, t, task) \in Executors(Owners, Tasks)
         /\ sendLowPriorityWork(ex, t, task) \in Executors(Owners, Tasks)
BY SendFacts

\* Every member has its type to begin with.
LEMMA TypeInit == Init => TypeInv
<1> SUFFICES ASSUME Init PROVE TypeInv
  OBVIOUS
<1>1. controller \in Controllers
  BY DEF Init, Controllers, Stamps
<1>2. Streamers \in Seq(Pointers) /\ busy \in Places
  BY EmptySeq, PlaceFacts DEF Init
<1>3. executor \in Executors(Owners, Tasks)
  BY NewExecutorFacts, SentTask, TaskFacts DEF Init, Owners
<1>4. MainOK
  <2>1. now \in 0..MaxTime
    BY StreamControllerAssumption DEF Init
  <2>2. raced \in BOOLEAN
    BY DEF Init
  <2> QED BY <2>1, <2>2 DEF Init, MainOK
<1>5. WriterOK /\ StreamsOK
  BY DEF Init, WriterOK, StreamsOK, States
<1>6. TailDone
  BY PlaceFacts DEF Init, TailDone
<1> QED BY <1>1, <1>2, <1>3, <1>4, <1>5, <1>6 DEF TypeInv, Types, ControlOK

\* The steps of the executor keep the types.
LEMMA TypeExecutor == TypeInv /\ Executor => Types'
<1> SUFFICES ASSUME TypeInv, Executor PROVE Types'
  OBVIOUS
<1>0. /\ controller \in Controllers /\ Streamers \in Seq(Pointers)
      /\ executor \in Executors(Owners, Tasks) /\ busy \in Places
      /\ MainOK /\ WriterOK /\ StreamsOK /\ "self" \in Owners
  BY DEF TypeInv, Types, ControlOK, Owners
<1>s. 0 \in Stamps
  BY StreamControllerAssumption DEF Stamps
<1>u. UNCHANGED <<outcome, now, commanded>> /\ raced' \in BOOLEAN
  BY DEF Executor
<1>e. ASSUME NEW ex \in Executors(Owners, Tasks), NEW left, endChecks(ex, left)
      PROVE  /\ controller' \in Controllers /\ executor' \in Executors(Owners, Tasks)
             /\ busy' \in Places
             /\ UNCHANGED <<phase, writing, stop, sent, held, late, queued>>
  <2>1. (left # << >>) \in BOOLEAN
    OBVIOUS
  <2> QED BY <1>0, <1>s, <1>e, <2>1, ControllerFacts, SentTask, TaskFacts, PlaceFacts
          DEF endChecks, nextChecks
<1>c. ASSUME NEW ex \in Executors(Owners, Tasks), ChecksStep(ex) PROVE Types'
  <2>1. Streamers' \in Seq(Pointers) /\ stream' \in [Streams -> States]
    BY <1>c, ChecksErase DEF Erases
  <2>2. /\ controller' \in Controllers /\ executor' \in Executors(Owners, Tasks)
        /\ busy' \in Places
        /\ UNCHANGED <<phase, writing, stop, sent, held, late, queued>>
    <3>1. CASE checksFindNone(ex) \/ erase
      BY <1>0, <1>e, <3>1 DEF checksFindNone, erase
    <3>2. CASE checksFindDone(ex)
      <4>1. Len(Streamers) \in 0..Len(Streamers)
        BY <1>0
      <4>2. Len(KeptOf(Len(Streamers))) \in Nat
        BY <1>0, <4>1, MovedFacts
      <4> QED BY <1>0, <3>2, <4>2, PlaceFacts DEF checksFindDone
    <3>3. CASE checksThrow(ex)
      BY <1>0, <1>s, <3>3, ControllerFacts, PlaceFacts DEF checksThrow, HasErrorFirst
    <3> QED BY <1>c, <3>1, <3>2, <3>3 DEF ChecksStep
  <2> QED BY <1>0, <1>u, <2>1, <2>2
          DEF Types, ControlOK, MainOK, WriterOK, StreamsOK, writing
<1>1. CASE ExecutorTask
  <2>1. PICK slot \in Runnable(executor) :
          LET task == Task(executor, slot)
              ex   == Dequeue(executor, slot)
          IN  \/ task = GetTopicNames /\ getTopicNames(ex)
              \/ task = InitStreams /\ initStreams(ex)
              \/ task = Checks /\ performPeriodicChecks(ex)
              \/ task.do = "setStopTime" /\ applyStopTime(ex, task.stop)
              \/ task = Exit /\ runExit(ex)
    BY <1>1 DEF ExecutorTask
  <2> DEFINE task == Task(executor, slot)
             ex == Dequeue(executor, slot)
  <2>2. ex \in Executors(Owners, Tasks) /\ task \in Tasks
    BY TakenTask
  <2> HIDE DEF task, ex
  <2>3. CASE getTopicNames(ex)
    <3>1. executor' \in Executors(Owners, Tasks)
      BY <1>0, <2>2, <2>3, SentTask, TaskFacts DEF getTopicNames
    <3>2. UNCHANGED <<controller, Streamers, busy, phase, writing, streams>>
      BY <2>3 DEF getTopicNames
    <3> QED BY <1>0, <1>u, <3>1, <3>2
            DEF TypeInv, Types, ControlOK, MainOK, WriterOK, StreamsOK, writing, streams
  <2>4. CASE initStreams(ex)
    <3>0. 1 \in 1..(Len(Topics) + 1)
      BY TopicFacts
    <3>1. controller' \in Controllers /\ busy' \in Places /\ executor' = ex
      BY <1>0, <1>s, <2>4, <3>0, ControllerFacts, PlaceFacts DEF initStreams
    <3>2. UNCHANGED <<Streamers, phase, writing, streams>>
      BY <2>4 DEF initStreams
    <3> QED BY <1>0, <1>u, <2>2, <3>1, <3>2
            DEF TypeInv, Types, ControlOK, MainOK, WriterOK, StreamsOK, writing, streams
  <2>5. CASE checksFindNone(ex) \/ checksFindDone(ex) \/ checksThrow(ex)
    BY <1>c, <2>2, <2>5 DEF ChecksStep
  <2>6. CASE task.do = "setStopTime" /\ applyStopTime(ex, task.stop)
    <3>1. task.stop \in Nat
      BY <2>2, <2>6, TaskFacts, StampFacts
    <3>2. /\ executor' = ex /\ stop' \in [Streams -> Nat]
          /\ UNCHANGED <<controller, Streamers, busy, phase, writing, stream, sent, held,
                         late, queued>>
      BY <1>0, <2>6, <3>1 DEF applyStopTime, StreamsOK
    <3> QED BY <1>0, <1>u, <2>2, <3>2
            DEF TypeInv, Types, ControlOK, MainOK, WriterOK, StreamsOK, writing
  <2>7. CASE runExit(ex)
    <3>1. executor' \in Executors(Owners, Tasks)
      BY <2>2, <2>7 DEF runExit, StopThread, Executors
    <3> QED BY <1>0, <1>u, <2>7, <3>1
            DEF TypeInv, Types, ControlOK, MainOK, WriterOK, StreamsOK, writing, streams, runExit
  <2> QED BY <2>1, <2>3, <2>4, <2>5, <2>6, <2>7 DEF task, ex, performPeriodicChecks
<1>2. CASE createStream
  <2>0. /\ busy.do = "creating" /\ busy.next \in 1..(Len(Topics) + 1)
        /\ UNCHANGED <<controller, phase, writing, sent, held, late, queued>>
    BY <1>0, <1>2, PlaceFacts DEF createStream
  <2>1. CASE busy.next <= Len(Topics)
    <3> DEFINE s == Topics[busy.next]
    <3>1. busy.next \in 1..Len(Topics) /\ busy.next + 1 \in 1..(Len(Topics) + 1)
      BY <2>0, <2>1, TopicFacts
    <3>2. s \in Streams /\ s \in Pointers
      BY <3>1, TopicFacts DEF Pointers
    <3> HIDE DEF s
    <3>3. /\ Streamers' = Append(Streamers, s) /\ stream' = [stream EXCEPT ![s] = "reading"]
          /\ stop' = [stop EXCEPT ![s] = controller.StopTimestamp]
          /\ busy' = Creating(busy.next + 1) /\ UNCHANGED executor
      BY <1>2, <2>1 DEF createStream, s
    <3>4. controller.StopTimestamp \in Nat
      BY <1>0, StampFacts DEF Controllers
    <3>5. Streamers' \in Seq(Pointers)
      BY <1>0, <3>2, <3>3
    <3>6. stream' \in [Streams -> States] /\ stop' \in [Streams -> Nat]
      BY <1>0, <3>2, <3>3, <3>4 DEF StreamsOK, States
    <3>7. busy' \in Places
      BY <3>1, <3>3, PlaceFacts
    <3> QED BY <1>0, <1>u, <2>0, <3>3, <3>5, <3>6, <3>7
            DEF TypeInv, Types, ControlOK, MainOK, WriterOK, StreamsOK, writing
  <2>2. CASE ~(busy.next <= Len(Topics))
    <3>1. /\ executor' = sendLowPriorityWork(executor, "self", Checks) /\ busy' = Free
          /\ UNCHANGED <<Streamers, stream, stop>>
      BY <1>2, <2>2 DEF createStream
    <3>2. executor' \in Executors(Owners, Tasks) /\ busy' \in Places
      BY <1>0, <3>1, SentTask, TaskFacts, PlaceFacts
    <3> QED BY <1>0, <1>u, <2>0, <3>1, <3>2
            DEF TypeInv, Types, ControlOK, MainOK, WriterOK, StreamsOK, writing
  <2> QED BY <2>1, <2>2
<1>3. CASE fail
  <2> DEFINE ctl == [controller EXCEPT !.StreamersRemaining = FALSE,
                       !.StreamersPaused = throttleIfWriteQueueIsFull(@)]
  <2>1. ctl \in Controllers
    BY <1>0, <1>s, ControllerFacts
  <2> HIDE DEF ctl
  <2>2. /\ stopStreams(ctl, phase) /\ busy' = Free /\ executor' = nextChecks(executor)
        /\ UNCHANGED <<Streamers, written, streams>>
    BY <1>3 DEF fail, ctl
  <2>3. /\ controller' \in Controllers /\ phase' \in {phase, "crashed"}
        /\ writer' \in [RunThread : BOOLEAN,
                        at : {"loop", "write", "final", "ended"}]
    BY <1>0, <2>1, <2>2, StopStreamsFacts DEF WriterOK
  <2>4. executor' \in Executors(Owners, Tasks) /\ busy' \in Places
    BY <1>0, <2>2, SentTask, TaskFacts, PlaceFacts DEF nextChecks
  <2> QED BY <1>0, <1>u, <2>2, <2>3, <2>4
          DEF TypeInv, Types, ControlOK, MainOK, WriterOK, StreamsOK, streams
<1>4. CASE erase
  BY <1>0, <1>c, <1>4 DEF ChecksStep
<1> QED BY <1>1, <1>2, <1>3, <1>4 DEF Executor

\* A stream is done.
SomeDone == \E s \in Streams : StreamDone(s)

\* So do the writer thread and the streams.
LEMMA TypeStreams ==
  TypeInv /\ (WriterThread \/ HoldMessage \/ ReadMessage \/ SomeDone \/ StreamFails)
    => Types'
<1> SUFFICES ASSUME TypeInv,
                    WriterThread \/ HoldMessage \/ ReadMessage \/ SomeDone \/ StreamFails
             PROVE  Types'
  OBVIOUS
<1>0. ControlOK /\ MainOK /\ WriterOK /\ StreamsOK
  BY DEF TypeInv, Types
<1>h. \A s \in Streams : Held(s) \in Nat
  BY DEF Held
<1>u. UNCHANGED <<control, phase, outcome, now, commanded, raced, stop>>
  BY DEF WriterThread, HoldMessage, ReadMessage, SomeDone, StreamDone, StreamFails
<1>1. ControlOK' /\ MainOK'
  BY <1>0, <1>u DEF ControlOK, MainOK, control
<1>2. CASE WriterThread
  <2>1. UNCHANGED <<stream, stop, sent, held, late>>
    BY <1>2 DEF WriterThread
  <2>2. WriterOK'
    <3>1. CASE WriterLoop
      BY <1>0, <3>1 DEF WriterLoop, Goto, LastPlace, WriterOK
    <3>2. CASE WriteMessage
      <4>1. PICK s \in Streams : /\ queued[s] > 0 /\ UNCHANGED writer
                                 /\ queued' = [queued EXCEPT ![s] = @ - 1]
                                 /\ written' = [written EXCEPT ![s] = @ + 1]
        BY <3>2 DEF WriteMessage, Pending
      <4>2. queued[s] - 1 \in Nat /\ written[s] + 1 \in Nat
        BY <1>0, <4>1 DEF WriterOK
      <4> QED BY <1>0, <4>1, <4>2 DEF WriterOK
    <3>3. CASE WriteDone
      BY <1>0, <3>3 DEF WriteDone, Goto, WriterOK
    <3> QED BY <1>2, <3>1, <3>2, <3>3 DEF WriterThread
  <2> QED BY <1>0, <1>1, <2>1, <2>2 DEF TypeInv, Types, StreamsOK
<1>3. CASE HoldMessage
  <2>1. held' \in [Streams -> BOOLEAN]
    BY <1>0, <1>3 DEF HoldMessage, StreamsOK
  <2>2. UNCHANGED <<writing, stream, stop, sent, late, queued>>
    BY <1>3 DEF HoldMessage
  <2> QED BY <1>0, <1>1, <2>1, <2>2 DEF TypeInv, Types, StreamsOK, WriterOK, writing
<1>4. CASE ReadMessage \/ SomeDone
  <2>1. PICK s \in Streams :
          /\ held' = [held EXCEPT ![s] = FALSE]
          /\ addMessages(s, Held(s) + 1) \/ addMessages(s, Held(s))
          /\ stream' = stream \/ stream' = [stream EXCEPT ![s] = "done"]
          /\ UNCHANGED writing
    BY <1>4 DEF ReadMessage, SomeDone, StreamDone
  <2>2. Held(s) \in Nat /\ Held(s) + 1 \in Nat
    BY <1>h
  <2>3. /\ sent' \in [Streams -> Nat] /\ late' \in [Streams -> Nat]
        /\ queued' \in [Streams -> Nat]
    BY <2>1, <2>2, AddFacts
  <2>4. held' \in [Streams -> BOOLEAN] /\ stream' \in [Streams -> States]
    BY <1>0, <2>1 DEF StreamsOK, States
  <2> QED BY <1>0, <1>1, <1>u, <2>1, <2>3, <2>4 DEF TypeInv, Types, StreamsOK, WriterOK, writing
<1>5. CASE StreamFails
  <2>1. stream' \in [Streams -> States]
    BY <1>0, <1>5 DEF StreamFails, StreamsOK, States
  <2>2. UNCHANGED <<writing, stop, sent, held, late, queued>>
    BY <1>5 DEF StreamFails
  <2> QED BY <1>0, <1>1, <2>1, <2>2 DEF TypeInv, Types, StreamsOK, WriterOK, writing
<1> QED BY <1>2, <1>3, <1>4, <1>5

\* And the main thread and the clock.
LEMMA TypeMain ==
  TypeInv /\ (setStopTime \/ stopNow \/ Main \/ Tick \/ UNCHANGED vars) => Types'
<1> SUFFICES ASSUME TypeInv, setStopTime \/ stopNow \/ Main \/ Tick \/ UNCHANGED vars
             PROVE  Types'
  OBVIOUS
<1>0. /\ controller \in Controllers /\ Streamers \in Seq(Pointers)
      /\ executor \in Executors(Owners, Tasks) /\ busy \in Places
      /\ MainOK /\ WriterOK /\ StreamsOK /\ "main" \in Owners
      /\ now \in 0..MaxTime
  BY DEF TypeInv, Types, ControlOK, Owners, MainOK
<1>n. now \in NewStops /\ now \in Stamps
  BY <1>0 DEF NewStops, Stamps
<1>w. [writer EXCEPT !.RunThread = FALSE]
        \in [RunThread : BOOLEAN, at : {"loop", "write", "final", "ended"}]
  BY <1>0 DEF WriterOK
<1>1. CASE setStopTime
  <2>1. PICK t \in StopTimes : /\ controller' = setStopTimestamp(controller, t)
                               /\ executor' = sendWork(executor, "main", NewStop(t))
    BY <1>1 DEF setStopTime
  <2>2. t \in NewStops /\ t \in Stamps
    BY DEF NewStops, Stamps
  <2>3. controller' \in Controllers /\ executor' \in Executors(Owners, Tasks)
    BY <1>0, <2>1, <2>2, ControllerFacts, SentTask, TaskFacts
  <2>4. UNCHANGED <<outer, phase, writer, raced>> /\ commanded' = "setStopTime"
    BY <1>1 DEF setStopTime
  <2> QED BY <1>0, <2>3, <2>4
          DEF TypeInv, Types, ControlOK, MainOK, WriterOK, StreamsOK, outer, streams
<1>2. CASE stoppedNow
  <2> DEFINE ctl == setStopTimestamp(controller, now)
  <2>1. ctl \in Controllers
    BY <1>0, <1>n, ControllerFacts
  <2> HIDE DEF ctl
  <2>2. /\ stopStreams(ctl, "running") /\ executor' = sendWork(executor, "main", NewStop(now))
        /\ UNCHANGED <<outer, commanded, raced>>
    BY <1>2 DEF stoppedNow, ctl
  <2>3. /\ controller' \in Controllers /\ phase' \in {"running", "crashed"}
        /\ writer' \in [RunThread : BOOLEAN,
                        at : {"loop", "write", "final", "ended"}]
    BY <1>0, <1>w, <2>1, <2>2, StopStreamsFacts DEF WriterOK
  <2>4. executor' \in Executors(Owners, Tasks)
    BY <1>0, <1>n, <2>2, SentTask, TaskFacts
  <2> QED BY <1>0, <2>2, <2>3, <2>4
          DEF TypeInv, Types, ControlOK, MainOK, WriterOK, StreamsOK, outer, streams
<1>3. CASE leave
  <2>1. stopStreams(controller, "metadata") /\ UNCHANGED <<outer, executor, commanded, raced>>
    BY <1>3 DEF leave
  <2>2. /\ controller' \in Controllers /\ phase' \in {"metadata", "crashed"}
        /\ writer' \in [RunThread : BOOLEAN,
                        at : {"loop", "write", "final", "ended"}]
    BY <1>0, <1>w, <2>1, StopStreamsFacts DEF WriterOK
  <2> QED BY <1>0, <2>1, <2>2
          DEF TypeInv, Types, ControlOK, MainOK, WriterOK, StreamsOK, outer, streams
<1>9. CASE stopNow \/ setToIdle
  <2>1. /\ phase' \in {"stopping", "leaving"} /\ raced' \in BOOLEAN
        /\ outcome' \in {outcome, "Failure", "Success"}
        /\ commanded' \in {commanded, "stopNow"}
        /\ UNCHANGED <<Streamers, busy, written, streams, now, controller, executor, writer>>
    BY <1>9 DEF stopNow, setToIdle, enterStop
  <2> QED BY <1>0, <2>1
          DEF TypeInv, Types, ControlOK, MainOK, WriterOK, StreamsOK, streams
<1>4. CASE writeMetadata
  <2>1. executor' \in Executors(Owners, Tasks)
    BY <1>0, <1>4, SentTask, TaskFacts DEF writeMetadata
  <2>2. phase' = "joining" /\ UNCHANGED <<outer, controller, writer, commanded, raced>>
    BY <1>4 DEF writeMetadata
  <2> QED BY <1>0, <2>1, <2>2
          DEF TypeInv, Types, ControlOK, MainOK, WriterOK, StreamsOK, outer, streams
<1>5. CASE hasWritingStopped \/ joinExecutor \/ joinWriter
  <2>1. /\ phase' \in {"done", "draining", "unwinding"}
        /\ writer' \in {writer, [writer EXCEPT !.RunThread = FALSE]}
        /\ UNCHANGED <<outer, controller, executor, commanded, raced>>
    BY <1>5 DEF hasWritingStopped, joinExecutor, joinWriter, stopWriter
  <2> QED BY <1>0, <1>w, <2>1
          DEF TypeInv, Types, ControlOK, MainOK, WriterOK, StreamsOK, outer, streams
<1>6. CASE destroyStreams
  <2>h. \A s \in Streams : Held(s) \in Nat
    BY DEF Held
  <2>1. /\ stream' \in [Streams -> States] /\ sent' \in [Streams -> Nat]
        /\ late' \in [Streams -> Nat] /\ held' \in [Streams -> BOOLEAN]
    BY <1>0, <1>6, <2>h DEF destroyStreams, StreamsOK, States
  <2>2. /\ phase' = "destroyed"
        /\ UNCHANGED <<control, outcome, writing, stop, queued, now, commanded, raced>>
    BY <1>6 DEF destroyStreams
  <2> QED BY <1>0, <2>1, <2>2
          DEF TypeInv, Types, ControlOK, MainOK, WriterOK, StreamsOK, control, writing
<1>7. CASE Tick
  <2>1. now' \in 0..MaxTime
    BY <1>0, <1>7, StreamControllerAssumption DEF Tick
  <2>2. UNCHANGED <<control, phase, outcome, writing, streams, commanded, raced>>
    BY <1>7 DEF Tick
  <2> QED BY <1>0, <2>1, <2>2
          DEF TypeInv, Types, ControlOK, MainOK, WriterOK, StreamsOK, control, writing, streams
<1>8. CASE UNCHANGED vars
  BY <1>0, <1>8
  DEF TypeInv, Types, ControlOK, MainOK, WriterOK, StreamsOK, vars, control, writing, streams
<1> QED BY <1>1, <1>2, <1>3, <1>4, <1>5, <1>6, <1>7, <1>8, <1>9 DEF Main
-----------------------------------------------------------------------------
(* The tasks that set up and watch the streams follow one another: there is one
   of them, in the queue or being run, or an error has ended their line. *)

Setup == {GetTopicNames, InitStreams, Checks}
Alone(ex, task) == Has(ex, task) /\ \A x \in Setup : x # task => Lacks(ex, x)
Nobody(ex) == \A x \in Setup : Lacks(ex, x)

\* The task of the line that is run is the one that waits.
LEMMA TakeAlone ==
  ASSUME NEW ex \in Executors(Owners, Tasks), NEW slot \in Runnable(ex), NEW x \in Setup
  PROVE  /\ Nobody(ex) => Task(ex, slot) \notin Setup /\ Nobody(Dequeue(ex, slot))
         /\ Alone(ex, x) /\ Task(ex, slot) \in Setup =>
              Task(ex, slot) = x /\ Nobody(Dequeue(ex, slot))
         /\ Alone(ex, x) /\ Task(ex, slot) \notin Setup => Alone(Dequeue(ex, slot), x)
<1>1. \A y : /\ Lacks(ex, y) => Task(ex, slot) # y /\ Lacks(Dequeue(ex, slot), y)
             /\ Has(ex, y) /\ Task(ex, slot) = y => Lacks(Dequeue(ex, slot), y)
             /\ Has(ex, y) /\ Task(ex, slot) # y => Has(Dequeue(ex, slot), y)
  BY TakeCount
<1> QED BY <1>1 DEF Alone, Nobody

\* A task of the line is sent when none waits; other tasks do not disturb it.
LEMMA SendAlone ==
  ASSUME NEW ex \in Executors(Owners, Tasks), NEW t \in Owners, NEW task \in Tasks,
         NEW x \in Setup
  PROVE  /\ task \in Setup /\ Nobody(ex) => Alone(sendLowPriorityWork(ex, t, task), task)
         /\ task \notin Setup /\ Nobody(ex) => Nobody(sendWork(ex, t, task))
         /\ task \notin Setup /\ Alone(ex, x) => Alone(sendWork(ex, t, task), x)
<1>1. \A y : /\ task # y /\ Lacks(ex, y) => Lacks(sendWork(ex, t, task), y)
             /\ task # y /\ Has(ex, y) => Has(sendWork(ex, t, task), y)
             /\ task # y /\ Lacks(ex, y) => Lacks(sendLowPriorityWork(ex, t, task), y)
             /\ task = y /\ Lacks(ex, y) => Has(sendLowPriorityWork(ex, t, task), y)
  BY SendCount
<1> QED BY <1>1 DEF Alone, Nobody

\* The end of the thread changes no queue.
LEMMA StopAlone ==
  ASSUME NEW ex \in Executors(Owners, Tasks), NEW x
  PROVE  (Nobody(ex) => Nobody(StopThread(ex))) /\ (Alone(ex, x) => Alone(StopThread(ex), x))
<1>1. StopThread(ex).high = ex.high /\ StopThread(ex).low = ex.low
  BY DEF StopThread, Executors
<1> QED BY <1>1 DEF Nobody, Alone, Has, Lacks

AllNone == \A s \in Streams : stream[s] = "none"
NoneLeft == \A s \in Streams : stream[s] # "none"

(* Asking for the topics and about to create the streams; creating them in the
   order of the topics; watching them; erasing some; in the handler of an error, after which it
   goes on; or there is none, because a topic does not exist. *)
SettingUp ==
  busy = Free /\ AllNone /\ (Alone(executor, GetTopicNames) \/ Alone(executor, InitStreams))
CreatingThem ==
  /\ busy.do = "creating" /\ Nobody(executor)
  /\ \A j \in 1..Len(Topics) : stream[Topics[j]] = "none" <=> busy.next <= j
WatchingThem == busy = Free /\ NoneLeft /\ Alone(executor, Checks)
ErasingThem == busy.do = "erasing" /\ NoneLeft /\ Nobody(executor)
HandlingError == busy = Failing /\ NoneLeft /\ Nobody(executor) /\ controller.HasError
GivenUp == busy = Free /\ Nobody(executor) /\ controller.HasError

StageInv ==
  \/ SettingUp \/ CreatingThem \/ WatchingThem \/ ErasingThem \/ HandlingError \/ GivenUp

\* Everything but the executor's thread.
Others ==
  \/ WriterThread \/ HoldMessage \/ ReadMessage \/ SomeDone \/ StreamFails
  \/ setStopTime \/ stopNow \/ Main \/ Tick \/ UNCHANGED vars

\* The other threads start no stream, forget no error and send no task of the line.
LEMMA OthersLeave ==
  ASSUME TypeInv, Others
  PROVE  /\ busy' = busy /\ Streamers' = Streamers
         /\ controller'.HasError = controller.HasError
         /\ \/ executor' = executor
            \/ \E x \in Tasks \ Setup : executor' = sendWork(executor, "main", x)
         /\ \A s \in Streams : stream'[s] = "none" <=> stream[s] = "none"
         /\ \A s \in Streams : stream[s] = "gone" => stream'[s] = "gone"
         /\ \A s \in Streams : stream[s] = "done" => stream'[s] \in {"done", "gone"}
<1>0. /\ stream \in [Streams -> States] /\ controller \in Controllers
      /\ now \in NewStops
  BY DEF TypeInv, Types, StreamsOK, ControlOK, MainOK, NewStops
<1>t. /\ \A t \in NewStops : NewStop(t) \in Tasks \ Setup
      /\ Exit \in Tasks \ Setup /\ \A t \in StopTimes : t \in NewStops
  BY TaskFacts DEF Setup, NewStops
<1>1. CASE WriterThread \/ HoldMessage \/ Tick \/ UNCHANGED vars
  BY <1>1 DEF WriterThread, HoldMessage, Tick, vars, control, streams
<1>2. CASE ReadMessage \/ SomeDone \/ StreamFails
  <2>1. UNCHANGED control
    BY <1>2 DEF ReadMessage, SomeDone, StreamDone, StreamFails
  <2>2. \/ stream' = stream
        \/ \E s \in Streams, st \in {"done", "failed"} :
              stream[s] = "reading" /\ stream' = [stream EXCEPT ![s] = st]
    BY <1>2 DEF ReadMessage, SomeDone, StreamDone, StreamFails
  <2>3. \A s \in Streams : stream'[s] = "none" <=> stream[s] = "none"
    BY <1>0, <2>2
  <2>4. \A s \in Streams : stream[s] \in {"done", "gone"} => stream'[s] = stream[s]
    BY <1>0, <2>2
  <2> QED BY <2>1, <2>3, <2>4 DEF control
<1>3. CASE setStopTime
  BY <1>0, <1>t, <1>3 DEF setStopTime, setStopTimestamp, outer, streams, Controllers
<1>c. ASSUME NEW ctl, NEW next, ctl \in Controllers, ctl.HasError = controller.HasError,
             stopStreams(ctl, next)
      PROVE  controller'.HasError = controller.HasError
  BY <1>c DEF stopStreams, Controllers
<1>4. CASE stopNow \/ setToIdle
  BY <1>4 DEF stopNow, setToIdle, enterStop, streams
<1>5. CASE Main /\ ~setToIdle
  <2>1. CASE leave
    BY <1>0, <1>c, <2>1 DEF leave, outer, streams
  <2>2. CASE destroyStreams
    BY <1>0, <2>2 DEF destroyStreams, control
  <2>3. CASE hasWritingStopped \/ writeMetadata \/ joinExecutor \/ joinWriter
    BY <1>t, <2>3 DEF hasWritingStopped, writeMetadata, joinExecutor, joinWriter, outer, streams
  <2>4. CASE stoppedNow
    <3> DEFINE ctl == setStopTimestamp(controller, now)
    <3>1. ctl \in Controllers /\ ctl.HasError = controller.HasError
      BY <1>0, StampFacts DEF setStopTimestamp, Controllers
    <3> HIDE DEF ctl
    <3>2. stopStreams(ctl, "running") /\ executor' = sendWork(executor, "main", NewStop(now))
          /\ UNCHANGED outer
      BY <2>4 DEF stoppedNow, ctl
    <3>3. controller'.HasError = controller.HasError
      BY <1>c, <3>1, <3>2
    <3> QED BY <1>0, <1>t, <3>2, <3>3 DEF outer, streams
  <2> QED BY <1>5, <2>1, <2>2, <2>3, <2>4 DEF Main
<1> QED BY <1>1, <1>2, <1>3, <1>4, <1>5 DEF Others, Main

\* A step of the specification is one of the executor or of the others.
LEMMA StepOf == [Next]_vars => Executor \/ Others
BY DEF Next, Others, SomeDone

\* What the executor may do to the vector and to its place in a task.
LEMMA ExecutorSteps ==
  ASSUME TypeInv, Executor
  PROVE  \/ createStream /\ busy.next <= Len(Topics)
         \/ \E ex : ChecksStep(ex)
         \/ UNCHANGED <<Streamers, stream>> /\ busy'.do # "erasing"
<1>1. CASE ExecutorTask
  <2>1. \/ \E ex : performPeriodicChecks(ex)
        \/ UNCHANGED <<Streamers, stream>> /\ busy' \in {Free, Creating(1)}
    BY <1>1 DEF ExecutorTask, getTopicNames, initStreams, applyStopTime, runExit, streams
  <2>2. Free.do # "erasing" /\ Creating(1).do # "erasing"
    BY DEF Free, Creating
  <2> QED BY <2>1, <2>2 DEF performPeriodicChecks, ChecksStep
<1>2. CASE createStream /\ ~(busy.next <= Len(Topics))
  BY <1>2, PlaceFacts DEF createStream
<1>3. CASE fail
  BY <1>3, PlaceFacts DEF fail, streams
<1> QED BY <1>1, <1>2, <1>3 DEF Executor, ChecksStep

\* Nothing but the executor touches the vector, and a stream that is done stays so.
LEMMA TailNext == TypeInv /\ [Next]_vars => TailDone'
<1> SUFFICES ASSUME TypeInv, [Next]_vars, busy'.do = "erasing" PROVE TailDone'
  BY DEF TailDone
<1>0. /\ stream \in [Streams -> States] /\ Streamers \in Seq(Pointers) /\ busy \in Places
      /\ Len(Streamers) \in Nat /\ Null \notin Streams
      /\ \A i \in 1..Len(Streamers) : Streamers[i] \in Pointers
  BY TopicFacts DEF TypeInv, Types, StreamsOK, ControlOK
<1>1. CASE Others
  <2>1. /\ busy' = busy /\ Streamers' = Streamers
        /\ \A s \in Streams : stream[s] = "gone" => stream'[s] = "gone"
        /\ \A s \in Streams : stream[s] = "done" => stream'[s] \in {"done", "gone"}
    BY <1>1, OthersLeave
  <2>2. /\ busy.keep \in 0..Len(Streamers)
        /\ \A i \in 1..Len(Streamers) : i > busy.keep =>
             Streamers[i] = Null \/ stream[Streamers[i]] \in {"done", "gone"}
    BY <2>1 DEF TypeInv, TailDone
  <2>3. \A i \in 1..Len(Streamers) : Streamers[i] = Null \/ Streamers[i] \in Streams
    BY <1>0 DEF Pointers
  <2>4. \A i \in 1..Len(Streamers) : i > busy.keep =>
             Streamers[i] = Null \/ stream'[Streamers[i]] \in {"done", "gone"}
    BY <2>1, <2>2, <2>3
  <2> QED BY <2>1, <2>2, <2>4 DEF TailDone
<1>2. CASE createStream /\ busy.next <= Len(Topics)
  <2>1. busy.next \in 1..(Len(Topics) + 1) /\ Len(Topics) \in Nat
    BY <1>0, <1>2, PlaceFacts, TopicFacts DEF createStream
  <2>2. busy.next + 1 \in 1..(Len(Topics) + 1)
    BY <1>2, <2>1
  <2> QED BY <1>2, <2>2, PlaceFacts DEF createStream
<1>3. ASSUME NEW ex, ChecksStep(ex) PROVE TailDone'
  <2> DEFINE n == Len(Streamers)
             k == Len(KeptOf(n))
  <2>1. checksFindDone(ex)
    BY <1>3, PlaceFacts DEF ChecksStep, checksFindNone, checksThrow, erase, endChecks
  <2>2. n \in 0..n
    BY <1>0
  <2>3. /\ Len(Moved(n)) = n /\ k \in 0..n
        /\ \A i \in 1..n : i > k =>
              Moved(n)[i] = Null \/ (Moved(n)[i] = Streamers[i] /\ IsDone(Streamers[i]))
    BY <2>2, MovedFacts
  <2>4. Streamers' = Moved(n) /\ busy' = Erasing(k)
    BY <2>1 DEF checksFindDone
  <2> HIDE DEF n, k
  <2>5. k \in Nat
    BY <1>0, <2>3 DEF n
  <2>6. busy'.keep = k
    BY <2>4, <2>5, PlaceFacts
  <2>7. ASSUME NEW i \in 1..n, i > k
        PROVE  Streamers'[i] = Null \/ stream'[Streamers'[i]] \in {"done", "gone"}
    <3>1. CASE Streamers'[i] = Null
      BY <3>1
    <3>2. CASE Streamers'[i] # Null
      <4>1. Streamers'[i] = Streamers[i] /\ IsDone(Streamers[i])
        BY <2>3, <2>4, <2>7, <3>2
      <4>2. Streamers[i] \in Streams /\ stream[Streamers[i]] = "done"
        BY <1>0, <3>2, <4>1 DEF IsDone, Pointers, n
      <4>3. \/ stream'[Streamers[i]] = stream[Streamers[i]]
            \/ stream'[Streamers[i]] = "gone"
        BY <1>3, <4>2, ChecksErase DEF Erases
      <4> QED BY <4>1, <4>2, <4>3
    <3> QED BY <3>1, <3>2
  <2> QED BY <2>3, <2>4, <2>6, <2>7 DEF TailDone
<1> QED BY <1>1, <1>2, <1>3, StepOf, ExecutorSteps

\* The induction step for the types.
LEMMA TypeNext == TypeInv /\ [Next]_vars => TypeInv'
<1>1. TypeInv /\ [Next]_vars => Types'
  BY TypeExecutor, TypeStreams, TypeMain DEF Next, SomeDone
<1> QED BY <1>1, TailNext DEF TypeInv

\* At first the topics are to be asked for.
LEMMA StageInit == Init => StageInv
<1> SUFFICES ASSUME Init PROVE SettingUp
  BY DEF StageInv
<1> DEFINE new == NewExecutor({"main", "self"})
<1>1. new \in Executors(Owners, Tasks) /\ "main" \in Owners
  BY NewExecutorFacts DEF Owners
<1>2. Nobody(new)
  BY NewLacks DEF Nobody
<1>3. executor = sendLowPriorityWork(new, "main", GetTopicNames) /\ busy = Free /\ AllNone
  BY DEF Init, AllNone
<1>4. GetTopicNames \in Tasks /\ GetTopicNames \in Setup
  BY TaskFacts DEF Setup
<1> HIDE DEF new
<1>5. Alone(executor, GetTopicNames)
  BY <1>1, <1>2, <1>3, <1>4, SendAlone
<1> QED BY <1>3, <1>5 DEF SettingUp

\* The line of tasks is the executor's own.
LEMMA StageOthers == TypeInv /\ StageInv /\ Others => StageInv'
<1> SUFFICES ASSUME TypeInv, StageInv, Others PROVE StageInv'
  OBVIOUS
<1>0. executor \in Executors(Owners, Tasks) /\ "main" \in Owners
  BY DEF TypeInv, Types, ControlOK, Owners
<1>1. /\ busy' = busy /\ controller'.HasError = controller.HasError
      /\ \/ executor' = executor
         \/ \E x \in Tasks \ Setup : executor' = sendWork(executor, "main", x)
      /\ \A s \in Streams : stream'[s] = "none" <=> stream[s] = "none"
  BY OthersLeave
<1>2. GetTopicNames \in Setup /\ InitStreams \in Setup /\ Checks \in Setup
  BY DEF Setup
<1>3. /\ Nobody(executor) => Nobody(executor')
      /\ \A x \in Setup : Alone(executor, x) => Alone(executor', x)
  BY <1>0, <1>1, <1>2, SendAlone
<1>4. \A j \in 1..Len(Topics) : Topics[j] \in Streams
  BY TopicFacts
<1>5. (AllNone => AllNone') /\ (NoneLeft => NoneLeft')
  BY <1>1 DEF AllNone, NoneLeft
<1>6. SettingUp => SettingUp'
  BY <1>1, <1>2, <1>3, <1>5 DEF SettingUp
<1>7. CreatingThem => CreatingThem'
  BY <1>1, <1>3, <1>4 DEF CreatingThem
<1>8. (WatchingThem => WatchingThem') /\ (HandlingError => HandlingError')
      /\ (GivenUp => GivenUp') /\ (ErasingThem => ErasingThem')
  BY <1>1, <1>2, <1>3, <1>5 DEF WatchingThem, HandlingError, GivenUp, ErasingThem
<1> QED BY <1>6, <1>7, <1>8 DEF StageInv

\* The executor's own steps go from one stage to the next.
LEMMA StageExecutor == TypeInv /\ StageInv /\ Executor => StageInv'
<1> SUFFICES ASSUME TypeInv, StageInv, Executor PROVE StageInv'
  OBVIOUS
<1>0. /\ executor \in Executors(Owners, Tasks) /\ "self" \in Owners
      /\ controller \in Controllers /\ busy \in Places /\ stream \in [Streams -> States]
  BY DEF TypeInv, Types, ControlOK, Owners, StreamsOK
<1>s. /\ GetTopicNames \in Setup /\ InitStreams \in Setup /\ Checks \in Setup
      /\ GetTopicNames \in Tasks /\ InitStreams \in Tasks /\ Checks \in Tasks
      /\ GetTopicNames # InitStreams /\ GetTopicNames # Checks /\ InitStreams # Checks
  BY TaskFacts DEF Setup
<1>p. /\ Free # Failing /\ Free.do # "creating" /\ Failing.do # "creating"
      /\ Free.do # "erasing" /\ Failing.do # "erasing"
  BY PlaceFacts
<1>1. CASE ExecutorTask
  <2>1. PICK slot \in Runnable(executor) :
          LET task == Task(executor, slot)
              ex   == Dequeue(executor, slot)
          IN  \/ task = GetTopicNames /\ getTopicNames(ex)
              \/ task = InitStreams /\ initStreams(ex)
              \/ task = Checks /\ performPeriodicChecks(ex)
              \/ task.do = "setStopTime" /\ applyStopTime(ex, task.stop)
              \/ task = Exit /\ runExit(ex)
    BY <1>1 DEF ExecutorTask
  <2> DEFINE task == Task(executor, slot)
             ex == Dequeue(executor, slot)
  <2>2. ex \in Executors(Owners, Tasks) /\ task \in Tasks
    BY TakenTask
  <2>3. /\ Nobody(executor) => task \notin Setup /\ Nobody(ex)
        /\ \A x \in Setup : Alone(executor, x) /\ task \in Setup => task = x /\ Nobody(ex)
        /\ \A x \in Setup : Alone(executor, x) /\ task \notin Setup => Alone(ex, x)
    BY <1>0, <1>s, TakeAlone
  <2>4. /\ busy = Free /\ busy.do # "creating"
        /\ SettingUp \/ WatchingThem \/ GivenUp
    BY <1>1, <1>p DEF ExecutorTask, StageInv, CreatingThem, HandlingError, ErasingThem
  <2> HIDE DEF task, ex
  <2>5. CASE task = GetTopicNames /\ getTopicNames(ex)
    <3>1. SettingUp /\ Nobody(ex)
      BY <1>s, <2>3, <2>4, <2>5 DEF SettingUp, WatchingThem, GivenUp
    <3>2. \E x \in {GetTopicNames, InitStreams} : executor' = sendLowPriorityWork(ex, "self", x)
      BY <2>5 DEF getTopicNames
    <3>3. Alone(executor', GetTopicNames) \/ Alone(executor', InitStreams)
      BY <1>0, <1>s, <2>2, <3>1, <3>2, SendAlone
    <3> QED BY <2>4, <2>5, <3>1, <3>3
            DEF getTopicNames, SettingUp, AllNone, StageInv, streams
  <2>6. CASE task = InitStreams /\ initStreams(ex)
    <3>1. SettingUp /\ Nobody(ex)
      BY <1>s, <2>3, <2>4, <2>6 DEF SettingUp, WatchingThem, GivenUp
    <3>2. executor' = ex /\ stream' = stream
      BY <2>6 DEF initStreams, streams
    <3>3. CASE busy' = Creating(1)
      <4>1. 1 \in 1..(Len(Topics) + 1)
        BY TopicFacts
      <4>2. busy'.do = "creating" /\ busy'.next = 1
        BY <3>3, <4>1, PlaceFacts
      <4>3. \A j \in 1..Len(Topics) : stream[Topics[j]] = "none" /\ 1 <= j
        BY <3>1, TopicFacts DEF SettingUp, AllNone
      <4> QED BY <3>1, <3>2, <4>2, <4>3 DEF CreatingThem, StageInv
    <3>4. CASE /\ controller' = [controller EXCEPT !.HasError = TRUE]
               /\ UNCHANGED busy
      <4>1. controller'.HasError
        BY <1>0, <3>4 DEF Controllers
      <4> QED BY <2>4, <3>1, <3>2, <3>4, <4>1 DEF GivenUp, StageInv
    <3> QED BY <2>6, <3>3, <3>4 DEF initStreams
  <2>7. CASE task = Checks /\ performPeriodicChecks(ex)
    <3>1. WatchingThem /\ Nobody(ex)
      BY <1>s, <2>3, <2>4, <2>7 DEF SettingUp, WatchingThem, GivenUp
    <3>2. NoneLeft'
      BY <2>7, <3>1, ChecksErase
      DEF performPeriodicChecks, ChecksStep, Erases, WatchingThem, NoneLeft
    <3>3. CASE checksFindNone(ex)
      <4>1. Alone(executor', Checks) /\ busy' = Free
        BY <1>0, <1>s, <2>2, <3>1, <3>3, SendAlone DEF checksFindNone, endChecks, nextChecks
      <4> QED BY <3>2, <4>1 DEF WatchingThem, StageInv
    <3>5. CASE checksFindDone(ex)
      <4>0. Len(Streamers) \in 0..Len(Streamers)
        BY DEF TypeInv, Types, ControlOK
      <4>1. Len(KeptOf(Len(Streamers))) \in Nat
        BY <4>0, MovedFacts
      <4>2. executor' = ex /\ busy'.do = "erasing"
        BY <3>5, <4>1, PlaceFacts DEF checksFindDone
      <4> QED BY <3>1, <3>2, <4>2 DEF ErasingThem, StageInv
    <3>4. CASE checksThrow(ex)
      <4>1. controller'.HasError /\ executor' = ex /\ busy' = Failing
        BY <1>0, <3>4 DEF checksThrow, HasErrorFirst, Controllers
      <4> QED BY <3>1, <3>2, <4>1 DEF HandlingError, StageInv
    <3> QED BY <2>7, <3>3, <3>4, <3>5 DEF performPeriodicChecks
  <2>8. CASE \/ task.do = "setStopTime" /\ applyStopTime(ex, task.stop)
             \/ task = Exit /\ runExit(ex)
    <3>1. task \notin Setup
      BY <2>8, TaskFacts DEF Setup
    <3>2. UNCHANGED <<busy, controller, stream>> /\ executor' \in {ex, StopThread(ex)}
      BY <2>8 DEF applyStopTime, runExit, streams
    <3>3. /\ Nobody(executor) => Nobody(executor')
          /\ \A x \in Setup : Alone(executor, x) => Alone(executor', x)
      BY <2>2, <2>3, <3>1, <3>2, StopAlone
    <3>4. (AllNone => AllNone') /\ (NoneLeft => NoneLeft')
      BY <3>2 DEF AllNone, NoneLeft
    <3> QED BY <1>s, <2>4, <3>2, <3>3, <3>4 DEF SettingUp, WatchingThem, GivenUp, StageInv
  <2> QED BY <2>1, <2>5, <2>6, <2>7, <2>8 DEF task, ex
<1>2. CASE createStream
  <2>1. CreatingThem /\ busy.next \in 1..(Len(Topics) + 1) /\ Len(Topics) \in Nat
    BY <1>0, <1>2, <1>p, PlaceFacts, TopicFacts
    DEF createStream, StageInv, SettingUp, WatchingThem, HandlingError, GivenUp, ErasingThem
  <2>2. CASE busy.next <= Len(Topics)
    <3> DEFINE n == busy.next
               s == Topics[n]
    <3>1. n \in 1..Len(Topics) /\ n + 1 \in 1..(Len(Topics) + 1)
      BY <2>1, <2>2
    <3>2. /\ stream' = [stream EXCEPT ![s] = "reading"] /\ busy' = Creating(n + 1)
          /\ UNCHANGED executor /\ s \in Streams
      BY <1>2, <2>2, <3>1, TopicFacts DEF createStream
    <3>3. busy'.do = "creating" /\ busy'.next = n + 1
      BY <3>1, <3>2, PlaceFacts
    <3>4. ASSUME NEW j \in 1..Len(Topics)
          PROVE  stream'[Topics[j]] = "none" <=> n + 1 <= j
      <4>1. Topics[j] \in Streams /\ (Topics[j] = s <=> j = n)
        BY <3>1, TopicFacts
      <4>2. stream[Topics[j]] = "none" <=> n <= j
        BY <2>1 DEF CreatingThem
      <4>3. n + 1 <= j <=> n <= j /\ j # n
        BY <3>1
      <4> HIDE DEF n, s
      <4> QED BY <1>0, <3>2, <4>1, <4>2, <4>3
    <3> QED BY <2>1, <3>2, <3>3, <3>4 DEF CreatingThem, StageInv
  <2>3. CASE ~(busy.next <= Len(Topics))
    <3>1. /\ executor' = sendLowPriorityWork(executor, "self", Checks) /\ busy' = Free
          /\ UNCHANGED stream
      BY <1>2, <2>3 DEF createStream
    <3>2. Alone(executor', Checks)
      BY <1>0, <1>s, <2>1, <3>1, SendAlone DEF CreatingThem
    <3>3. NoneLeft'
      <4>1. \A j \in 1..Len(Topics) : stream[Topics[j]] # "none"
        BY <2>1, <2>3 DEF CreatingThem
      <4> QED BY <3>1, <4>1, TopicFacts DEF NoneLeft
    <3> QED BY <3>1, <3>2, <3>3 DEF WatchingThem, StageInv
  <2> QED BY <2>2, <2>3
<1>3. CASE fail
  <2>1. HandlingError
    BY <1>3, <1>p
    DEF fail, StageInv, SettingUp, WatchingThem, CreatingThem, ErasingThem, GivenUp
  <2>2. busy' = Free /\ executor' = nextChecks(executor) /\ UNCHANGED stream
    BY <1>3 DEF fail, streams
  <2>3. Alone(executor', Checks)
    BY <1>0, <1>s, <2>1, <2>2, SendAlone DEF HandlingError, nextChecks
  <2> QED BY <2>1, <2>2, <2>3 DEF HandlingError, NoneLeft, WatchingThem, StageInv
<1>4. CASE erase
  <2>1. ErasingThem
    BY <1>4, <1>p
    DEF erase, StageInv, SettingUp, WatchingThem, CreatingThem, HandlingError, GivenUp
  <2>2. busy' = Free /\ executor' = nextChecks(executor)
    BY <1>4 DEF erase, endChecks
  <2>3. Alone(executor', Checks)
    BY <1>0, <1>s, <2>1, <2>2, SendAlone DEF ErasingThem, nextChecks
  <2>4. NoneLeft'
    BY <1>4, <2>1, ChecksErase DEF ChecksStep, Erases, ErasingThem, NoneLeft
  <2> QED BY <2>2, <2>3, <2>4 DEF WatchingThem, StageInv
<1> QED BY <1>1, <1>2, <1>3, <1>4 DEF Executor
-----------------------------------------------------------------------------
(* The streams. One is created in its turn only, a message is kept back only by a
   stream that reads, and the vector holds every stream that exists. *)

Quiet == \A s \in Streams : held[s] => stream[s] = "reading"
InVector ==
  \A s \in Streams : stream[s] \in {"reading", "done", "failed"} => Contains(Streamers, s)

\* What a step may do to a stream.
StreamStep(s) ==
  \/ /\ stream'[s] = stream[s] /\ sent'[s] = sent[s]
     /\ held'[s] => held[s] \/ stream[s] = "reading"
  \/ /\ stream[s] = "none" /\ stream'[s] = "reading" /\ sent'[s] = sent[s]
  \/ /\ stream[s] = "reading" /\ stream'[s] = "reading" /\ sent'[s] > sent[s]
  \/ /\ stream[s] = "reading" /\ stream'[s] = "done" /\ sent'[s] >= sent[s] /\ ~held'[s]
  \/ /\ stream[s] = "reading" /\ stream'[s] = "failed" /\ sent[s] = 0 /\ sent'[s] = 0
     /\ ~held'[s]
  \/ /\ stream[s] \notin {"none", "gone"} /\ stream'[s] = "gone" /\ ~held'[s]
     /\ sent'[s] >= sent[s]
     /\ stream[s] # "reading" => sent'[s] = sent[s]

\* The executor creates streams and erases those that are done.
LEMMA ExecutorStreams ==
  ASSUME TypeInv, StageInv, Quiet, Executor, NEW s \in Streams
  PROVE  StreamStep(s)
<1>0. /\ stream \in [Streams -> States] /\ sent \in [Streams -> Nat]
      /\ held \in [Streams -> BOOLEAN] /\ busy \in Places /\ sent[s] \in Nat
  BY DEF TypeInv, Types, StreamsOK, ControlOK
<1>u. UNCHANGED <<sent, held>>
  BY DEF Executor, ExecutorTask, getTopicNames, initStreams, performPeriodicChecks,
         checksFindNone, checksFindDone, endChecks, erase, checksThrow, applyStopTime,
         runExit, createStream, fail, streams
<1>1. CASE createStream /\ busy.next <= Len(Topics)
  <2>1. busy.next \in 1..(Len(Topics) + 1) /\ Len(Topics) \in Nat /\ busy.do = "creating"
    BY <1>0, <1>1, PlaceFacts, TopicFacts DEF createStream
  <2>2. busy.next \in 1..Len(Topics) /\ busy.next <= busy.next
    BY <1>1, <2>1
  <2>3. stream[Topics[busy.next]] = "none"
    BY <2>1, <2>2, PlaceFacts
    DEF StageInv, SettingUp, CreatingThem, WatchingThem, ErasingThem, HandlingError, GivenUp
  <2>4. stream' = [stream EXCEPT ![Topics[busy.next]] = "reading"]
    BY <1>1 DEF createStream
  <2> QED BY <1>0, <1>u, <2>3, <2>4 DEF StreamStep
<1>2. CASE \E ex : ChecksStep(ex)
  <2>1. stream'[s] = stream[s] \/ (stream[s] = "done" /\ stream'[s] = "gone")
    BY <1>2, ChecksErase DEF Erases
  <2>2. stream[s] = "done" => ~held[s]
    BY DEF Quiet
  <2> QED BY <1>0, <1>u, <2>1, <2>2 DEF StreamStep
<1>3. CASE UNCHANGED stream
  BY <1>0, <1>u, <1>3 DEF StreamStep
<1> QED BY <1>1, <1>2, <1>3, ExecutorSteps

\* The streams' own steps, and the end of the job.
LEMMA OtherStreams ==
  ASSUME TypeInv, Quiet, Others, NEW s \in Streams
  PROVE  StreamStep(s)
<1>0. /\ stream \in [Streams -> States] /\ sent \in [Streams -> Nat]
      /\ held \in [Streams -> BOOLEAN] /\ sent[s] \in Nat
      /\ held[s] => stream[s] = "reading"
  BY DEF TypeInv, Types, StreamsOK, Quiet
<1>h. \A r \in Streams : Held(r) \in Nat
  BY DEF Held
<1>1. CASE UNCHANGED <<stream, sent, held>>
  BY <1>0, <1>1 DEF StreamStep
<1>2. CASE HoldMessage
  <2>1. PICK r \in Streams : stream[r] = "reading" /\ held' = [held EXCEPT ![r] = TRUE]
    BY <1>2 DEF HoldMessage
  <2>2. UNCHANGED <<stream, sent>>
    BY <1>2 DEF HoldMessage
  <2> QED BY <1>0, <2>1, <2>2 DEF StreamStep
<1>3. CASE ReadMessage
  <2>1. PICK r \in Streams : /\ stream[r] = "reading" /\ addMessages(r, Held(r) + 1)
                             /\ held' = [held EXCEPT ![r] = FALSE]
    BY <1>3 DEF ReadMessage
  <2>2. Held(r) + 1 \in Nat /\ Held(r) + 1 > 0 /\ UNCHANGED stream
    BY <1>h, <1>3 DEF ReadMessage
  <2>3. sent'[r] = sent[r] + (Held(r) + 1) /\ \A q \in Streams : q # r => sent'[q] = sent[q]
    BY <2>1, <2>2, AddFacts
  <2>4. CASE s = r
    BY <1>0, <1>h, <2>1, <2>2, <2>3, <2>4 DEF StreamStep
  <2>5. CASE s # r
    BY <1>0, <2>1, <2>2, <2>3, <2>5 DEF StreamStep
  <2> QED BY <2>4, <2>5
<1>4. CASE SomeDone
  <2>1. PICK r \in Streams : /\ stream[r] = "reading" /\ addMessages(r, Held(r))
                             /\ stream' = [stream EXCEPT ![r] = "done"]
                             /\ held' = [held EXCEPT ![r] = FALSE]
    BY <1>4 DEF SomeDone, StreamDone
  <2>2. sent'[r] = sent[r] + Held(r) /\ \A q \in Streams : q # r => sent'[q] = sent[q]
    BY <1>h, <2>1, AddFacts
  <2>3. CASE s = r
    BY <1>0, <1>h, <2>1, <2>2, <2>3 DEF StreamStep
  <2>4. CASE s # r
    BY <1>0, <2>1, <2>2, <2>4 DEF StreamStep
  <2> QED BY <2>3, <2>4
<1>5. CASE StreamFails
  <2>1. PICK r \in Streams : /\ stream[r] = "reading" /\ sent[r] = 0 /\ ~held[r]
                             /\ stream' = [stream EXCEPT ![r] = "failed"]
    BY <1>5 DEF StreamFails
  <2>2. UNCHANGED <<sent, held>>
    BY <1>5 DEF StreamFails
  <2> QED BY <1>0, <2>1, <2>2 DEF StreamStep
<1>6. CASE destroyStreams
  <2>1. /\ stream'[s] = IF stream[s] = "none" THEN "none" ELSE "gone"
        /\ sent'[s] = sent[s] + Held(s) /\ held'[s] = FALSE
    BY <1>6 DEF destroyStreams
  <2>2. Held(s) \in Nat /\ (stream[s] # "reading" => Held(s) = 0)
    BY <1>0, <1>h DEF Held
  <2>3. sent[s] + Held(s) >= sent[s] /\ (Held(s) = 0 => sent[s] + Held(s) = sent[s])
    BY <1>0, <2>2
  <2> QED BY <1>0, <2>1, <2>2, <2>3 DEF StreamStep
<1>7. \/ UNCHANGED <<stream, sent, held>> \/ HoldMessage \/ ReadMessage \/ SomeDone
      \/ StreamFails \/ destroyStreams
  BY DEF Others, WriterThread, setStopTime, stopNow, Tick, Main, hasWritingStopped,
         stoppedNow, enterStop, leave, setToIdle, writeMetadata, joinExecutor, joinWriter,
         outer, streams, vars
<1> QED BY <1>1, <1>2, <1>3, <1>4, <1>5, <1>6, <1>7
\* So all streams take a step of the contract, and keep no message back at their end.
LEMMA QuietNext == TypeInv /\ StageInv /\ Quiet /\ [Next]_vars => Quiet'
<1> SUFFICES ASSUME TypeInv, StageInv, Quiet, [Next]_vars, NEW s \in Streams, held'[s]
             PROVE  stream'[s] = "reading"
  BY DEF Quiet
<1>1. StreamStep(s)
  BY StepOf, ExecutorStreams, OtherStreams
<1>2. held[s] => stream[s] = "reading"
  BY DEF Quiet
<1> QED BY <1>1, <1>2 DEF StreamStep

\* A stream leaves the vector with its destruction only.
LEMMA VectorNext == TypeInv /\ InVector /\ [Next]_vars => InVector'
<1> SUFFICES ASSUME TypeInv, InVector, [Next]_vars, NEW s \in Streams,
                    stream'[s] \in {"reading", "done", "failed"}
             PROVE  Contains(Streamers', s)
  BY DEF InVector
<1>0. stream \in [Streams -> States] /\ Streamers \in Seq(Pointers) /\ busy \in Places
  BY DEF TypeInv, Types, StreamsOK, ControlOK
<1>1. CASE Others
  <2>1. /\ Streamers' = Streamers /\ (stream[s] = "none" <=> stream'[s] = "none")
        /\ stream[s] = "gone" => stream'[s] = "gone"
    BY <1>1, OthersLeave
  <2>2. stream[s] \in {"reading", "done", "failed"}
    BY <1>0, <2>1 DEF States
  <2> QED BY <2>1, <2>2 DEF InVector
<1>2. CASE createStream /\ busy.next <= Len(Topics)
  <2>1. busy.next \in 1..(Len(Topics) + 1) /\ Len(Topics) \in Nat
    BY <1>0, <1>2, PlaceFacts, TopicFacts DEF createStream
  <2> DEFINE r == Topics[busy.next]
  <2>2. r \in Streams /\ r \in Pointers
    BY <1>2, <2>1, TopicFacts DEF Pointers
  <2>3. Streamers' = Append(Streamers, r) /\ stream' = [stream EXCEPT ![r] = "reading"]
    BY <1>2 DEF createStream
  <2> HIDE DEF r
  <2>4. /\ Len(Streamers') = Len(Streamers) + 1 /\ Len(Streamers) \in Nat
        /\ \A i \in 1..Len(Streamers) : Streamers'[i] = Streamers[i]
        /\ Streamers'[Len(Streamers) + 1] = r
    BY <1>0, <2>2, <2>3
  <2>5. CASE s = r
    <3>1. Len(Streamers) + 1 \in 1..Len(Streamers')
      BY <2>4
    <3> QED BY <2>4, <2>5, <3>1 DEF Contains
  <2>6. CASE s # r
    <3>1. Contains(Streamers, s)
      BY <1>0, <2>3, <2>6 DEF InVector
    <3>2. PICK i \in 1..Len(Streamers) : Streamers[i] = s
      BY <3>1 DEF Contains
    <3>3. i \in 1..Len(Streamers')
      BY <2>4
    <3> QED BY <2>4, <3>2, <3>3 DEF Contains
  <2> QED BY <2>5, <2>6
<1>3. CASE \E ex : ChecksStep(ex)
  BY <1>3, ChecksErase DEF Erases, InVector
<1>4. CASE UNCHANGED <<Streamers, stream>>
  BY <1>4 DEF InVector
<1> QED BY <1>1, <1>2, <1>3, <1>4, StepOf, ExecutorSteps

StreamInv == TypeInv /\ StageInv /\ Quiet /\ InVector

\* The invariant about the streams holds at first, and every step keeps it.
LEMMA StreamInvStep ==
  /\ Init => StreamInv
  /\ StreamInv /\ [Next]_vars => StreamInv'
<1>1. Init => Quiet /\ InVector
  BY DEF Init, Quiet, InVector
<1>2. Init => StreamInv
  BY <1>1, TypeInit, StageInit DEF StreamInv
<1>3. TypeInv /\ StageInv /\ [Next]_vars => StageInv'
  BY StepOf, StageExecutor, StageOthers
<1> QED BY <1>2, <1>3, TypeNext, QuietNext, VectorNext DEF StreamInv

(* Every stream is treated as it expects, for any number of streams: it is started
   once, hands over messages only between its start and its end, also if it is
   destroyed early, and is destroyed once. *)
THEOREM FollowsContract == Spec => StreamsFollowContract
<1>1. Init => Contract!Init
  <2> SUFFICES ASSUME Init PROVE Contract!Init
    OBVIOUS
  <2> QED BY DEF Init, Contract!Init
<1>2. StreamInv /\ [Next]_vars => [Contract!Next]_<<stream, sent>>
  <2> SUFFICES ASSUME StreamInv, [Next]_vars, NEW s \in Streams
               PROVE \/ Contract!Begin(s) \/ Contract!Queue(s) \/ Contract!Done(s)
                     \/ Contract!Fail(s) \/ Contract!Destroy(s)
                     \/ (Contract!SameStatus(s) /\ Contract!SameQueued(s))
    BY DEF Contract!Next
  <2>1. StreamStep(s)
    BY StepOf, ExecutorStreams, OtherStreams DEF StreamInv
  <2> QED BY <2>1
          DEF StreamStep, Contract!Begin, Contract!Queue, Contract!Done, Contract!Fail,
              Contract!Destroy, Contract!SameStatus, Contract!SameQueued, Contract!Becomes
<1> QED BY <1>1, <1>2, StreamInvStep, PTL DEF Spec, StreamsFollowContract, Contract!Spec
-----------------------------------------------------------------------------
(* The end of a job. *)

AllGone == \A s \in Streams : stream[s] = "gone"
NothingLate == \A s \in Streams : late[s] = 0
Leaving == {"metadata", "joining", "draining", "unwinding", "destroyed"}

\* Every message that was handed over is in the queue, written or late.
Balance == \A s \in Streams : sent[s] = queued[s] + written[s] + late[s]

\* The writer thread ends with an empty queue, and not before the job is stopped.
WriterEnds ==
  /\ writer.at = "ended" => \A s \in Streams : queued[s] = 0
  /\ ~NothingLate => writer.at = "ended"
  /\ writer.at \in {"final", "ended"} => ~writer.RunThread
  /\ ~writer.RunThread => controller.StopNow
  /\ phase \in Leaving => controller.StopNow
  /\ phase \in {"unwinding", "destroyed"} => writer.at = "ended"

\* Why the job was stopped, and what its outcome says.
JobEndsRight ==
  /\ ~controller.StreamersRemaining => controller.HasError \/ AllGone
  /\ controller.StopNow => commanded = "stopNow" \/ controller.HasError \/ outcome # "none"
  /\ phase = "done" =>
       controller.HasError \/ controller.StopNow \/ ~controller.StreamersRemaining
  /\ phase = "stopping" => commanded = "stopNow"
  /\ phase = "leaving" =>
       /\ outcome # "none"
       /\ controller.HasError \/ commanded = "stopNow" \/ ~controller.StreamersRemaining
  /\ phase \in {"running", "stopping", "done"} => outcome = "none"
  /\ EndedByItself => AllGone /\ NothingLate

\* What the executor does to the controller and to the writer thread.
LEMMA ExecutorEffects ==
  ASSUME StreamInv, Executor
  PROVE  /\ UNCHANGED <<sent, late, queued, written, outcome, commanded>>
         /\ writer'.at = writer.at /\ phase' \in {phase, "crashed"}
         /\ controller.HasError => controller'.HasError
         /\ controller.StopNow => controller'.StopNow
         /\ ~controller.StreamersRemaining => ~controller'.StreamersRemaining
         /\ controller'.StopNow => controller.StopNow \/ controller'.HasError
         /\ writer' = writer \/ (controller'.StopNow /\ ~writer'.RunThread)
         /\ ~controller'.StreamersRemaining =>
              ~controller.StreamersRemaining \/ controller'.HasError \/ AllGone'
<1>0. /\ controller \in Controllers /\ busy \in Places /\ stream \in [Streams -> States]
      /\ WriterOK /\ TypeInv /\ StageInv /\ InVector
  BY DEF TypeInv, Types, ControlOK, StreamInv, StreamsOK
<1>u. UNCHANGED <<sent, late, queued, written, outcome, commanded>>
  BY DEF Executor, ExecutorTask, getTopicNames, initStreams, performPeriodicChecks,
         checksFindNone, checksFindDone, endChecks, erase, checksThrow, applyStopTime,
         runExit, createStream, fail, streams, writing
<1>1. CASE UNCHANGED <<controller, writer, phase>>
  BY <1>u, <1>1
<1>2. CASE /\ controller' = [controller EXCEPT !.HasError = TRUE]
           /\ UNCHANGED <<writer, phase>>
  BY <1>0, <1>u, <1>2 DEF Controllers
<1>3. CASE \E ex, left : endChecks(ex, left) /\ NoneLeft
  <2>1. PICK ex, left : endChecks(ex, left) /\ NoneLeft
    BY <1>3
  <2> DEFINE r == controller.StreamersRemaining /\ left # << >>
             p == throttleIfWriteQueueIsFull(controller.StreamersPaused)
  <2>2. /\ controller' = [controller EXCEPT !.StreamersRemaining = r, !.StreamersPaused = p]
        /\ UNCHANGED <<writer, phase>>
    BY <2>1 DEF endChecks, writing
  <2>r. r \in BOOLEAN /\ (~r => ~controller.StreamersRemaining \/ left = << >>)
        /\ (~controller.StreamersRemaining => ~r)
    BY <1>0 DEF Controllers
  <2> HIDE DEF r, p
  <2>3. /\ controller'.StreamersRemaining = r
        /\ controller'.HasError = controller.HasError /\ controller'.StopNow = controller.StopNow
    BY <1>0, <2>2 DEF Controllers
  <2>4. left = << >> => AllGone'
    <3> SUFFICES ASSUME left = << >>, NEW s \in Streams PROVE stream'[s] = "gone"
      BY DEF AllGone
    <3>1. stream'[s] = IF Contains(Streamers, s) /\ ~Contains(left, s)
                       THEN "gone" ELSE stream[s]
      BY <2>1 DEF endChecks, ErasedFrom
    <3>2. ~Contains(left, s)
      BY DEF Contains
    <3>3. stream[s] # "gone" => Contains(Streamers, s)
      BY <1>0, <2>1 DEF NoneLeft, InVector, States
    <3> QED BY <3>1, <3>2, <3>3
  <2> QED BY <1>u, <2>2, <2>3, <2>r, <2>4
<1>4. CASE fail
  <2> DEFINE ctl == [controller EXCEPT !.StreamersRemaining = FALSE,
                       !.StreamersPaused = throttleIfWriteQueueIsFull(@)]
  <2>1. /\ ctl \in Controllers /\ ctl.HasError = controller.HasError
        /\ ~ctl.StreamersRemaining
    <3> DEFINE p == throttleIfWriteQueueIsFull(controller.StreamersPaused)
    <3>1. p \in BOOLEAN
      BY <1>0 DEF throttleIfWriteQueueIsFull, Controllers
    <3> HIDE DEF p
    <3>2. ctl = [controller EXCEPT !.StreamersRemaining = FALSE, !.StreamersPaused = p]
      BY DEF p
    <3> QED BY <1>0, <3>1, <3>2 DEF Controllers
  <2> HIDE DEF ctl
  <2>2. stopStreams(ctl, phase)
    BY <1>4 DEF fail, ctl
  <2>3. controller.HasError
    BY <1>0, <1>4, PlaceFacts
    DEF fail, StageInv, SettingUp, CreatingThem, WatchingThem, ErasingThem, HandlingError,
        GivenUp
  <2>4. \/ phase' = "crashed" /\ UNCHANGED <<controller, writer>>
        \/ /\ phase' = phase /\ controller' = [ctl EXCEPT !.StopNow = TRUE]
           /\ writer' = [writer EXCEPT !.RunThread = FALSE]
    BY <1>0, <2>1, <2>2, StopStreamsFacts
  <2>5. CASE phase' = "crashed" /\ UNCHANGED <<controller, writer>>
    BY <1>u, <2>5
  <2>6. CASE /\ phase' = phase /\ controller' = [ctl EXCEPT !.StopNow = TRUE]
             /\ writer' = [writer EXCEPT !.RunThread = FALSE]
    <3>1. controller'.HasError /\ controller'.StopNow /\ ~controller'.StreamersRemaining
      BY <2>1, <2>3, <2>6 DEF Controllers
    <3>2. writer'.at = writer.at /\ ~writer'.RunThread
      BY <1>0, <2>6 DEF WriterOK
    <3> QED BY <1>u, <2>6, <3>1, <3>2
  <2> QED BY <2>4, <2>5, <2>6
<1>5. CASE ExecutorTask
  <2>1. PICK slot \in Runnable(executor) :
          LET task == Task(executor, slot)
              ex   == Dequeue(executor, slot)
          IN  \/ task = GetTopicNames /\ getTopicNames(ex)
              \/ task = InitStreams /\ initStreams(ex)
              \/ task = Checks /\ performPeriodicChecks(ex)
              \/ task.do = "setStopTime" /\ applyStopTime(ex, task.stop)
              \/ task = Exit /\ runExit(ex)
    BY <1>5 DEF ExecutorTask
  <2> DEFINE task == Task(executor, slot)
             ex == Dequeue(executor, slot)
  <2>2. busy = Free /\ (task = Checks => WatchingThem)
    <3>0. GetTopicNames \in Setup /\ InitStreams \in Setup /\ Checks \in Setup
          /\ executor \in Executors(Owners, Tasks)
          /\ GetTopicNames # Checks /\ InitStreams # Checks
      BY <1>0, TaskFacts DEF Setup, TypeInv, Types, ControlOK
    <3>1. /\ Nobody(executor) => task # Checks
          /\ Alone(executor, GetTopicNames) => task # Checks
          /\ Alone(executor, InitStreams) => task # Checks
      BY <3>0, TakeAlone
    <3>2. busy = Free
      BY <1>5 DEF ExecutorTask
    <3> HIDE DEF task, ex
    <3> QED BY <1>0, <3>1, <3>2, PlaceFacts
            DEF StageInv, SettingUp, CreatingThem, ErasingThem, HandlingError, GivenUp
  <2> HIDE DEF task, ex
  <2>3. \/ UNCHANGED <<controller, writer, phase>>
        \/ controller' = [controller EXCEPT !.HasError = TRUE] /\ UNCHANGED <<writer, phase>>
        \/ endChecks(ex, Streamers) /\ NoneLeft
    BY <2>1, <2>2
    DEF getTopicNames, initStreams, performPeriodicChecks, checksThrow, HasErrorFirst,
        checksFindNone, checksFindDone, WatchingThem, applyStopTime, runExit, writing, task, ex
  <2> QED BY <1>1, <1>2, <1>3, <2>3
<1>6. CASE createStream
  BY <1>1, <1>6 DEF createStream, writing
<1>7. CASE erase
  <2>1. NoneLeft
    BY <1>0, <1>7, PlaceFacts
    DEF erase, StageInv, SettingUp, CreatingThem, WatchingThem, ErasingThem, HandlingError,
        GivenUp
  <2> QED BY <1>3, <1>7, <2>1 DEF erase
<1> QED BY <1>4, <1>5, <1>6, <1>7 DEF Executor
\* No message is lost or counted twice.
LEMMA BalanceNext == StreamInv /\ Balance /\ [Next]_vars => Balance'
<1> SUFFICES ASSUME StreamInv, Balance, [Next]_vars, NEW s \in Streams
             PROVE  sent'[s] = queued'[s] + written'[s] + late'[s]
  BY DEF Balance
<1>0. /\ sent \in [Streams -> Nat] /\ queued \in [Streams -> Nat] /\ TypeInv
      /\ written \in [Streams -> Nat] /\ late \in [Streams -> Nat]
      /\ sent[s] = queued[s] + written[s] + late[s]
  BY DEF StreamInv, TypeInv, Types, StreamsOK, WriterOK, Balance
<1>h. \A r \in Streams : Held(r) \in Nat /\ Held(r) + 1 \in Nat
  BY DEF Held
<1>1. CASE UNCHANGED <<sent, queued, written, late>>
  BY <1>0, <1>1
<1>2. CASE WriteMessage /\ UNCHANGED <<sent, late>>
  <2>1. PICK r \in Streams : /\ queued[r] > 0
                             /\ queued' = [queued EXCEPT ![r] = @ - 1]
                             /\ written' = [written EXCEPT ![r] = @ + 1]
    BY <1>2 DEF WriteMessage, Pending
  <2>2. CASE s = r
    BY <1>0, <1>2, <2>1, <2>2
  <2>3. CASE s # r
    BY <1>0, <1>2, <2>1, <2>3
  <2> QED BY <2>2, <2>3
<1>3. CASE (ReadMessage \/ SomeDone) /\ UNCHANGED written
  <2>1. PICK r \in Streams, n \in Nat : addMessages(r, n)
    BY <1>h, <1>3 DEF ReadMessage, SomeDone, StreamDone
  <2>2. /\ sent'[r] = sent[r] + n
        /\ \A q \in Streams : q # r =>
              sent'[q] = sent[q] /\ late'[q] = late[q] /\ queued'[q] = queued[q]
        /\ writer.at = "ended" => late'[r] = late[r] + n /\ queued' = queued
        /\ writer.at # "ended" => late' = late /\ queued'[r] = queued[r] + n
    BY <1>0, <2>1, AddFacts
  <2>3. CASE s = r
    BY <1>0, <1>3, <2>2, <2>3
  <2>4. CASE s # r
    BY <1>0, <1>3, <2>2, <2>4
  <2> QED BY <2>3, <2>4
<1>4. CASE destroyStreams
  <2>1. /\ sent'[s] = sent[s] + Held(s) /\ late'[s] = late[s] + Held(s)
        /\ UNCHANGED <<queued, written>>
    BY <1>4 DEF destroyStreams, writing
  <2> QED BY <1>0, <1>h, <2>1
<1>5. \/ UNCHANGED <<sent, queued, written, late>>
      \/ WriteMessage /\ UNCHANGED <<sent, late>>
      \/ (ReadMessage \/ SomeDone) /\ UNCHANGED written
      \/ destroyStreams
  <2>1. CASE Executor
    BY <2>1, ExecutorEffects
  <2>2. CASE WriterThread
    BY <2>2 DEF WriterThread, WriterLoop, WriteDone
  <2>3. CASE Others /\ ~WriterThread
    BY <2>3
    DEF Others, HoldMessage, ReadMessage, SomeDone, StreamDone, StreamFails, setStopTime, stopNow,
        Main, stoppedNow, enterStop, leave, hasWritingStopped, setToIdle, writeMetadata,
        joinExecutor, joinWriter, Tick, outer, streams, vars, writing
  <2> QED BY <2>1, <2>2, <2>3, StepOf
<1> QED BY <1>1, <1>2, <1>3, <1>4, <1>5

\* The writer thread ends as it should.
LEMMA WriterEndsNext == StreamInv /\ WriterEnds /\ [Next]_vars => WriterEnds'
<1> SUFFICES ASSUME StreamInv, WriterEnds, [Next]_vars PROVE WriterEnds'
  OBVIOUS
<1>0. /\ TypeInv /\ controller \in Controllers /\ StreamsOK /\ WriterOK
      /\ writer \in [RunThread : BOOLEAN,
                     at : {"loop", "write", "final", "ended"}]
  BY DEF StreamInv, TypeInv, Types, ControlOK, WriterOK
<1>h. \A r \in Streams : Held(r) \in Nat /\ Held(r) + 1 \in Nat
  BY DEF Held
<1>1. CASE Executor
  <2>1. /\ UNCHANGED <<late, queued>> /\ writer'.at = writer.at
        /\ phase' \in {phase, "crashed"}
        /\ controller.StopNow => controller'.StopNow
        /\ writer' = writer \/ (controller'.StopNow /\ ~writer'.RunThread)
    BY <1>1, ExecutorEffects
  <2>2. NothingLate' <=> NothingLate
    BY <2>1 DEF NothingLate
  <2> QED BY <2>1, <2>2 DEF WriterEnds, Leaving
<1>2. CASE WriterThread
  <2>1. UNCHANGED <<controller, phase, late>>
    BY <1>2 DEF WriterThread, control
  <2>2. NothingLate' <=> NothingLate
    BY <2>1 DEF NothingLate
  <2>3. writer'.RunThread = writer.RunThread /\ writer.at # "ended"
    BY <1>0, <1>2 DEF WriterThread, WriterLoop, WriteMessage, WriteDone, Goto
  <2>4. phase \notin {"unwinding", "destroyed"} /\ NothingLate
    BY <2>3 DEF WriterEnds
  <2>5. /\ writer'.at \in {"final", "ended"} => ~writer.RunThread
        /\ writer'.at = "ended" => \A s \in Streams : queued'[s] = 0
    <3>1. CASE WriterLoop
      BY <1>0, <3>1 DEF WriterLoop, Goto, LastPlace
    <3>2. CASE WriteMessage
      BY <2>3, <3>2 DEF WriteMessage, WriterEnds
    <3>3. CASE WriteDone
      <4>1. /\ UNCHANGED queued /\ \A s \in Streams : ~(queued[s] > 0)
            /\ writer.at \in {"write", "final"}
            /\ writer'.at = IF writer.at = "write" THEN "loop" ELSE "ended"
        BY <1>0, <3>3 DEF WriteDone, Goto, Pending
      <4>2. \A s \in Streams : queued'[s] = 0
        BY <1>0, <4>1 DEF WriterOK
      <4> QED BY <4>1, <4>2 DEF WriterEnds
    <3> QED BY <1>2, <3>1, <3>2, <3>3 DEF WriterThread
  <2> QED BY <2>1, <2>2, <2>3, <2>4, <2>5 DEF WriterEnds
<1>3. CASE ReadMessage \/ SomeDone
  <2>1. PICK r \in Streams, n \in Nat : addMessages(r, n)
    BY <1>h, <1>3 DEF ReadMessage, SomeDone, StreamDone
  <2>2. /\ writer.at = "ended" => queued' = queued
        /\ writer.at # "ended" => late' = late
    BY <1>0, <2>1, AddFacts
  <2>3. UNCHANGED <<controller, phase, writer>>
    BY <1>3 DEF ReadMessage, SomeDone, StreamDone, control, writing
  <2> QED BY <2>2, <2>3 DEF WriterEnds, NothingLate
<1>4. CASE destroyStreams
  <2>1. phase = "unwinding" /\ phase' = "destroyed" /\ UNCHANGED <<controller, writer, queued>>
    BY <1>4 DEF destroyStreams, control, writing
  <2> QED BY <2>1 DEF WriterEnds, Leaving
<1>9. CASE stopNow \/ setToIdle
  <2>1. /\ phase' \in {"stopping", "leaving"} /\ UNCHANGED <<controller, writer, late, queued>>
    BY <1>9 DEF stopNow, setToIdle, enterStop, streams
  <2> QED BY <2>1 DEF WriterEnds, NothingLate, Leaving
<1>5. CASE stoppedNow \/ leave
  <2>1. PICK ctl \in Controllers, next \in {"running", "metadata"} :
            stopStreams(ctl, next) /\ UNCHANGED streams
    <3>1. now \in Stamps
      BY <1>0 DEF TypeInv, Types, MainOK, Stamps
    <3>2. setStopTimestamp(controller, now) \in Controllers
      BY <1>0, <3>1, ControllerFacts
    <3> QED BY <1>0, <1>5, <3>2 DEF stoppedNow, leave, outer
  <2>2. \/ phase' = "crashed" /\ UNCHANGED <<controller, writer>>
        \/ /\ phase' = next /\ controller' = [ctl EXCEPT !.StopNow = TRUE]
           /\ writer' = [writer EXCEPT !.RunThread = FALSE]
    BY <1>0, <2>1, StopStreamsFacts
  <2>3. UNCHANGED <<late, queued>> /\ (NothingLate' <=> NothingLate)
    BY <2>1 DEF streams, NothingLate
  <2>4. CASE phase' = "crashed" /\ UNCHANGED <<controller, writer>>
    BY <2>3, <2>4 DEF WriterEnds, Leaving
  <2>5. CASE /\ phase' = next /\ controller' = [ctl EXCEPT !.StopNow = TRUE]
             /\ writer' = [writer EXCEPT !.RunThread = FALSE]
    <3>1. controller'.StopNow
      BY <2>5 DEF Controllers
    <3>2. writer'.at = writer.at /\ ~writer'.RunThread
      BY <1>0, <2>5
    <3> QED BY <2>3, <2>5, <3>1, <3>2 DEF WriterEnds
  <2> QED BY <2>2, <2>4, <2>5
<1>6. CASE setStopTime
  <2>1. /\ controller'.StopNow = controller.StopNow
        /\ UNCHANGED <<phase, writer, late, queued>>
    BY <1>0, <1>6 DEF setStopTime, setStopTimestamp, outer, streams, Controllers
  <2> QED BY <2>1 DEF WriterEnds, NothingLate
<1>7. CASE hasWritingStopped \/ writeMetadata \/ joinExecutor \/ joinWriter
  <2>1. /\ UNCHANGED <<controller, late, queued>>
        /\ phase' \in {"done", "joining", "draining", "unwinding"}
        /\ phase' # "done" => phase \in Leaving
        /\ phase' = "unwinding" => writer.at = "ended"
        /\ \/ writer' = writer
           \/ writer' = [writer EXCEPT !.RunThread = FALSE] /\ phase \in Leaving
    BY <1>7
    DEF hasWritingStopped, writeMetadata, joinExecutor, joinWriter, outer, streams,
        stopWriter, Leaving
  <2>2. writer'.at = writer.at /\ (~writer'.RunThread => ~writer.RunThread \/ phase \in Leaving)
        /\ (~writer.RunThread => ~writer'.RunThread)
    BY <1>0, <2>1
  <2> QED BY <2>1, <2>2 DEF WriterEnds, NothingLate, Leaving
<1>8. CASE HoldMessage \/ StreamFails \/ Tick \/ UNCHANGED vars
  <2>1. UNCHANGED <<controller, phase, writer, late, queued>>
    BY <1>8 DEF HoldMessage, StreamFails, Tick, control, writing, streams, vars
  <2> QED BY <2>1 DEF WriterEnds, NothingLate
<1> QED BY <1>1, <1>2, <1>3, <1>4, <1>5, <1>6, <1>7, <1>8, <1>9, StepOf DEF Others, Main

\* A job ends for a reason, and its outcome is what it was.
LEMMA JobEndsNext ==
  StreamInv /\ WriterEnds /\ JobEndsRight /\ [Next]_vars => JobEndsRight'
<1> SUFFICES ASSUME StreamInv, WriterEnds, JobEndsRight, [Next]_vars PROVE JobEndsRight'
  OBVIOUS
<1>0. /\ TypeInv /\ controller \in Controllers /\ StageInv /\ Quiet /\ StreamsOK
      /\ late \in [Streams -> Nat] /\ stream \in [Streams -> States]
  BY DEF StreamInv, TypeInv, Types, ControlOK, StreamsOK
<1>g. AllGone => AllGone'
  <2> SUFFICES ASSUME AllGone, NEW s \in Streams PROVE stream'[s] = "gone"
    BY DEF AllGone
  <2>1. StreamStep(s) /\ stream[s] = "gone"
    BY <1>0, StepOf, ExecutorStreams, OtherStreams DEF AllGone
  <2> QED BY <2>1 DEF StreamStep
<1>1. CASE Executor
  <2>1. /\ UNCHANGED <<late, outcome, commanded>> /\ phase' \in {phase, "crashed"}
        /\ controller.HasError => controller'.HasError
        /\ controller.StopNow => controller'.StopNow
        /\ ~controller.StreamersRemaining => ~controller'.StreamersRemaining
        /\ controller'.StopNow => controller.StopNow \/ controller'.HasError
        /\ ~controller'.StreamersRemaining =>
              ~controller.StreamersRemaining \/ controller'.HasError \/ AllGone'
    BY <1>1, ExecutorEffects
  <2>2. NothingLate => NothingLate'
    BY <2>1 DEF NothingLate
  <2> QED BY <1>g, <2>1, <2>2 DEF JobEndsRight, EndedByItself
<1>2. CASE \/ WriterThread \/ HoldMessage \/ ReadMessage \/ SomeDone \/ StreamFails
           \/ Tick \/ UNCHANGED vars
  <2>1. UNCHANGED <<controller, phase, outcome, commanded>>
    BY <1>2
    DEF WriterThread, HoldMessage, ReadMessage, SomeDone, StreamDone, StreamFails, Tick, control, vars
  <2>2. AllGone => UNCHANGED late
    <3>1. CASE ReadMessage \/ SomeDone
      BY <3>1 DEF ReadMessage, SomeDone, StreamDone, AllGone
    <3>2. CASE ~(ReadMessage \/ SomeDone)
      BY <1>2, <3>2 DEF WriterThread, HoldMessage, StreamFails, Tick, streams, vars
    <3> QED BY <3>1, <3>2
  <2>3. AllGone /\ NothingLate => NothingLate'
    BY <2>2 DEF NothingLate
  <2> QED BY <1>g, <2>1, <2>3 DEF JobEndsRight, EndedByItself
<1>3. CASE setStopTime
  <2>1. /\ controller'.StopNow = controller.StopNow
        /\ controller'.HasError = controller.HasError
        /\ controller'.StreamersRemaining = controller.StreamersRemaining
        /\ phase = "running" /\ commanded # "stopNow"
        /\ UNCHANGED <<phase, outcome, stream, late>>
    BY <1>0, <1>3 DEF setStopTime, setStopTimestamp, outer, streams, Controllers
  <2> QED BY <1>g, <2>1 DEF JobEndsRight, EndedByItself
<1>4. CASE stoppedNow
  <2> DEFINE ctl == setStopTimestamp(controller, now)
  <2>1. /\ ctl \in Controllers /\ ctl.HasError = controller.HasError
        /\ ctl.StreamersRemaining = controller.StreamersRemaining
    <3>1. now \in Stamps
      BY <1>0 DEF TypeInv, Types, MainOK, Stamps
    <3> QED BY <1>0, <3>1 DEF setStopTimestamp, Controllers
  <2> HIDE DEF ctl
  <2>2. /\ stopStreams(ctl, "running") /\ commanded' = commanded /\ UNCHANGED outcome
        /\ phase = "stopping"
    BY <1>4 DEF stoppedNow, ctl, outer
  <2>3. \/ phase' = "crashed" /\ UNCHANGED <<controller, writer>>
        \/ phase' = "running" /\ controller' = [ctl EXCEPT !.StopNow = TRUE]
    BY <1>0, <2>1, <2>2, StopStreamsFacts
  <2>4. /\ controller'.HasError = controller.HasError
        /\ controller'.StreamersRemaining = controller.StreamersRemaining
        /\ phase' \in {"running", "crashed"}
    BY <2>1, <2>2, <2>3 DEF Controllers
  <2> QED BY <1>g, <2>2, <2>4 DEF JobEndsRight, EndedByItself
<1>8. CASE stopNow
  <2>1. /\ phase = "running" /\ phase' = "stopping" /\ commanded' = "stopNow"
        /\ UNCHANGED <<controller, outcome, late>>
    BY <1>8 DEF stopNow, enterStop, streams
  <2> QED BY <1>g, <2>1 DEF JobEndsRight, EndedByItself, NothingLate
<1>5. CASE setToIdle
  <2>1. /\ phase = "done" /\ phase' = "leaving" /\ UNCHANGED <<late, commanded, controller>>
        /\ outcome' = IF controller.HasError THEN "Failure" ELSE "Success"
    BY <1>5 DEF setToIdle, enterStop, streams
  <2>4. EndedByItself' => ~controller.HasError /\ commanded # "stopNow"
    BY <2>1 DEF EndedByItself
  <2>5. EndedByItself' => AllGone /\ ~controller.StopNow
    BY <2>1, <2>4 DEF JobEndsRight
  <2>6. EndedByItself' => AllGone' /\ NothingLate'
    BY <1>g, <2>1, <2>5 DEF WriterEnds, NothingLate
  <2> QED BY <1>g, <2>1, <2>6 DEF JobEndsRight
<1>9. CASE leave
  <2>1. /\ stopStreams(controller, "metadata") /\ phase = "leaving"
        /\ UNCHANGED <<late, commanded, outcome>>
    BY <1>9 DEF leave, outer, streams
  <2>2. \/ phase' = "crashed" /\ UNCHANGED <<controller, writer>>
        \/ phase' = "metadata" /\ controller' = [controller EXCEPT !.StopNow = TRUE]
    BY <1>0, <2>1, StopStreamsFacts
  <2>3. /\ controller'.HasError = controller.HasError
        /\ controller'.StreamersRemaining = controller.StreamersRemaining
        /\ phase' \in {"metadata", "crashed"}
    BY <1>0, <2>1, <2>2 DEF Controllers
  <2> QED BY <1>g, <2>1, <2>3 DEF JobEndsRight, EndedByItself, NothingLate
<1>6. CASE hasWritingStopped \/ writeMetadata \/ joinExecutor \/ joinWriter
  <2>1. /\ UNCHANGED <<controller, outcome, commanded, stream, late>>
        /\ phase' = "done" => phase = "running" /\ isDoneWriting
        /\ phase' \notin {"running", "stopping", "leaving"}
    BY <1>6 DEF hasWritingStopped, writeMetadata, joinExecutor, joinWriter, outer, streams
  <2>2. isDoneWriting => controller.HasError \/ controller.StopNow
                           \/ ~controller.StreamersRemaining
    BY DEF isDoneWriting
  <2> QED BY <1>g, <2>1, <2>2 DEF JobEndsRight, EndedByItself, NothingLate
<1>7. CASE destroyStreams
  <2>1. /\ UNCHANGED <<controller, outcome, commanded>> /\ phase' = "destroyed"
        /\ \A s \in Streams : late'[s] = late[s] + Held(s)
    BY <1>7 DEF destroyStreams, control
  <2>2. AllGone /\ NothingLate => NothingLate'
    <3> SUFFICES ASSUME AllGone, NothingLate, NEW s \in Streams PROVE late'[s] = 0
      BY DEF NothingLate
    <3>1. ~held[s] /\ late[s] = 0
      BY <1>0 DEF AllGone, Quiet, NothingLate
    <3> QED BY <2>1, <3>1 DEF Held
  <2> QED BY <1>g, <2>1, <2>2 DEF JobEndsRight, EndedByItself
<1> QED BY <1>1, <1>2, <1>3, <1>4, <1>5, <1>6, <1>7, <1>8, <1>9, StepOf DEF Others, Main

(* When no streams remain and there is no error the vector is empty for good: only
   the checks are left of the tasks that could change it. *)
VectorDone == Streamers = << >> /\ busy = Free /\ Alone(executor, Checks)
EmptyForGood == ~controller.StreamersRemaining => controller.HasError \/ VectorDone

\* The executor empties the vector, and has nothing to do with it then.
LEMMA EmptyExecutor == StreamInv /\ EmptyForGood /\ Executor => EmptyForGood'
<1> SUFFICES ASSUME StreamInv, EmptyForGood, Executor, ~controller'.StreamersRemaining,
                    ~controller'.HasError
             PROVE  VectorDone'
  BY DEF EmptyForGood
<1>0. /\ executor \in Executors(Owners, Tasks) /\ "self" \in Owners /\ TypeInv /\ StageInv
      /\ controller \in Controllers
  BY DEF StreamInv, TypeInv, Types, ControlOK, Owners
<1>s. /\ GetTopicNames \in Setup /\ InitStreams \in Setup /\ Checks \in Setup
      /\ Checks \in Tasks /\ GetTopicNames # Checks /\ InitStreams # Checks
  BY TaskFacts DEF Setup
<1>h. ~controller.HasError
  BY ExecutorEffects
<1>e. ASSUME NEW ex \in Executors(Owners, Tasks), NEW left, endChecks(ex, left), Nobody(ex),
             ~controller.StreamersRemaining => left = << >>
      PROVE  VectorDone'
  <2> DEFINE r == controller.StreamersRemaining /\ left # << >>
             p == throttleIfWriteQueueIsFull(controller.StreamersPaused)
  <2>1. /\ controller' = [controller EXCEPT !.StreamersRemaining = r, !.StreamersPaused = p]
        /\ Streamers' = left /\ busy' = Free
        /\ executor' = sendLowPriorityWork(ex, "self", Checks)
    BY <1>e DEF endChecks, nextChecks
  <2>r. ~r => left = << >>
    BY <1>e
  <2> HIDE DEF r, p
  <2>2. controller'.StreamersRemaining = r
    BY <1>0, <2>1 DEF Controllers
  <2>3. Alone(executor', Checks)
    BY <1>0, <1>s, <1>e, <2>1, SendAlone
  <2> QED BY <2>1, <2>r, <2>2, <2>3 DEF VectorDone
<1>1. CASE ExecutorTask
  <2>1. PICK slot \in Runnable(executor) :
          LET task == Task(executor, slot)
              ex   == Dequeue(executor, slot)
          IN  \/ task = GetTopicNames /\ getTopicNames(ex)
              \/ task = InitStreams /\ initStreams(ex)
              \/ task = Checks /\ performPeriodicChecks(ex)
              \/ task.do = "setStopTime" /\ applyStopTime(ex, task.stop)
              \/ task = Exit /\ runExit(ex)
    BY <1>1 DEF ExecutorTask
  <2> DEFINE task == Task(executor, slot)
             ex == Dequeue(executor, slot)
  <2>2. ex \in Executors(Owners, Tasks) /\ task \in Tasks
    BY <1>0, TakenTask
  <2>3. /\ Nobody(executor) => task # Checks
        /\ \A x \in Setup : Alone(executor, x) /\ task \in Setup => task = x /\ Nobody(ex)
        /\ \A x \in Setup : Alone(executor, x) /\ task \notin Setup => Alone(ex, x)
    BY <1>0, <1>s, TakeAlone
  <2>4. busy = Free /\ (SettingUp \/ WatchingThem)
    BY <1>0, <1>1, <1>h, PlaceFacts
    DEF ExecutorTask, StageInv, CreatingThem, ErasingThem, HandlingError, GivenUp
  <2> HIDE DEF task, ex
  <2>5. CASE task = Checks /\ performPeriodicChecks(ex)
    <3>1. Nobody(ex)
      BY <1>s, <2>3, <2>4, <2>5 DEF SettingUp, WatchingThem
    <3>2. CASE checksFindNone(ex)
      <4>1. endChecks(ex, Streamers) /\ (~controller.StreamersRemaining => Streamers = << >>)
        BY <1>h, <3>2 DEF checksFindNone, EmptyForGood, VectorDone
      <4> QED BY <1>e, <2>2, <3>1, <4>1
    <3>3. CASE checksFindDone(ex)
      <4>1. ~controller.StreamersRemaining /\ Streamers = << >>
        BY <1>h, <3>3 DEF checksFindDone, EmptyForGood, VectorDone
      <4>2. 0 \in 0..Len(Streamers) /\ Len(Streamers) = 0
        BY <4>1
      <4>3. Len(KeptOf(0)) \in 0..0
        BY <1>0, <4>2, MovedFacts
      <4>4. Len(KeptOf(0)) < 0
        BY <3>3, <4>2 DEF checksFindDone
      <4> QED BY <4>3, <4>4
    <3>4. CASE checksThrow(ex)
      <4>1. controller'.HasError
        BY <1>0, <3>4 DEF checksThrow, HasErrorFirst, Controllers
      <4> QED BY <4>1
    <3> QED BY <2>5, <3>2, <3>3, <3>4 DEF performPeriodicChecks
  <2>6. CASE task # Checks /\ UNCHANGED controller
    <3>1. VectorDone
      BY <1>h, <2>6 DEF EmptyForGood
    <3>2. task \notin Setup /\ Alone(ex, Checks)
      BY <1>s, <2>3, <2>6, <3>1 DEF VectorDone
    <3>3. \/ task.do = "setStopTime" /\ applyStopTime(ex, task.stop)
          \/ task = Exit /\ runExit(ex)
      BY <2>1, <2>6, <3>2, <1>s DEF task, ex
    <3>4. UNCHANGED <<Streamers, busy>> /\ executor' \in {ex, StopThread(ex)}
      BY <3>3 DEF applyStopTime, runExit
    <3> QED BY <2>2, <3>1, <3>2, <3>4, StopAlone DEF VectorDone
  <2>7. CASE task = InitStreams /\ controller' = [controller EXCEPT !.HasError = TRUE]
    <3>1. controller'.HasError
      BY <1>0, <2>7 DEF Controllers
    <3> QED BY <3>1
  <2>8. task # Checks => UNCHANGED controller
          \/ (task = InitStreams /\ controller' = [controller EXCEPT !.HasError = TRUE])
    BY <2>1 DEF getTopicNames, initStreams, applyStopTime, runExit, task, ex
  <2>9. task = Checks => performPeriodicChecks(ex)
    BY <2>1, TaskFacts DEF task, ex
  <2> QED BY <2>5, <2>6, <2>7, <2>8, <2>9
<1>2. CASE createStream
  <2>1. UNCHANGED controller
    BY <1>2 DEF createStream
  <2>2. busy = Free
    BY <1>h, <2>1 DEF EmptyForGood, VectorDone
  <2> QED BY <1>2, <2>2, PlaceFacts DEF createStream
<1>3. CASE fail
  BY <1>0, <1>3, <1>h, PlaceFacts
  DEF fail, StageInv, SettingUp, CreatingThem, WatchingThem, ErasingThem, HandlingError, GivenUp
<1>4. CASE erase
  <2>1. Nobody(executor) /\ busy.do = "erasing"
    BY <1>0, <1>4, PlaceFacts
    DEF erase, StageInv, SettingUp, CreatingThem, WatchingThem, ErasingThem, HandlingError,
        GivenUp
  <2>2. controller.StreamersRemaining
    BY <1>h, <2>1, PlaceFacts DEF EmptyForGood, VectorDone
  <2> QED BY <1>0, <1>4, <1>e, <2>1, <2>2 DEF erase
<1> QED BY <1>1, <1>2, <1>3, <1>4 DEF Executor

\* The other threads leave it so.
LEMMA EmptyOthers == StreamInv /\ EmptyForGood /\ Others => EmptyForGood'
<1> SUFFICES ASSUME StreamInv, EmptyForGood, Others PROVE EmptyForGood'
  OBVIOUS
<1>0. /\ TypeInv /\ executor \in Executors(Owners, Tasks) /\ "main" \in Owners
      /\ Checks \in Setup /\ controller \in Controllers /\ now \in Stamps
  BY DEF StreamInv, TypeInv, Types, ControlOK, MainOK, Owners, Setup, Stamps
<1>1. /\ busy' = busy /\ Streamers' = Streamers /\ controller'.HasError = controller.HasError
      /\ \/ executor' = executor
         \/ \E x \in Tasks \ Setup : executor' = sendWork(executor, "main", x)
  BY <1>0, OthersLeave
<1>2. VectorDone => VectorDone'
  BY <1>0, <1>1, SendAlone DEF VectorDone
<1>c. ASSUME NEW ctl \in Controllers, NEW next, stopStreams(ctl, next),
             ctl.StreamersRemaining = controller.StreamersRemaining
      PROVE  controller'.StreamersRemaining = controller.StreamersRemaining
  BY <1>c DEF stopStreams, Controllers
<1>3. controller'.StreamersRemaining = controller.StreamersRemaining
  <2>1. CASE stoppedNow \/ leave
    <3>1. /\ setStopTimestamp(controller, now) \in Controllers
          /\ setStopTimestamp(controller, now).StreamersRemaining = controller.StreamersRemaining
      BY <1>0 DEF setStopTimestamp, Controllers
    <3> QED BY <1>0, <1>c, <2>1, <3>1 DEF stoppedNow, leave
  <2>2. CASE setStopTime
    BY <1>0, <2>2 DEF setStopTime, setStopTimestamp, Controllers
  <2>3. CASE Others /\ ~setStopTime /\ ~stoppedNow /\ ~leave
    BY <2>3
    DEF Others, WriterThread, HoldMessage, ReadMessage, SomeDone, StreamDone, StreamFails,
        stopNow, Main, enterStop, hasWritingStopped, setToIdle, writeMetadata, joinExecutor,
        joinWriter, destroyStreams, Tick, control, vars
  <2> QED BY <2>1, <2>2, <2>3
<1> QED BY <1>1, <1>2, <1>3 DEF EmptyForGood

(* So the main thread does not meet the executor in the vector, unless it stops the
   job at once or there was an error. *)
LEMMA RaceNext ==
  StreamInv /\ EmptyForGood /\ JobEndsRight /\ NoRaceAtTheEnd /\ [Next]_vars
    => NoRaceAtTheEnd'
<1> SUFFICES ASSUME StreamInv, EmptyForGood, JobEndsRight, NoRaceAtTheEnd, [Next]_vars,
                    raced', commanded' # "stopNow", ~controller'.HasError
             PROVE  FALSE
  BY DEF NoRaceAtTheEnd
<1>0. TypeInv /\ StageInv
  BY DEF StreamInv
<1>1. CASE Executor
  <2>1. commanded # "stopNow" /\ ~controller.HasError /\ UNCHANGED commanded
    BY <1>1, ExecutorEffects
  <2>2. Walking /\ Streamers' # Streamers
    BY <1>1, <2>1 DEF Executor, NoRaceAtTheEnd
  <2>3. ~controller.StreamersRemaining
    BY <2>1, <2>2 DEF Walking, JobEndsRight
  <2>4. Streamers = << >>
    BY <2>1, <2>3 DEF EmptyForGood, VectorDone
  <2>5. ~controller'.StreamersRemaining
    BY <1>1, <2>3, ExecutorEffects
  <2>6. EmptyForGood'
    BY <1>1, EmptyExecutor
  <2>7. Streamers' = << >>
    BY <2>5, <2>6 DEF EmptyForGood, VectorDone
  <2> QED BY <2>2, <2>4, <2>7
<1>2. CASE stopNow
  BY <1>2 DEF stopNow
<1>3. CASE setToIdle
  <2>1. /\ phase = "done" /\ UNCHANGED <<controller, commanded>>
        /\ raced \/ busy.do = "erasing"
    BY <1>3 DEF setToIdle, enterStop
  <2>2. busy.do = "erasing"
    BY <2>1 DEF NoRaceAtTheEnd
  <2>3. ~controller.StreamersRemaining
    BY <2>1 DEF JobEndsRight
  <2> QED BY <2>1, <2>2, <2>3, PlaceFacts DEF EmptyForGood, VectorDone
<1>4. CASE Others /\ ~stopNow /\ ~setToIdle
  <2>1. UNCHANGED raced /\ commanded' \in {commanded, "setStopTime"}
        /\ (commanded' # commanded => commanded = "nothing")
    BY <1>4
    DEF Others, WriterThread, HoldMessage, ReadMessage, SomeDone, StreamDone, StreamFails,
        setStopTime, Main, stoppedNow, leave, hasWritingStopped, writeMetadata, joinExecutor,
        joinWriter, destroyStreams, Tick, vars
  <2>2. controller'.HasError = controller.HasError
    BY <1>0, <1>4, OthersLeave
  <2> QED BY <2>1, <2>2 DEF NoRaceAtTheEnd
<1> QED BY <1>1, <1>2, <1>3, <1>4, StepOf

(* A job that is reported as a success and was not stopped by a command is
   complete: all of its streams were read to their end, none had an error,
   everything they handed over is written before the file is closed, and the
   destructor never met the executor in the vector of streams. *)
THEOREM SuccessCorrect == Spec => []SuccessIsComplete
<1> DEFINE Inv == /\ StreamInv /\ Balance /\ WriterEnds /\ JobEndsRight
                  /\ EmptyForGood /\ NoRaceAtTheEnd
<1>1. Init => Inv
  <2> SUFFICES ASSUME Init
               PROVE  /\ Balance /\ WriterEnds /\ JobEndsRight
                      /\ EmptyForGood /\ NoRaceAtTheEnd
    BY StreamInvStep
  <2>1. Balance /\ NothingLate
    BY DEF Init, Balance, NothingLate
  <2>2. /\ controller.StreamersRemaining /\ ~controller.StopNow /\ phase = "running"
        /\ writer.RunThread /\ writer.at = "loop" /\ outcome = "none" /\ ~raced
    BY DEF Init
  <2> QED BY <2>1, <2>2
          DEF WriterEnds, JobEndsRight, EndedByItself, Leaving, EmptyForGood, NoRaceAtTheEnd
<1>2. Inv /\ [Next]_vars => Inv'
  <2>1. StreamInv /\ EmptyForGood /\ [Next]_vars => EmptyForGood'
    BY EmptyExecutor, EmptyOthers, StepOf
  <2> QED BY <2>1, StreamInvStep, BalanceNext, WriterEndsNext, JobEndsNext, RaceNext
<1>3. Inv => SuccessIsComplete
  <2> SUFFICES ASSUME Inv, EndedByItself, NEW s \in Streams
               PROVE  /\ stream[s] # "failed"
                      /\ phase = "destroyed" =>
                           stream[s] = "gone" /\ written[s] = sent[s] /\ late[s] = 0
    BY DEF SuccessIsComplete, CompleteWhenEnded, ErrorsAreReported, NoRaceAtTheEnd
  <2>1. stream[s] = "gone" /\ late[s] = 0
    BY DEF JobEndsRight, AllGone, NothingLate
  <2>2. phase = "destroyed" => queued[s] = 0
    BY DEF WriterEnds
  <2>3. sent[s] = queued[s] + written[s] + late[s] /\ written[s] \in Nat
    BY DEF Balance, StreamInv, TypeInv, Types, WriterOK
  <2> QED BY <2>1, <2>2, <2>3
<1> QED BY <1>1, <1>2, <1>3, PTL DEF Spec

-----------------------------------------------------------------------------
(* Stop times. A new one is on its way to the streams in a task that only the main
   thread sends; the last of these tasks has the stop time of the controller. *)

IsStop(task) == task.do = "setStopTime"
NoStop(q) == \A i \in 1..Len(q) : ~IsStop(q[i])
LastStop(q, t) ==
  \A i \in 1..Len(q) :
    IsStop(q[i]) /\ (\A j \in 1..Len(q) : j > i => ~IsStop(q[j])) => q[i].stop = t

\* A task at the end of a queue: a stop time is the last one then.
LEMMA StopPut ==
  ASSUME NEW q \in Seq(Tasks), NEW x \in Tasks, NEW t
  PROVE  /\ NoStop(Append(q, x)) => NoStop(q) /\ ~IsStop(x)
         /\ NoStop(q) /\ ~IsStop(x) => NoStop(Append(q, x))
         /\ LastStop(q, t) /\ ~IsStop(x) => LastStop(Append(q, x), t)
         /\ IsStop(x) => LastStop(Append(q, x), x.stop)
<1> DEFINE a == Append(q, x)
           n == Len(q)
<1>1. /\ n \in Nat /\ Len(a) = n + 1 /\ a[n + 1] = x
      /\ \A i \in 1..n : a[i] = q[i]
  OBVIOUS
<1>2. /\ n + 1 \in 1..Len(a) /\ \A i \in 1..n : i \in 1..Len(a) /\ n + 1 > i
      /\ \A i \in 1..Len(a) : i \in 1..n \/ i = n + 1
      /\ \A i \in 1..Len(a) : ~(i > n + 1)
  BY <1>1
<1> HIDE DEF a
<1>3. NoStop(a) => NoStop(q) /\ ~IsStop(x)
  BY <1>1, <1>2 DEF NoStop
<1>4. NoStop(q) /\ ~IsStop(x) => NoStop(a)
  BY <1>1, <1>2 DEF NoStop
<1>5. ASSUME LastStop(q, t), ~IsStop(x) PROVE LastStop(a, t)
  <2> SUFFICES ASSUME NEW i \in 1..Len(a), IsStop(a[i]),
                      \A j \in 1..Len(a) : j > i => ~IsStop(a[j])
               PROVE  a[i].stop = t
    BY DEF LastStop
  <2>1. i \in 1..n
    BY <1>1, <1>2, <1>5
  <2>2. \A j \in 1..n : j > i => ~IsStop(q[j])
    BY <1>1, <1>2
  <2> QED BY <1>1, <1>5, <2>1, <2>2 DEF LastStop
<1>6. ASSUME IsStop(x) PROVE LastStop(a, x.stop)
  <2> SUFFICES ASSUME NEW i \in 1..Len(a), IsStop(a[i]),
                      \A j \in 1..Len(a) : j > i => ~IsStop(a[j])
               PROVE  a[i].stop = x.stop
    BY DEF LastStop
  <2>1. ~(i \in 1..n)
    BY <1>1, <1>2, <1>6
  <2> QED BY <1>1, <1>2, <2>1
<1> QED BY <1>3, <1>4, <1>5, <1>6 DEF a

\* A task that is taken: the stop time it had was the last one if none is left.
LEMMA StopTaken ==
  ASSUME NEW q \in Seq(Tasks), q # << >>, NEW t
  PROVE  /\ LastStop(q, t) => LastStop(Tail(q), t)
         /\ NoStop(q) => NoStop(Tail(q)) /\ ~IsStop(Head(q))
         /\ NoStop(Tail(q)) /\ ~IsStop(Head(q)) => NoStop(q)
         /\ NoStop(Tail(q)) /\ IsStop(Head(q)) /\ LastStop(q, t) => Head(q).stop = t
<1> DEFINE r == Tail(q)
           n == Len(q)
<1>1. /\ n \in Nat \ {0} /\ Len(r) = n - 1 /\ Head(q) = q[1]
      /\ \A i \in 1..Len(r) : r[i] = q[i + 1]
  BY EmptySeq, HeadTailProperties
<1> HIDE DEF r, n
<1>2. /\ 1 \in 1..n /\ \A i \in 1..Len(r) : i + 1 \in 1..n /\ i + 1 > 1
      /\ \A i \in 1..n : i = 1 \/ (i - 1 \in 1..Len(r) /\ (i - 1) + 1 = i)
      /\ \A i \in 1..Len(r), j \in 1..n : j > i + 1 =>
            j - 1 \in 1..Len(r) /\ j - 1 > i /\ (j - 1) + 1 = j
  BY <1>1
<1>3. ASSUME LastStop(q, t) PROVE LastStop(r, t)
  <2> SUFFICES ASSUME NEW i \in 1..Len(r), IsStop(r[i]),
                      \A j \in 1..Len(r) : j > i => ~IsStop(r[j])
               PROVE  r[i].stop = t
    BY DEF LastStop
  <2>1. r[i] = q[i + 1] /\ i + 1 \in 1..n
    BY <1>1, <1>2
  <2>2. ASSUME NEW j \in 1..n, j > i + 1 PROVE ~IsStop(q[j])
    <3>1. j - 1 \in 1..Len(r) /\ j - 1 > i /\ (j - 1) + 1 = j
      BY <1>2, <2>2
    <3> QED BY <1>1, <3>1
  <2> QED BY <1>3, <2>1, <2>2 DEF LastStop, n
<1>4. NoStop(q) => NoStop(r) /\ ~IsStop(q[1])
  BY <1>1, <1>2 DEF NoStop, n
<1>5. ASSUME NoStop(r), NEW i \in 1..n, i # 1 PROVE ~IsStop(q[i])
  <2>1. i - 1 \in 1..Len(r) /\ (i - 1) + 1 = i
    BY <1>2, <1>5
  <2>2. r[i - 1] = q[i]
    BY <1>1, <2>1
  <2> QED BY <1>5, <2>1, <2>2 DEF NoStop
<1>6. NoStop(r) /\ ~IsStop(q[1]) => NoStop(q)
  BY <1>5 DEF NoStop, n
<1>7. ASSUME NoStop(r), IsStop(q[1]), LastStop(q, t) PROVE q[1].stop = t
  <2>1. \A j \in 1..n : j > 1 => ~IsStop(q[j])
    BY <1>5, <1>7
  <2> QED BY <1>2, <1>7, <2>1 DEF LastStop, n
<1> QED BY <1>1, <1>3, <1>4, <1>6, <1>7 DEF r
OnlyMain(ex) ==
  NoStop(ex.high["self"]) /\ NoStop(ex.low["main"]) /\ NoStop(ex.low["self"])
ToStreams(ex) == ex.high["main"]

\* What is sent: a stop time by the main thread, other tasks by anyone.
LEMMA SendStop ==
  ASSUME NEW ex \in Executors(Owners, Tasks), OnlyMain(ex), NEW task \in Tasks,
         NEW u \in Owners
  PROVE  /\ OnlyMain(sendWork(ex, "main", task))
         /\ ToStreams(sendWork(ex, "main", task)) = Append(ToStreams(ex), task)
         /\ ~IsStop(task) => OnlyMain(sendLowPriorityWork(ex, u, task))
         /\ ToStreams(sendLowPriorityWork(ex, u, task)) = ToStreams(ex)
<1>0. /\ ex.high \in [Owners -> Seq(Tasks)] /\ ex.low \in [Owners -> Seq(Tasks)]
      /\ "main" \in Owners /\ "self" \in Owners /\ Owners = {"main", "self"}
  BY DEF Executors, Queues, Owners
<1>1. /\ sendWork(ex, "main", task).high = [ex.high EXCEPT !["main"] = Append(@, task)]
      /\ sendWork(ex, "main", task).low = ex.low
      /\ sendLowPriorityWork(ex, u, task).low = [ex.low EXCEPT ![u] = Append(@, task)]
      /\ sendLowPriorityWork(ex, u, task).high = ex.high
  <2>0. "main" \in Owners
    BY DEF Owners
  <2>1. /\ sendWork(ex, "main", task).high = Put(ex.high, "main", task)
        /\ sendWork(ex, "main", task).low = ex.low
    BY <2>0, SendFacts
  <2>2. /\ sendLowPriorityWork(ex, u, task).low = Put(ex.low, u, task)
        /\ sendLowPriorityWork(ex, u, task).high = ex.high
    BY SendFacts
  <2> QED BY <2>1, <2>2 DEF Put
<1>2. /\ OnlyMain(sendWork(ex, "main", task))
      /\ ToStreams(sendWork(ex, "main", task)) = Append(ToStreams(ex), task)
      /\ ToStreams(sendLowPriorityWork(ex, u, task)) = ToStreams(ex)
  BY <1>0, <1>1 DEF OnlyMain, ToStreams
<1>3. ASSUME ~IsStop(task) PROVE OnlyMain(sendLowPriorityWork(ex, u, task))
  <2>1. \A v \in Owners : ex.low[v] \in Seq(Tasks) /\ NoStop(ex.low[v])
    BY <1>0 DEF OnlyMain
  <2>2. NoStop(Append(ex.low[u], task))
    BY <1>3, <2>1, StopPut
  <2> QED BY <1>0, <1>1, <2>1, <2>2 DEF OnlyMain
<1> QED BY <1>2, <1>3

\* What is taken: a stop time comes from the main thread.
LEMMA TakeStop ==
  ASSUME NEW ex \in Executors(Owners, Tasks), OnlyMain(ex), NEW slot \in Runnable(ex)
  PROVE  /\ OnlyMain(Dequeue(ex, slot))
         /\ \/ ToStreams(Dequeue(ex, slot)) = ToStreams(ex) /\ ~IsStop(Task(ex, slot))
            \/ /\ ToStreams(ex) # << >> /\ Task(ex, slot) = Head(ToStreams(ex))
               /\ ToStreams(Dequeue(ex, slot)) = Tail(ToStreams(ex))
<1> DEFINE task == Task(ex, slot)
           new == Dequeue(ex, slot)
<1>0. /\ ex.high \in [Owners -> Seq(Tasks)] /\ ex.low \in [Owners -> Seq(Tasks)]
      /\ "main" \in Owners /\ "self" \in Owners /\ Owners = {"main", "self"}
  BY DEF Executors, Queues, Owners
<1>1. PICK t \in Owners :
              \/ /\ ex.high[t] # << >> /\ task = Head(ex.high[t])
                 /\ new.high = [ex.high EXCEPT ![t] = Tail(@)] /\ new.low = ex.low
              \/ /\ ex.low[t] # << >> /\ task = Head(ex.low[t])
                 /\ new.low = [ex.low EXCEPT ![t] = Tail(@)] /\ new.high = ex.high
  <2>1. \E t \in Owners :
              \/ /\ ex.high[t] # << >> /\ task = Head(ex.high[t])
                 /\ new.high = Taken(ex.high, t) /\ new.low = ex.low
              \/ /\ ex.low[t] # << >> /\ task = Head(ex.low[t])
                 /\ new.low = Taken(ex.low, t) /\ new.high = ex.high
    BY RunnableFacts
  <2> HIDE DEF task, new
  <2> QED BY <2>1 DEF Taken
<1>2. \A q \in Seq(Tasks) : q # << >> /\ NoStop(q) => NoStop(Tail(q)) /\ ~IsStop(Head(q))
  BY StopTaken
<1> HIDE DEF task, new
<1>3. CASE /\ ex.high[t] # << >> /\ task = Head(ex.high[t])
           /\ new.high = [ex.high EXCEPT ![t] = Tail(@)] /\ new.low = ex.low
  <2>1. CASE t = "main"
    BY <1>0, <1>3, <2>1 DEF OnlyMain, ToStreams, task, new
  <2>2. CASE t = "self"
    <3>1. NoStop(Tail(ex.high["self"])) /\ ~IsStop(task)
      BY <1>0, <1>2, <1>3, <2>2 DEF OnlyMain
    <3>2. new.high["self"] = Tail(ex.high["self"]) /\ new.high["main"] = ex.high["main"]
      BY <1>0, <1>3, <2>2
    <3> QED BY <1>3, <3>1, <3>2 DEF OnlyMain, ToStreams, task, new
  <2> QED BY <1>0, <2>1, <2>2
<1>4. CASE /\ ex.low[t] # << >> /\ task = Head(ex.low[t])
           /\ new.low = [ex.low EXCEPT ![t] = Tail(@)] /\ new.high = ex.high
  <2>1. \A v \in Owners : ex.low[v] \in Seq(Tasks) /\ NoStop(ex.low[v])
    BY <1>0 DEF OnlyMain
  <2>2. NoStop(Tail(ex.low[t])) /\ ~IsStop(task)
    BY <1>2, <1>4, <2>1
  <2>3. \A v \in Owners : NoStop(new.low[v])
    BY <1>0, <1>4, <2>1, <2>2
  <2> QED BY <1>0, <1>4, <2>2, <2>3 DEF OnlyMain, ToStreams, task, new
<1> QED BY <1>1, <1>3, <1>4

\* All streams have the controller's stop time, or are about to get it.
Told ==
  NoStop(ToStreams(executor)) =>
    \A s \in Streams : Contains(Streamers, s) => stop[s] = controller.StopTimestamp

LastTold ==
  phase # "crashed" => LastStop(ToStreams(executor), controller.StopTimestamp)

StopInv == OnlyMain(executor) /\ Told /\ LastTold

\* A job starts with one stop time for all.
LEMMA StopInit == Init => StopInv
<1> SUFFICES ASSUME Init PROVE StopInv
  OBVIOUS
<1> DEFINE new == NewExecutor({"main", "self"})
<1>1. /\ new \in Executors(Owners, Tasks) /\ "main" \in Owners
      /\ new.high["main"] = << >> /\ new.high["self"] = << >>
      /\ new.low["main"] = << >> /\ new.low["self"] = << >>
  BY NewExecutorFacts DEF Owners
<1>2. executor = sendLowPriorityWork(new, "main", GetTopicNames) /\ Streamers = << >>
  BY DEF Init
<1>3. GetTopicNames \in Tasks /\ ~IsStop(GetTopicNames)
  BY TaskFacts DEF IsStop
<1> HIDE DEF new
<1>4. OnlyMain(new)
  BY <1>1 DEF OnlyMain, NoStop
<1>5. OnlyMain(executor) /\ ToStreams(executor) = << >>
  BY <1>1, <1>2, <1>3, <1>4, SendStop DEF ToStreams
<1> QED BY <1>2, <1>5 DEF StopInv, Told, LastTold, LastStop, Contains

(* The executor tells the streams, in the order of the commands, also those it
   creates in between. *)
LEMMA StopExecutor == TypeInv /\ StopInv /\ Executor => StopInv'
<1> SUFFICES ASSUME TypeInv, StopInv, Executor PROVE StopInv'
  OBVIOUS
<1> DEFINE q == ToStreams(executor)
           T == controller.StopTimestamp
<1>0. /\ controller \in Controllers /\ executor \in Executors(Owners, Tasks)
      /\ Streamers \in Seq(Pointers) /\ busy \in Places /\ stop \in [Streams -> Nat]
      /\ "self" \in Owners
  BY DEF TypeInv, Types, ControlOK, Owners, StreamsOK
<1>q. q \in Seq(Tasks)
  BY <1>0 DEF ToStreams, Executors, Queues, Owners
<1>l. LastStop(q, T) /\ OnlyMain(executor)
  BY DEF StopInv, LastTold, Executor, Alive
<1>t. /\ ~IsStop(GetTopicNames) /\ ~IsStop(InitStreams) /\ ~IsStop(Checks) /\ ~IsStop(Exit)
      /\ GetTopicNames \in Tasks /\ InitStreams \in Tasks /\ Checks \in Tasks
  BY TaskFacts DEF IsStop
<1>c. controller'.StopTimestamp = T
  <2>1. \/ UNCHANGED controller
        \/ controller' = [controller EXCEPT !.HasError = TRUE]
        \/ \E r, p : controller' = [controller EXCEPT !.StreamersRemaining = r,
                                                      !.StreamersPaused = p]
        \/ \E p : controller' = [[controller EXCEPT !.StreamersRemaining = FALSE,
                                     !.StreamersPaused = p] EXCEPT !.StopNow = TRUE]
    BY DEF Executor, ExecutorTask, getTopicNames, initStreams, performPeriodicChecks,
           checksFindNone, checksFindDone, endChecks, erase, checksThrow, HasErrorFirst,
           applyStopTime, runExit, createStream, fail, stopStreams
  <2> QED BY <1>0, <2>1 DEF Controllers
<1>1. ASSUME NEW qq, ToStreams(executor') = qq, OnlyMain(executor'), LastStop(qq, T),
             NoStop(qq) => \A s \in Streams : Contains(Streamers', s) => stop'[s] = T
      PROVE  StopInv'
  BY <1>1, <1>c DEF StopInv, Told, LastTold
<1> HIDE DEF q, T
<1>2. CASE createStream /\ busy.next <= Len(Topics)
  <2> DEFINE r == Topics[busy.next]
  <2>1. /\ Streamers' = Append(Streamers, r) /\ UNCHANGED executor
        /\ stop' = [stop EXCEPT ![r] = controller.StopTimestamp]
    BY <1>2 DEF createStream
  <2>2. r \in Streams /\ r \in Pointers
    <3>1. busy.next \in 1..(Len(Topics) + 1) /\ Len(Topics) \in Nat
      BY <1>0, <1>2, PlaceFacts, TopicFacts DEF createStream
    <3> QED BY <1>2, <3>1, TopicFacts DEF Pointers
  <2> HIDE DEF r
  <2>3. \A s : Contains(Streamers', s) => Contains(Streamers, s) \/ s = r
    <3>1. /\ Len(Streamers') = Len(Streamers) + 1 /\ Len(Streamers) \in Nat
          /\ \A i \in 1..Len(Streamers) : Streamers'[i] = Streamers[i]
          /\ Streamers'[Len(Streamers) + 1] = r
      BY <1>0, <2>1, <2>2
    <3>2. \A i \in 1..Len(Streamers') : i \in 1..Len(Streamers) \/ i = Len(Streamers) + 1
      BY <3>1
    <3> QED BY <3>1, <3>2 DEF Contains
  <2>4. NoStop(q) => \A s \in Streams : Contains(Streamers', s) => stop'[s] = T
    BY <1>0, <2>1, <2>2, <2>3 DEF StopInv, Told, q, T
  <2> QED BY <1>1, <1>l, <2>1, <2>4 DEF q
<1>3. CASE (createStream /\ ~(busy.next <= Len(Topics))) \/ fail \/ erase
  <2>1. executor' = sendLowPriorityWork(executor, "self", Checks) /\ UNCHANGED stop
    BY <1>3 DEF createStream, fail, erase, endChecks, nextChecks, streams
  <2>s. \A s \in Streams : Contains(Streamers', s) => Contains(Streamers, s)
    <3>1. UNCHANGED Streamers \/ ChecksStep(executor)
      BY <1>3 DEF createStream, fail, ChecksStep, streams
    <3> QED BY <3>1, ChecksErase DEF Erases
  <2>2. ToStreams(executor') = q /\ OnlyMain(executor')
    BY <1>0, <1>l, <1>t, <2>1, SendStop DEF q
  <2>3. NoStop(q) => \A s \in Streams : Contains(Streamers', s) => stop'[s] = T
    BY <2>1, <2>s DEF StopInv, Told, q, T
  <2> QED BY <1>1, <1>l, <2>2, <2>3
<1>4. CASE ExecutorTask
  <2>1. PICK slot \in Runnable(executor) :
          LET task == Task(executor, slot)
              ex   == Dequeue(executor, slot)
          IN  \/ task = GetTopicNames /\ getTopicNames(ex)
              \/ task = InitStreams /\ initStreams(ex)
              \/ task = Checks /\ performPeriodicChecks(ex)
              \/ task.do = "setStopTime" /\ applyStopTime(ex, task.stop)
              \/ task = Exit /\ runExit(ex)
    BY <1>4 DEF ExecutorTask
  <2> DEFINE task == Task(executor, slot)
             ex == Dequeue(executor, slot)
             new == ToStreams(ex)
  <2>2. ex \in Executors(Owners, Tasks) /\ task \in Tasks
    BY TakenTask
  <2>3. /\ OnlyMain(ex)
        /\ \/ new = q /\ ~IsStop(task)
           \/ q # << >> /\ task = Head(q) /\ new = Tail(q)
    BY <1>0, <1>l, TakeStop DEF q
  <2> HIDE DEF task, ex, new
  <2>4. /\ LastStop(new, T)
        /\ NoStop(new) /\ ~IsStop(task) => NoStop(q)
        /\ NoStop(new) /\ IsStop(task) => task.stop = T
    BY <1>q, <1>l, <2>3, StopTaken
  <2>5. CASE task.do = "setStopTime" /\ applyStopTime(ex, task.stop)
    <3>1. /\ executor' = ex /\ UNCHANGED Streamers
          /\ \A s \in Streams : Contains(Streamers, s) => stop'[s] = task.stop
      BY <2>5 DEF applyStopTime
    <3> QED BY <1>1, <2>3, <2>4, <2>5, <3>1 DEF IsStop, new
  <2>6. CASE ~IsStop(task) /\ UNCHANGED stop
             /\ (\A s \in Streams : Contains(Streamers', s) => Contains(Streamers, s))
             /\ OnlyMain(executor') /\ ToStreams(executor') = new
    <3>1. NoStop(new) => \A s \in Streams : Contains(Streamers', s) => stop'[s] = T
      BY <2>4, <2>6 DEF StopInv, Told, q, T
    <3> QED BY <1>1, <2>4, <2>6, <3>1
  <2>7. CASE task \in {GetTopicNames, InitStreams, Checks, Exit}
    <3>1. ~IsStop(task) /\ task.do # "setStopTime"
      BY <1>t, <2>7 DEF IsStop
    <3>2. UNCHANGED stop
      BY <2>1, <3>1
      DEF getTopicNames, initStreams, performPeriodicChecks, checksFindNone,
          checksFindDone, endChecks, checksThrow,
          runExit, streams, task, ex
    <3>3. \A s \in Streams : Contains(Streamers', s) => Contains(Streamers, s)
      <4>1. UNCHANGED Streamers \/ ChecksStep(ex)
        BY <2>1, <3>1
        DEF getTopicNames, initStreams, performPeriodicChecks, ChecksStep, runExit, task, ex
      <4> QED BY <4>1, ChecksErase DEF Erases
    <3>4. \/ executor' = ex \/ executor' = StopThread(ex)
          \/ \E x \in {GetTopicNames, InitStreams, Checks} :
               executor' = sendLowPriorityWork(ex, "self", x)
      BY <2>1, <3>1
      DEF getTopicNames, initStreams, performPeriodicChecks, checksFindNone,
          checksFindDone, endChecks, checksThrow,
          nextChecks, runExit, task, ex
    <3>5. StopThread(ex).high = ex.high /\ StopThread(ex).low = ex.low
      BY <2>2 DEF StopThread, Executors
    <3>6. OnlyMain(StopThread(ex)) /\ ToStreams(StopThread(ex)) = new
      BY <2>3, <3>5 DEF OnlyMain, ToStreams, new
    <3>7. OnlyMain(executor') /\ ToStreams(executor') = new
      BY <1>0, <1>t, <2>2, <2>3, <3>4, <3>6, SendStop DEF new
    <3> QED BY <2>6, <3>1, <3>2, <3>3, <3>7
  <2> QED BY <2>1, <2>5, <2>7 DEF task, ex
<1> QED BY <1>2, <1>3, <1>4 DEF Executor
\* The main thread sends a stop time with every change of its own.
LEMMA StopOthers == TypeInv /\ StopInv /\ Others => StopInv'
<1> SUFFICES ASSUME TypeInv, StopInv, Others PROVE StopInv'
  OBVIOUS
<1>0. /\ controller \in Controllers /\ executor \in Executors(Owners, Tasks)
      /\ "main" \in Owners /\ now \in NewStops /\ now \in Stamps
  BY DEF TypeInv, Types, ControlOK, Owners, MainOK, NewStops, Stamps
<1>q. ToStreams(executor) \in Seq(Tasks) /\ OnlyMain(executor)
  BY <1>0 DEF ToStreams, Executors, Queues, Owners, StopInv
<1>u. UNCHANGED <<Streamers, stop>>
  BY DEF Others, WriterThread, HoldMessage, ReadMessage, SomeDone, StreamDone, StreamFails,
         setStopTime, stopNow, Main, stoppedNow, enterStop, leave, hasWritingStopped,
         setToIdle, writeMetadata, joinExecutor, joinWriter, destroyStreams, Tick, outer,
         control, streams, vars
<1>1. CASE UNCHANGED executor /\ controller'.StopTimestamp = controller.StopTimestamp
           /\ (phase = "crashed" => phase' = "crashed")
  BY <1>u, <1>1 DEF StopInv, Told, LastTold
<1>2. ASSUME NEW t \in NewStops, executor' = sendWork(executor, "main", NewStop(t)),
             phase' # "crashed" => controller'.StopTimestamp = t
      PROVE  StopInv'
  <2>1. NewStop(t) \in Tasks /\ IsStop(NewStop(t)) /\ NewStop(t).stop = t
    BY TaskFacts DEF IsStop
  <2>2. /\ OnlyMain(executor') /\ ToStreams(executor') = Append(ToStreams(executor), NewStop(t))
    BY <1>0, <1>q, <1>2, <2>1, SendStop
  <2>3. LastStop(ToStreams(executor'), t) /\ ~NoStop(ToStreams(executor'))
    BY <1>q, <2>1, <2>2, StopPut
  <2> QED BY <1>2, <2>2, <2>3 DEF StopInv, Told, LastTold
<1>3. CASE setStopTime
  <2>1. PICK t \in StopTimes : /\ controller' = setStopTimestamp(controller, t)
                               /\ executor' = sendWork(executor, "main", NewStop(t))
    BY <1>3 DEF setStopTime
  <2>2. t \in NewStops /\ t \in Stamps
    BY DEF NewStops, Stamps
  <2>3. controller'.StopTimestamp = t
    BY <1>0, <2>1, <2>2 DEF setStopTimestamp, Controllers
  <2> QED BY <1>2, <2>1, <2>2, <2>3
<1>4. CASE stoppedNow
  <2> DEFINE ctl == setStopTimestamp(controller, now)
  <2>1. ctl \in Controllers /\ ctl.StopTimestamp = now
    BY <1>0 DEF setStopTimestamp, Controllers
  <2> HIDE DEF ctl
  <2>2. stopStreams(ctl, "running") /\ executor' = sendWork(executor, "main", NewStop(now))
    BY <1>4 DEF stoppedNow, ctl
  <2>3. phase' # "crashed" => controller'.StopTimestamp = now
    BY <2>1, <2>2 DEF stopStreams, Controllers
  <2> QED BY <1>0, <1>2, <2>2, <2>3
<1>5. CASE writeMetadata
  <2>1. /\ executor' = sendWork(executor, "main", Exit) /\ UNCHANGED controller
        /\ phase # "crashed"
    BY <1>5 DEF writeMetadata
  <2>2. Exit \in Tasks /\ ~IsStop(Exit)
    BY TaskFacts DEF IsStop
  <2>3. /\ OnlyMain(executor') /\ ToStreams(executor') = Append(ToStreams(executor), Exit)
    BY <1>0, <1>q, <2>1, <2>2, SendStop
  <2>4. /\ NoStop(ToStreams(executor')) => NoStop(ToStreams(executor))
        /\ LastStop(ToStreams(executor), controller.StopTimestamp) =>
             LastStop(ToStreams(executor'), controller.StopTimestamp)
    BY <1>q, <2>2, <2>3, StopPut
  <2> QED BY <1>u, <2>1, <2>3, <2>4 DEF StopInv, Told, LastTold
<1>6. CASE leave
  <2>1. stopStreams(controller, "metadata") /\ UNCHANGED executor /\ phase # "crashed"
    BY <1>6 DEF leave
  <2>2. controller'.StopTimestamp = controller.StopTimestamp
    BY <1>0, <2>1 DEF stopStreams, Controllers
  <2> QED BY <1>1, <2>1, <2>2
<1>7. CASE \/ WriterThread \/ HoldMessage \/ ReadMessage \/ SomeDone \/ StreamFails
           \/ stopNow \/ setToIdle \/ hasWritingStopped \/ joinExecutor \/ joinWriter \/ destroyStreams \/ Tick
           \/ UNCHANGED vars
  <2>1. UNCHANGED <<executor, controller>> /\ (phase = "crashed" => phase' = "crashed")
    BY <1>7
    DEF WriterThread, HoldMessage, ReadMessage, SomeDone, StreamDone, StreamFails, stopNow,
        setToIdle, enterStop, hasWritingStopped, joinExecutor, joinWriter, destroyStreams, Tick, outer, control, vars
  <2> QED BY <1>1, <2>1
<1> QED BY <1>3, <1>4, <1>5, <1>6, <1>7 DEF Others, Main

(* A stop time that is changed while the streams are set up reaches all of them:
   those in the vector, the one that is being created, and those to come. *)
THEOREM StructureCorrect == Spec => []StructureOK
<1>1. Init => TypeInv /\ StopInv
  BY TypeInit, StopInit
<1>2. TypeInv /\ StopInv /\ [Next]_vars => (TypeInv /\ StopInv)'
  BY TypeNext, StepOf, StopExecutor, StopOthers
<1>3. TypeInv /\ StopInv => StructureOK
  <2> SUFFICES ASSUME TypeInv, StopInv,
                      \A t \in StopTimes \union 0..MaxTime : Queued(executor, NewStop(t)) = {}
               PROVE  NoStop(ToStreams(executor))
    BY TypeParts DEF StructureOK, StopTimeReachesStreams, StopInv, Told
  <2> DEFINE q == executor.high["main"]
  <2>1. /\ executor \in Executors(Owners, Tasks) /\ q \in Seq(Tasks)
        /\ "main" \in DOMAIN executor.high
    BY DEF TypeInv, Types, ControlOK, Executors, Queues, Owners
  <2>2. ASSUME NEW i \in 1..Len(q), IsStop(q[i]) PROVE FALSE
    <3>1. q[i] \in Tasks /\ i \in DOMAIN q
      BY <2>1
    <3>2. PICK t \in NewStops : q[i] = NewStop(t)
      BY <2>2, <3>1, TaskFacts DEF IsStop
    <3>3. IsAt(executor.high, NewStop(t), "main", i)
      BY <2>1, <3>1, <3>2 DEF IsAt
    <3>4. <<"high", "main", i>> \in Queued(executor, NewStop(t))
      BY <2>1, <3>3, QueuedPlaces
    <3> QED BY <3>4 DEF NewStops
  <2> QED BY <2>2 DEF NoStop, ToStreams
<1> QED BY <1>1, <1>2, <1>3, PTL DEF Spec
=============================================================================
