-------------------------------- MODULE Topic --------------------------------
(***************************************************************************)
(* Stream::Topic (src/Stream/Topic.{h,cpp}): finds out the partitions of a *)
(* Kafka topic and the offsets to start from, creates a Partition for each *)
(* of them, and watches these until all have finished.                     *)
(*                                                                         *)
(* All of this is done by tasks of the topic's ThreadedExecutor, which     *)
(* queue one another. The owner (a StreamController) calls setStopTime(),  *)
(* stop() and the destructor from another thread; stop() walks through the *)
(* vector of partitions without a lock. A partition is seen from outside   *)
(* here: it queues messages, may keep one back, and finishes some time     *)
(* after it was told to (module Partition).                                *)
(***************************************************************************)
EXTENDS Integers, ThreadedExecutor, RemoveIf, SequencesExt, FiniteSets

CONSTANTS
  PartitionIDs,   \* the partitions the broker lists, in its order
  Null,           \* a unique_ptr that was moved from
  OffsetEnd,      \* RdKafka::Topic::OFFSET_END
  Start,          \* StartConsumeTime
  StartLeeway,
  InitialStops,   \* stop times the topic may be created with
  StopTimes,      \* stop times it may be given later
  MinMetadataTimeout,
  MaxMetadataTimeout,
  MetaDataGiveUp, \* for how long metadata calls are repeated
  OldLogs,        \* what the partitions of the broker may hold at the beginning
  Stamps,         \* the times the producers of new messages may give them
  Faults,         \* what may fail: "metadata", "consumer"
  MaxTime,        \* bound on the clock
  MaxLog,         \* bound on the messages of all partitions
  MaxSent         \* bound on the messages that are read

Parts == Range(PartitionIDs)

ASSUME TopicAssumption ==
  /\ PartitionIDs \in Seq(Parts) /\ IsInjective(PartitionIDs) /\ Null \notin Parts
  /\ OffsetEnd \in Int \ Nat
  /\ Start \in Nat /\ StartLeeway \in Nat /\ MetaDataGiveUp \in Nat
  /\ InitialStops \subseteq Nat /\ StopTimes \subseteq Nat
  /\ MinMetadataTimeout \in Nat \ {0} /\ MaxMetadataTimeout \in Nat
  /\ MinMetadataTimeout <= MaxMetadataTimeout
  /\ OldLogs \subseteq [Parts -> Seq(Nat)] /\ Stamps \subseteq Nat
  /\ Faults \subseteq {"metadata", "consumer"}
  /\ MaxTime \in Nat /\ MaxLog \in Nat /\ MaxSent \in Nat

VARIABLES
  topic,           \* HasError, IsDone, StopConsumeTime, CurrentMetadataTimeOut
  ConsumerThreads, \* the vector of partitions
  executor,
  busy,            \* what the executor's task is in the middle of
  partition,       \* the partitions: their state, stop time, the offset that was
                   \* found for them and the position of their consumer
  sent,            \* messages handed to the writer thread
  phase,           \* "running", "joining", "destroyed" or "crashed"
  walk,            \* the vector as a call of stop() found it
  changes,         \* calls of setStopTime so far
  log,             \* the broker: the Kafka timestamps of each partition
  now              \* the system clock

members == <<topic, ConsumerThreads, busy>>
outside == <<phase, walk, changes, log, now>>
vars == <<members, executor, partition, sent, outside>>

InitMetadata == [do |-> "initMetadataCalls"]
\* A retry keeps CurrentMetadataTimeOut, every other task resets it.
GetPartitions(retry) == [do |-> "getPartitions", retry |-> retry]
GetOffsets(retry) == [do |-> "getOffsets", retry |-> retry]
CreateStreams(offsets) == [do |-> "createStreams", offsets |-> offsets]
NewStop(t) == [do |-> "setStopTime", stop |-> t]
Check == [do |-> "checkIfDone"]
Exit == [do |-> "exit"]

Free == [do |-> "nothing"]
Asking(what) == [do |-> "asking", what |-> what]
Creating(offsets, i) == [do |-> "creating", offsets |-> offsets, next |-> i]
Erasing(left) == [do |-> "erasing", left |-> left]

NoWalk == <<Null>>
NoPartition == [state |-> "none", stop |-> 0, told |-> FALSE, held |-> FALSE,
                found |-> [offset |-> 0, known |-> 0], position |-> OffsetEnd]

\* The constructor and start().
Init ==
  /\ \E t \in InitialStops :
       topic = [HasError |-> FALSE, IsDone |-> FALSE, StopConsumeTime |-> t,
                CurrentMetadataTimeOut |-> MinMetadataTimeout]
  /\ ConsumerThreads = <<>> /\ busy = Free
  /\ executor = sendWork(NewExecutor({"owner", "self"}), "owner", InitMetadata)
  /\ partition = [p \in Parts |-> NoPartition]
  /\ sent = 0 /\ phase = "running" /\ walk = NoWalk /\ changes = 0
  /\ log \in OldLogs
  /\ now = 0

-----------------------------------------------------------------------------
(* Metadata calls. ex is the executor a task was taken from. *)

initMetadataCalls(ex) ==
  /\ executor' = sendWork(ex, "self", GetPartitions(FALSE))
  /\ UNCHANGED <<members, partition, sent>>

\* The broker is asked, which takes up to CurrentMetadataTimeOut.
beginQuery(ex, task) ==
  /\ executor' = ex
  /\ busy' = Asking(task.do)
  /\ topic' = IF task.retry THEN topic
              ELSE [topic EXCEPT !.CurrentMetadataTimeOut = MinMetadataTimeout]
  /\ UNCHANGED <<ConsumerThreads, partition, sent>>

shouldGiveUp == now > MetaDataGiveUp

LongerTimeOut(timeout) ==
  IF 2 * timeout > MaxMetadataTimeout THEN MaxMetadataTimeout ELSE 2 * timeout

\* Mutant: the call is repeated for ever.
queryFails_NeverGivesUp(again) ==
  /\ "metadata" \in Faults
  /\ topic' = [topic EXCEPT !.CurrentMetadataTimeOut = LongerTimeOut(@)]
  /\ executor' = sendLowPriorityWork(executor, "self", again)

\* A MetadataException: give up after a while, otherwise try again, as a task
\* of low priority, with more time.
queryFails(again) ==
  /\ "metadata" \in Faults
  /\ \/ /\ shouldGiveUp
        /\ topic' = [topic EXCEPT !.HasError = TRUE]
        /\ UNCHANGED executor
     \/ /\ ~shouldGiveUp
        /\ topic' = [topic EXCEPT !.CurrentMetadataTimeOut = LongerTimeOut(@)]
        /\ executor' = sendLowPriorityWork(executor, "self", again)

queryAnswered(then) ==
  /\ executor' = sendWork(executor, "self", then)
  /\ UNCHANGED topic

\* The broker is out of reach, does not list the topic, or names its partitions.
getPartitionsForTopic ==
  /\ busy = Asking("getPartitions") /\ busy' = Free
  /\ queryAnswered(GetOffsets(FALSE)) \/ queryFails(GetPartitions(TRUE))
  /\ UNCHANGED <<ConsumerThreads, partition, sent, phase>>

\* Mutant: the start leeway is forgotten.
OffsetTime_NoLeeway == Start

OffsetTime == Start - StartLeeway

\* offsetsForTimes: the first message that is not older, or the end of the
\* partition if there is none. Offsets are counted from 0.
getOffsetForTime(p) ==
  LET i == SelectInSeq(log[p], LAMBDA t : t >= OffsetTime)
  IN  IF i = 0 THEN OffsetEnd ELSE i - 1

\* known is a history: what the partition held when the broker was asked.
Found(p) == [offset |-> getOffsetForTime(p), known |-> Len(log[p])]

getOffsetsForPartitions ==
  /\ busy = Asking("getOffsets") /\ busy' = Free
  /\ \/ queryAnswered(CreateStreams([i \in DOMAIN PartitionIDs |->
                                      Found(PartitionIDs[i])]))
     \/ queryFails(GetOffsets(TRUE))
  /\ UNCHANGED <<ConsumerThreads, partition, sent, phase>>

-----------------------------------------------------------------------------
(* The partitions. *)

beginCreateStreams(ex, offsets) ==
  /\ executor' = ex
  /\ topic' = [topic EXCEPT !.CurrentMetadataTimeOut = MinMetadataTimeout]
  /\ busy' = Creating(offsets, 1)
  /\ UNCHANGED <<ConsumerThreads, partition, sent>>

Stored(p) == Append(ConsumerThreads, p)

\* One turn of the loop of createStreams; then the first check is queued.
createStream ==
  /\ busy.do = "creating"
  /\ IF busy.next <= Len(PartitionIDs)
     THEN LET p == PartitionIDs[busy.next]
          IN  /\ partition' = [partition EXCEPT ![p] =
                                 [@ EXCEPT !.state = "running",
                                           !.stop = topic.StopConsumeTime,
                                           !.found = busy.offsets[busy.next],
                                           !.position = busy.offsets[busy.next].offset]]
              /\ ConsumerThreads' = Stored(p)
              /\ busy' = Creating(busy.offsets, busy.next + 1)
              /\ UNCHANGED executor
     ELSE /\ executor' = sendLowPriorityWork(executor, "self", Check)
          /\ busy' = Free
          /\ UNCHANGED <<partition, ConsumerThreads>>
  /\ UNCHANGED <<topic, sent, phase>>

\* createConsumer or addPartitionAtOffset throws. Nobody catches a
\* runtime_error of a task: the process is terminated.
createStreamThrows ==
  /\ "consumer" \in Faults
  /\ busy.do = "creating" /\ busy.next <= Len(PartitionIDs)
  /\ phase' = "crashed"
  /\ UNCHANGED <<members, executor, partition, sent>>

hasFinished(p) == p # Null /\ partition[p].state = "finished"
NotFinished == {p \in Parts \union {Null} : ~hasFinished(p)}

\* A partition is destroyed: it joins its thread, and its filters pass on what
\* they have kept back.
Destroyed(ps) ==
  [p \in Parts |-> IF p \in ps THEN [partition[p] EXCEPT !.state = "gone", !.held = FALSE]
                   ELSE partition[p]]
Flushed(ps) == sent + Cardinality({p \in ps : partition[p].held})

\* Mutant: the topic is done as soon as one partition has finished.
AllGone_AnyGone(left) == left # ConsumerThreads \/ left = <<>>

AllGone(left) == left = <<>>

\* checkIfDone up to the end of remove_if: partitions that have not finished are
\* moved to the front and leave null pointers behind, those they overwrite are
\* destroyed.
beginCheckIfDone(ex) ==
  LET left == Kept(ConsumerThreads, NotFinished)
      tail == [i \in DOMAIN ConsumerThreads |->
                 IF i <= Len(left) THEN left[i]
                 ELSE IF hasFinished(ConsumerThreads[i]) THEN ConsumerThreads[i] ELSE Null]
      over == {p \in Range(ConsumerThreads) : ~Contains(tail, p)}
  IN  /\ executor' = ex
      /\ ConsumerThreads' = tail
      /\ partition' = Destroyed(over)
      /\ sent' = Flushed(over)
      /\ busy' = Erasing(left)
      /\ UNCHANGED topic

\* The rest of it: erase, and the next check.
erase ==
  /\ busy.do = "erasing"
  /\ LET over == Range(ConsumerThreads) \ ({Null} \union Range(busy.left))
     IN  /\ partition' = Destroyed(over)
         /\ sent' = Flushed(over)
  /\ ConsumerThreads' = busy.left
  /\ topic' = [topic EXCEPT !.IsDone = @ \/ AllGone(busy.left)]
  /\ executor' = sendLowPriorityWork(executor, "self", Check)
  /\ busy' = Free
  /\ UNCHANGED phase

\* Mutant: partitions that are created later keep the old stop time.
WithStopTime_Forgotten(t) == topic

WithStopTime(t) == [topic EXCEPT !.StopConsumeTime = t]

\* The task queued by setStopTime.
applyStopTime(ex, t) ==
  /\ executor' = ex
  /\ topic' = WithStopTime(t)
  /\ partition' = [p \in Parts |-> IF Contains(ConsumerThreads, p)
                                   THEN [partition[p] EXCEPT !.stop = t]
                                   ELSE partition[p]]
  /\ UNCHANGED <<ConsumerThreads, busy, sent>>

runExit(ex) ==
  /\ executor' = StopThread(ex)
  /\ UNCHANGED <<members, partition, sent>>

ExecutorTask ==
  /\ busy = Free
  /\ \E slot \in Runnable(executor) :
       LET task == Task(executor, slot)
           ex   == Dequeue(executor, slot)
       IN  \/ task = InitMetadata /\ initMetadataCalls(ex)
           \/ task.do \in {"getPartitions", "getOffsets"} /\ beginQuery(ex, task)
           \/ task.do = "createStreams" /\ beginCreateStreams(ex, task.offsets)
           \/ task = Check /\ beginCheckIfDone(ex)
           \/ task.do = "setStopTime" /\ applyStopTime(ex, task.stop)
           \/ task = Exit /\ runExit(ex)
  /\ UNCHANGED phase

Alive == phase # "crashed"

Executor ==
  /\ Alive
  /\ \/ ExecutorTask \/ getPartitionsForTopic \/ getOffsetsForPartitions
     \/ createStream \/ createStreamThrows \/ erase
  /\ UNCHANGED <<walk, changes, log, now>>

-----------------------------------------------------------------------------
(* The owner's thread. *)

\* setStopTime
setStopTime ==
  /\ phase = "running" /\ changes = 0 /\ changes' = 1
  /\ \E t \in StopTimes : executor' = sendWork(executor, "owner", NewStop(t))
  /\ UNCHANGED <<members, partition, sent, phase, walk, log, now>>

\* stop() begins: it reads the ends of the vector.
beginStop ==
  /\ phase = "running" /\ walk = NoWalk /\ ConsumerThreads # <<>>
  /\ \E p \in Parts : partition[p].state = "running" /\ ~partition[p].told
  /\ walk' = ConsumerThreads
  /\ UNCHANGED <<members, executor, partition, sent, phase, changes, log, now>>

\* It calls stop() of every partition. A null pointer is fatal; if the vector
\* was changed in between, so may be everything else it finds.
endStop ==
  /\ Alive /\ walk # NoWalk
  /\ walk' = NoWalk
  /\ \/ /\ Contains(walk, Null) \/ walk # ConsumerThreads
        /\ phase' = "crashed"
        /\ UNCHANGED partition
     \/ /\ ~Contains(walk, Null)
        /\ partition' = [p \in Parts |->
                           IF Contains(walk, p) THEN [partition[p] EXCEPT !.told = TRUE]
                           ELSE partition[p]]
        /\ UNCHANGED phase
  /\ UNCHANGED <<members, executor, sent, changes, log, now>>

\* The destructor: the executor is the last member, so it goes first.
Destroy ==
  /\ walk = NoWalk
  /\ \/ /\ phase = "running" /\ phase' = "joining"
        /\ executor' = sendWork(executor, "owner", Exit)
        /\ UNCHANGED <<ConsumerThreads, partition, sent>>
     \/ /\ phase = "joining" /\ ~executor.RunThread
        /\ phase' = "destroyed"
        /\ LET left == Range(ConsumerThreads) \ {Null}
           IN  partition' = Destroyed(left) /\ sent' = Flushed(left)
        /\ ConsumerThreads' = <<>>
        /\ UNCHANGED executor
  /\ UNCHANGED <<topic, busy, walk, changes, log, now>>

-----------------------------------------------------------------------------
(* The partitions' threads, the broker and the clock. *)

\* The consumer finds out where the end of the partition is.
Attach ==
  /\ Alive
  /\ \E p \in Parts :
       /\ partition[p].state = "running" /\ partition[p].position = OffsetEnd
       /\ partition' = [partition EXCEPT ![p].position = Len(log[p])]
  /\ UNCHANGED <<members, executor, sent, outside>>

\* A message is read: it is queued, or kept back because it is before the start.
ReadMessage ==
  /\ Alive /\ Flushed(Parts) < MaxSent
  /\ \E p \in Parts :
       /\ partition[p].state = "running"
       /\ \/ /\ sent' = sent + 1
             /\ UNCHANGED partition
          \/ /\ ~partition[p].held
             /\ partition' = [partition EXCEPT ![p].held = TRUE]
             /\ UNCHANGED sent
  /\ UNCHANGED <<members, executor, outside>>

\* A partition may finish at any time; it must after its stop time or stop().
Finish(p) ==
  /\ Alive
  /\ partition[p].state = "running"
  /\ partition' = [partition EXCEPT ![p].state = "finished"]
  /\ UNCHANGED <<members, executor, sent, outside>>

MustFinish(p) == partition[p].told \/ now > partition[p].stop

\* A message arrives, with whatever time its producer gave it. What arrives after
\* a consumer has its position is left out.
Produce ==
  /\ phase = "running" /\ FoldFunction(LAMBDA l, n : Len(l) + n, 0, log) < MaxLog
  /\ \E p \in Parts, t \in Stamps :
       /\ partition[p].state = "none"
            \/ (partition[p].state = "running" /\ partition[p].position = OffsetEnd)
       /\ log' = [log EXCEPT ![p] = Append(@, t)]
  /\ UNCHANGED <<members, executor, partition, sent, phase, walk, changes, now>>

Tick ==
  /\ phase = "running" /\ now < MaxTime /\ now' = now + 1
  /\ UNCHANGED <<members, executor, partition, sent, phase, walk, changes, log>>

Next ==
  \/ Executor \/ setStopTime \/ beginStop \/ endStop \/ Destroy
  \/ Attach \/ ReadMessage \/ (\E p \in Parts : Finish(p)) \/ Produce \/ Tick

Spec == Init /\ [][Next]_vars

(* The threads are scheduled, time goes on, a call of stop() and a destructor
   that have begun go on, and a partition that must finish does so (module
   Partition). Nothing is assumed about the broker. *)
FairSpec ==
  /\ Spec /\ WF_vars(Executor) /\ WF_vars(Tick) /\ WF_vars(endStop)
  /\ WF_vars(phase = "joining" /\ Destroy)
  /\ \A p \in Parts : WF_vars(MustFinish(p) /\ Finish(p))

-----------------------------------------------------------------------------
\* Members in their types; the timeout of metadata calls stays in its bounds.
TypeOK ==
  /\ topic \in [HasError : BOOLEAN, IsDone : BOOLEAN,
                StopConsumeTime : InitialStops \union StopTimes,
                CurrentMetadataTimeOut : MinMetadataTimeout..MaxMetadataTimeout]
  /\ ConsumerThreads \in Seq(Parts \union {Null})
  /\ partition \in [Parts -> [state : {"none", "running", "finished", "gone"},
                              stop : Nat, told : BOOLEAN, held : BOOLEAN,
                              found : [offset : Nat \union {OffsetEnd}, known : Nat],
                              position : Nat \union {OffsetEnd}]]
  /\ phase \in {"running", "joining", "destroyed", "crashed"}
  /\ sent \in Nat /\ now \in 0..MaxTime

(* A new stop time, given at any moment of the set-up, reaches every partition,
   those that exist and those that are still to be created: no partition of the
   vector has another one than the topic. *)
PartitionsStopTogether ==
  \A i \in DOMAIN ConsumerThreads :
    ConsumerThreads[i] # Null => partition[ConsumerThreads[i]].stop = topic.StopConsumeTime

(* A running partition is always in the vector: otherwise nobody could stop it,
   nor wait for its thread. *)
NoPartitionIsLost ==
  \A p \in Parts : partition[p].state \in {"running", "finished"}
                     => Contains(ConsumerThreads, p)

\* The vector of partitions is sound: types, all partitions that run, and one stop
\* time for all of them and those to come.
StructureOK == TypeOK /\ NoPartitionIsLost /\ PartitionsStopTogether

(* Which messages with a Kafka timestamp after the start time minus the leeway a
   partition may skip: none that it held when the broker was asked for the
   offset, and of those that arrived later only the ones before the end of the
   partition as its consumer found it, if the answer was OFFSET_END because there
   was no such message then. Answer, creation and consumer are steps of several
   threads, and the query may have been repeated. *)
NoKnownMessageSkipped ==
  \A p \in Parts :
    partition[p].state # "none" =>
      \A i \in DOMAIN log[p] :
        log[p][i] >= Start - StartLeeway =>
          \/ i > partition[p].position
          \/ partition[p].found.offset = OffsetEnd /\ i > partition[p].found.known

\* The topic as a stream of the StreamController.
status ==
  IF phase = "destroyed" THEN "gone" ELSE IF topic.HasError THEN "failed"
  ELSE IF topic.IsDone THEN "done" ELSE "reading"

Contract == INSTANCE StreamContract
  WITH Streams <- {"this"}, status <- [s \in {"this"} |-> status],
       queued <- [s \in {"this"} |-> sent]

(* Topic implements StreamContract: isDone() is true only when nothing more can
   be queued for writing, not even by the destructors of the partitions, an
   error means that nothing was queued, and neither is ever taken back. *)
ImplementsContract == Contract!Spec

(* Once its stop time has passed for good a topic is done or has an error, with
   a broker that fails as well as with partitions that are still being created. *)
EndsAfterStopTime ==
  <>[](phase = "running" /\ now > topic.StopConsumeTime)
    => <>(topic.IsDone \/ topic.HasError)

(* The destructor returns, although the check whether the topic is done and the
   metadata calls queue themselves. *)
DestructorReturns == phase = "joining" ~> phase \in {"destroyed", "crashed"}

\* A topic ends by itself after its stop time, and whenever it is destroyed.
TopicEnds == EndsAfterStopTime /\ DestructorReturns
=============================================================================
