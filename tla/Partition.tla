------------------------------ MODULE Partition ------------------------------
(***************************************************************************)
(* Stream::Partition (src/Stream/Partition.{h,cpp}): the thread that polls *)
(* one Kafka partition and hands the messages to the source filters, until *)
(* it is told to stop, all filters are done, the stop time has passed or   *)
(* Kafka keeps failing.                                                    *)
(*                                                                         *)
(* The thread is the worker of a ThreadedExecutor; polling is a task that  *)
(* queues itself again. Its other tasks come from two threads: "topic",    *)
(* the executor of the Topic that owns the partition (start, setStopTime,  *)
(* destruction), and "main", from which stop() is called. The partition's  *)
(* log, the clock and the pause switch are the environment.                *)
(***************************************************************************)
EXTENDS SourceFilterOps, PartitionFilterOps, ThreadedExecutor,
        FiniteSets, SequencesExt

CONSTANTS
  Writers,       \* WriteHash: one source filter each
  Sources,       \* SrcHash: the sources the messages come from
  SourceOf,      \* the source each filter listens to
  Start,         \* start of the window
  InitialStops,  \* stop times the partition may be created with
  StopTimes,     \* stop times it may be given later
  Repeats,       \* values of AcceptsRepeatedTimestamps
  TimeStamps,    \* flatbuffer timestamps
  Kinds,         \* what a message may be: source, timestamp, validity, Kafka
                 \* timestamp (the producer's, not the broker's) and by how
                 \* much its offset skips the one that was expected
  PauseValues,   \* values of AreStreamersPausedFunction()
  MaxTime,       \* bound on the clock
  MaxLog,        \* bound on the length of the log
  MaxCalls,      \* bound on the calls of setStopTime
  Marks          \* how many polls are told apart, see mark

ASSUME PartitionAssumption ==
  /\ SourceOf \in [Writers -> Sources]
  /\ Start \in Int /\ InitialStops \subseteq Int /\ StopTimes \subseteq Int
  /\ Repeats \subseteq BOOLEAN /\ PauseValues \subseteq BOOLEAN
  /\ TimeStamps \subseteq Nat \ {0}
  /\ Kinds \subseteq [src : Sources, ts : TimeStamps, valid : BOOLEAN,
                      kafkaTime : Int, skip : Nat]
  /\ MaxTime \in Nat /\ MaxLog \in Nat /\ MaxCalls \in Nat
  /\ Marks \in Nat \ {0}

Threads == {"main", "topic", "self"}

Poll == [do |-> "poll"]
Halt == [do |-> "forceStop"]
NewStop(stop) == [do |-> "setStopTime", stop |-> stop]
Exit == [do |-> "exit"]

VARIABLES
  \* members of the partition, used by its own thread only
  filters,        \* the source filters, those already destroyed included
  live,           \* MsgFilters: the filters not yet destroyed
  StopTime,
  tester,         \* StopTester
  CurrentOffset,
  metrics,        \* the metrics that depend on what the messages were
  answer,         \* what poll() returned, until it is acted on, and
                  \* how long the log was then
  \* members shared with other threads
  HasFinished,
  executor,
  phase,          \* "running", "joining" (in the destructor), "destroyed"
  \* what is outside of the partition
  sent,           \* what each filter queued for writing
  log,            \* the messages of the Kafka partition
  next,           \* the consumer's position in it
  now,            \* the system clock
  paused,         \* AreStreamersPausedFunction()
  stopping,       \* how far the call of stop() has got
  calls,          \* calls of setStopTime so far
  \* history
  asked,          \* the stop time in force, as it was asked for
  finish,         \* why, when and with which stop time it finished
  mark            \* counts the polls modulo Marks: with two marks a poll that
                  \* changes nothing else is a step, and may be repeated for ever

members == <<filters, live, StopTime, tester, CurrentOffset, metrics>>
outside == <<log, now, paused, stopping, calls>>
vars == <<members, answer, HasFinished, executor, phase, sent, next, outside,
          asked, finish, mark>>

NoAnswer == [status |-> "none", seen |-> 0]
NotFinished == [cause |-> "none", at |-> 0, stop |-> 0, seen |-> 0]

Init ==
  /\ \E stop \in InitialStops, repeats \in Repeats :
       /\ filters = [w \in Writers |-> NewFilter(Start, stop, repeats)]
       /\ StopTime = ReducedStop(stop)
       /\ tester = NewTester(stop)
       /\ asked = stop
  /\ live = Writers
  /\ CurrentOffset = 0
  /\ metrics = [Processed |-> 0, BadOffsets |-> 0, FlatbufferErrors |-> 0]
  /\ answer = NoAnswer
  /\ HasFinished = FALSE
  \* Topic::createStreams calls start(), which queues the first poll.
  /\ executor = sendLowPriorityWork(NewExecutor(Threads), "topic", Poll)
  /\ phase = "running"
  /\ sent = [w \in Writers |-> <<>>]
  /\ log = <<>> /\ next = 1 /\ now = 0 /\ paused = FALSE
  /\ stopping = "no" /\ calls = 0
  /\ finish = NotFinished /\ mark = 0

-----------------------------------------------------------------------------
(* The partition's thread. ex is the executor the task was taken from. *)

Finish(cause) ==
  /\ HasFinished' = TRUE
  /\ finish' = [cause |-> cause, at |-> now, stop |-> asked, seen |-> answer.seen]
  /\ UNCHANGED mark

\* Mutant: the task is not queued again.
GoOn_Forgotten(ex) == executor' = ex /\ UNCHANGED <<HasFinished, finish, mark>>

\* addPollTask, at the end of pollForMessage.
GoOn(ex) ==
  /\ executor' = sendLowPriorityWork(ex, "self", Poll)
  /\ mark' = (mark + 1) % Marks
  /\ UNCHANGED <<HasFinished, finish>>

\* pollForMessage, after a stop was requested.
pollStopped(ex) ==
  /\ tester.ForceStop
  /\ Finish("forced")
  /\ executor' = ex
  /\ UNCHANGED <<members, answer, sent, next>>

\* pollForMessage, while the streamers are paused: it sleeps and comes back.
pollPaused(ex) ==
  /\ ~tester.ForceStop /\ paused
  /\ GoOn(ex)
  /\ UNCHANGED <<members, answer, sent, next>>

\* pollForMessage, up to where poll() returns without a message. The consumer
\* reports the end of the partition only when there is nothing left to read.
pollNoMessage(ex) ==
  /\ ~tester.ForceStop /\ ~paused
  /\ \E status \in {"EndOfPartition", "TimedOut", "Error"} :
       /\ status = "EndOfPartition" => next > Len(log)
       /\ answer' = [status |-> status, seen |-> Len(log)]
  /\ executor' = ex
  /\ UNCHANGED <<members, HasFinished, sent, next, finish, mark>>

(* The rest of pollForMessage after a poll() without a message. The clock is
   read here: it may have gone on since, and messages may have arrived. *)
shouldStopBasedOnPollStatus ==
  /\ answer # NoAnswer
  /\ tester' = AfterStatus(tester, answer.status)
  /\ IF ShouldStop(tester, answer.status, now)
     THEN Finish(answer.status) /\ UNCHANGED executor
     ELSE GoOn(executor)
  /\ answer' = NoAnswer
  /\ UNCHANGED <<filters, live, StopTime, CurrentOffset, metrics, sent, next,
                 asked, phase>>

\* Mutant: a filter takes every message, whatever its source.
Matching_AnySource(m) == {w \in live : m.valid}

(* processMessage, for a Kafka message that holds a known and valid flatbuffer
   with a timestamp (m.valid), and for one that does not. *)
Matching(m) == {w \in live : m.valid /\ SourceOf[w] = m.src}

Done(fs) == {w \in DOMAIN fs : fs[w].IsDone}

Filtered(m) ==
  [w \in Writers |-> IF w \in Matching(m) THEN AfterMessage(filters[w], m)
                     ELSE filters[w]]

IsBadOffset(m) == CurrentOffset # 0 /\ CurrentOffset + 1 # m.offset

processMessage(m) ==
  LET fs   == Filtered(m)
      gone == live \intersect Done(fs)
  IN  /\ CurrentOffset' = m.offset
      /\ metrics' = [metrics EXCEPT !.BadOffsets = @ + One(IsBadOffset(m)),
                                    !.FlatbufferErrors = @ + One(~m.valid),
                                    !.Processed = @ + One(Matching(m) # {})]
      /\ filters' = [w \in Writers |-> IF w \in gone THEN AfterFlush(fs[w])
                                       ELSE fs[w]]
      /\ live' = live \ gone
      /\ sent' = [w \in Writers |->
                    IF w \notin Matching(m) THEN sent[w]
                    ELSE sent[w] \o Forwarded(filters[w], m)
                         \o (IF w \in gone THEN BufferedSeq(fs[w]) ELSE <<>>)]

\* Mutant: the Kafka timestamp is compared with the stop time itself.
IsLate_NoLeeway(m) == m.kafkaTime > StopTime

\* The Kafka timestamp of the message is after the stop time and its leeway.
IsLate(m) == m.kafkaTime > Deadline(StopTime)

\* pollForMessage, when poll() returned a message.
pollMessage(ex) ==
  /\ ~tester.ForceStop /\ ~paused
  /\ next <= Len(log)
  /\ next' = next + 1
  /\ tester' = AfterStatus(tester, "Message")
  /\ processMessage(log[next])
  /\ IF live' = {} THEN Finish("filters") /\ executor' = ex
     ELSE IF IsLate(log[next]) THEN Finish("late") /\ executor' = ex
     ELSE GoOn(ex)
  /\ UNCHANGED <<StopTime, answer>>

\* What setStopTime does to the filters that are left.
StopForFilters(stop) ==
  [w \in Writers |-> IF w \in live THEN FilterWithStopTime(filters[w], stop)
                     ELSE filters[w]]

\* The task queued by setStopTime. Unlike the constructor it has no guard
\* against stop times close to time_point::max().
applyStopTime(ex, stop) ==
  /\ StopTime' = stop
  /\ tester' = SetTesterStop(tester, stop)
  /\ filters' = StopForFilters(stop)
  /\ asked' = stop
  /\ executor' = ex
  /\ UNCHANGED <<live, CurrentOffset, metrics, answer, HasFinished, sent, next,
                 finish, mark>>

\* The task queued, twice, by stop().
applyForceStop(ex) ==
  /\ tester' = ForceStop(tester)
  /\ executor' = ex
  /\ UNCHANGED <<filters, live, StopTime, CurrentOffset, metrics, answer,
                 HasFinished, sent, next, asked, finish, mark>>

pollForMessage(ex) ==
  /\ pollStopped(ex) \/ pollPaused(ex) \/ pollNoMessage(ex) \/ pollMessage(ex)
  /\ UNCHANGED asked

\* The worker thread takes its next task.
takeTask ==
  /\ answer = NoAnswer
  /\ \E slot \in Runnable(executor) :
       LET task == Task(executor, slot)
           ex   == Dequeue(executor, slot)
       IN  \/ task = Poll /\ pollForMessage(ex) /\ UNCHANGED phase
           \/ /\ task.do = "setStopTime" /\ applyStopTime(ex, task.stop)
              /\ UNCHANGED phase
           \/ task = Halt /\ applyForceStop(ex) /\ UNCHANGED phase
           \/ /\ task = Exit
              /\ executor' = StopThread(ex)
              /\ UNCHANGED <<members, answer, HasFinished, phase, sent, next,
                             asked, finish, mark>>

\* The worker thread.
Work == (takeTask \/ shouldStopBasedOnPollStatus) /\ UNCHANGED outside

-----------------------------------------------------------------------------
(* The other threads. *)

\* setStopTime, called by the topic's executor.
setStopTime ==
  /\ phase = "running" /\ calls < MaxCalls
  /\ calls' = calls + 1
  /\ \E stop \in StopTimes :
       executor' = sendWork(executor, "topic", NewStop(stop))
  /\ UNCHANGED <<members, answer, HasFinished, phase, sent, next, log, now,
                 paused, stopping, asked, finish, mark>>

\* stop(): the low priority task first, then the high priority one.
stop ==
  /\ phase = "running"
  /\ \/ /\ stopping = "no"
        /\ executor' = sendLowPriorityWork(executor, "main", Halt)
        /\ stopping' = "half"
     \/ /\ stopping = "half"
        /\ executor' = sendWork(executor, "main", Halt)
        /\ stopping' = "done"
  /\ UNCHANGED <<members, answer, HasFinished, phase, sent, next, log, now,
                 paused, calls, asked, finish, mark>>

(* The destructor: Topic::checkIfDone erases a finished partition; a Topic that
   is itself destroyed takes its partitions with it whatever they are doing.
   The executor is the last member: its thread is joined first, and only then
   do the filters go and pass on what they buffer. *)
Destroy ==
  /\ \/ /\ phase = "running" /\ stopping # "half"
        /\ phase' = "joining"
        /\ executor' = sendWork(executor, "topic", Exit)
        /\ UNCHANGED <<filters, live, sent>>
     \/ /\ phase = "joining" /\ ~executor.RunThread
        /\ phase' = "destroyed"
        /\ filters' = [w \in Writers |->
                         IF w \in live THEN AfterFlush(filters[w]) ELSE filters[w]]
        /\ sent' = [w \in Writers |->
                      IF w \in live THEN sent[w] \o BufferedSeq(filters[w])
                      ELSE sent[w]]
        /\ live' = {}
        /\ UNCHANGED executor
  /\ UNCHANGED <<StopTime, tester, CurrentOffset, metrics, answer, HasFinished,
                 next, outside, asked, finish, mark>>

-----------------------------------------------------------------------------
(* The environment: Kafka, the clock and the throttling of the writer. Once the
   destructor has begun the worker thread ends the poll it is in and begins no
   other, so what they do from then on is left out. *)
InUse == phase = "running" \/ answer # NoAnswer

(* The broker appends a message. Its Kafka timestamp is the one its producer
   gave it (CreateTime): early, late, out of order or missing (-1). Offsets may
   jump. *)
Produce ==
  /\ InUse /\ Len(log) < MaxLog
  /\ \E k \in Kinds :
       LET last == IF log = <<>> THEN -1 ELSE log[Len(log)].offset
       IN  log' = Append(log, [id |-> Len(log) + 1, src |-> k.src, ts |-> k.ts,
                               valid |-> k.valid, kafkaTime |-> k.kafkaTime,
                               offset |-> last + 1 + k.skip])
  /\ UNCHANGED <<members, answer, HasFinished, executor, phase, sent, next, now,
                 paused, stopping, calls, asked, finish, mark>>

Tick ==
  /\ InUse
  /\ now < MaxTime \/ Ageing(tester)
  /\ now' = IF now < MaxTime THEN now + 1 ELSE now
  /\ tester' = Older(tester)
  /\ UNCHANGED <<filters, live, StopTime, CurrentOffset, metrics, answer,
                 HasFinished, executor, phase, sent, next, log, paused, stopping,
                 calls, asked, finish, mark>>

Pause ==
  /\ phase = "running"
  /\ paused' \in PauseValues \ {paused}
  /\ UNCHANGED <<members, answer, HasFinished, executor, phase, sent, next, log,
                 now, stopping, calls, asked, finish, mark>>

Next == Work \/ setStopTime \/ stop \/ Destroy \/ Produce \/ Tick \/ Pause

Spec == Init /\ [][Next]_vars

(* The operating system schedules the worker thread, time goes on, and a
   destructor that was entered is not abandoned. *)
FairSpec ==
  /\ Spec /\ WF_vars(Work) /\ WF_vars(Tick)
  /\ WF_vars(phase = "joining" /\ Destroy)
  /\ WF_vars(stopping = "half" /\ stop)

-----------------------------------------------------------------------------
KafkaMessages ==
  [id : Nat, src : Sources, ts : TimeStamps, valid : BOOLEAN,
   kafkaTime : Int, offset : Nat]

AllStops == InitialStops \union StopTimes

\* Every member and queue holds what it is declared to hold.
TypeOK ==
  /\ filters \in [Writers -> FilterType(KafkaMessages, AllStops \union {Start})]
  /\ live \subseteq Writers
  /\ StopTime \in Int /\ tester \in TesterType /\ CurrentOffset \in Nat
  /\ metrics \in [Processed : Nat, BadOffsets : Nat, FlatbufferErrors : Nat]
  /\ answer = NoAnswer
     \/ answer \in [status : {"EndOfPartition", "TimedOut", "Error"},
                    seen : 0..Len(log)]
  /\ HasFinished \in BOOLEAN /\ paused \in BOOLEAN
  /\ phase \in {"running", "joining", "destroyed"}
  /\ stopping \in {"no", "half", "done"}
  /\ sent \in [Writers -> Seq(KafkaMessages)] /\ log \in Seq(KafkaMessages)
  /\ next \in 1..(Len(log) + 1) /\ now \in 0..MaxTime /\ calls \in 0..MaxCalls
  /\ asked \in AllStops /\ mark \in 0..(Marks - 1)

(* The polling task queues itself again in every branch of pollForMessage that
   does not finish, and in no other: there is one as long as the partition has
   not finished and is not in the middle of a poll, also while paused, and never
   two. *)
OnePollTask ==
  Cardinality(Queued(executor, Poll)) = One(~HasFinished /\ answer = NoAnswer)

(* The stop time is kept in three places (Partition, PartitionFilter and each
   source filter); they hold the one asked for last, up to the reduction that
   avoids overflow. *)
StopTimesAgree ==
  /\ tester.StopTime = StopTime
  /\ StopTime \in {asked, ReducedStop(asked)}
  /\ \A w \in live : filters[w].Stop = asked

\* The structure of the partition holds together between any two steps of its
\* threads: types, one polling task, one stop time.
StructureOK == TypeOK /\ OnePollTask /\ StopTimesAgree

(* Partition.cpp:25, "Stop time is reduced if it is too close to max to avoid
   overflow": a partition that nobody stopped and whose polls do not fail
   finishes only when the clock, or the Kafka timestamp of the message it read
   last, is past the stop time in force and the leeway. *)
NotFinishedEarly ==
  LET deadline == finish.stop + StopLeeway
  IN  /\ finish.cause \in {"EndOfPartition", "TimedOut"} => finish.at > deadline
      /\ finish.cause = "late" => log[next - 1].kafkaTime > deadline

\* Message i is older than one read before it by more than the leeway.
OutOfOrder(i) ==
  \E j \in 1..(next - 1) : log[j].kafkaTime > log[i].kafkaTime + StopLeeway

(* Kafka timestamps come from the producers, in no order. When it finishes at
   the end of the partition all that had arrived when the end was found has been
   read; when it finishes at a late message, a message for the time up to the
   stop time is missed only if it came after one that is younger by more than
   the leeway. *)
CompleteUpToStop ==
  \A i \in next..Len(log) :
    /\ finish.cause = "EndOfPartition" => i > finish.seen
    /\ finish.cause = "late" => log[i].kafkaTime > finish.stop \/ OutOfOrder(i)

(* Every filter that is left has been given every valid message of its source
   that was read, whatever happened to the other filters. *)
FiltersSeeTheirSource ==
  \A w \in live :
    filters[w].Received
      = Cardinality({i \in 1..(next - 1) : log[i].valid /\ log[i].src = SourceOf[w]})

(* A filter that is gone (it was done, or the partition was destroyed) has left
   nothing behind: all it kept back is either sent or counted as discarded. *)
NothingLeftBehind ==
  \A w \in Writers :
    /\ Len(sent[w]) = filters[w].Transmitted
    /\ w \notin live =>
         filters[w].Received = filters[w].Transmitted + filters[w].Discarded

(* No message is lost between a partition and the destinations of its filters,
   while filters that have finished are removed in any order. *)
FiltersLoseNothing == FiltersSeeTheirSource /\ NothingLeftBehind

(* Partition.h:53, "Will tell the consumer thread to stop as soon as possible":
   once stop() has returned the partition finishes, paused or not, whatever
   Kafka delivers. *)
StopIsHonoured == stopping = "done" ~> (HasFinished \/ phase # "running")

(* Once the stop time and the leeway are over for good and the streamers are
   not paused, the partition finishes, even if every poll fails. *)
FinishesAfterStop ==
  (<>[](~paused /\ now > Deadline(StopTime)))
    => <>(HasFinished \/ phase # "running")

(* The destructor returns: it joins the worker thread, whose queues may hold
   any number of tasks and a poll that keeps queueing itself. *)
DestructorReturns == phase = "joining" ~> phase = "destroyed"

\* The thread always obeys, to stop() and to the destructor.
EndsWhenTold == StopIsHonoured /\ DestructorReturns
=============================================================================
