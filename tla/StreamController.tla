--------------------------- MODULE StreamController ---------------------------
(***************************************************************************)
(* One writing job: FileWriter::StreamController                           *)
(* (src/StreamController.{h,cpp}) with the writer thread it owns,          *)
(* Stream::MessageWriter (src/Stream/MessageWriter.{h,cpp}).               *)
(*                                                                         *)
(* Threads: the main thread, which checks whether the job is done, may     *)
(* stop it and destroys it; the controller's executor, which sets up the   *)
(* streams and watches them; the writer thread; and the streams. A stream  *)
(* is a Stream::Topic with all of its partitions, seen from outside: it    *)
(* queues messages, may keep back one per filter (held), and is done when  *)
(* its partitions are gone (module Partition).                             *)
(*                                                                         *)
(* Messages are counted, not distinguished. A message that is queued after *)
(* the writer thread has ended is late: nobody will write it.              *)
(***************************************************************************)
EXTENDS Integers, ThreadedExecutor, RemoveIf, SequencesExt, FiniteSetsExt

CONSTANTS
  Topics,          \* topics of the job's sources, in the order of TopicSrcMap
  Null,            \* a unique_ptr that was moved from
  InitialStops,    \* stop times the job may start with
  StopTimes,       \* stop times it may be given
  MaxQueuedWrites, \* limit of the write queue
  Faults,          \* what may fail: "metadata", "topic", "stream"
  Commands,        \* what the main thread may do: "setStopTime", "stopNow"
  MaxMessages,     \* bound on the messages of a stream
  MaxTime          \* bound on the clock

Streams == Range(Topics)

ASSUME StreamControllerAssumption ==
  /\ Topics \in Seq(Streams) /\ IsInjective(Topics) /\ Null \notin Streams
  /\ InitialStops \subseteq Nat /\ StopTimes \subseteq Nat
  /\ MaxQueuedWrites \in Nat /\ MaxMessages \in Nat /\ MaxTime \in Nat
  /\ Faults \subseteq {"metadata", "topic", "stream"}
  /\ Commands \subseteq {"setStopTime", "stopNow"}

VARIABLES
  \* the controller
  controller,  \* HasError, StopNow, StreamersRemaining, StreamersPaused and
               \* StreamerOptions.StopTimestamp
  Streamers,   \* the vector of streams
  executor,
  busy,        \* what the executor's task is in the middle of
  phase,       \* how far the main thread is with the job
  outcome,     \* what it reports about the job
  \* the writer thread
  writer,      \* RunThread and the place in threadFunction
  queued,      \* WriteJobs, per stream
  written,     \* WritesDone + WriteErrors, per stream
  \* the streams
  stream,      \* their state
  stop,        \* their stop time
  sent,        \* messages that were queued
  held,        \* a message is kept back by a filter
  late,        \* messages that were queued after the writer had ended
  now,         \* the system clock
  \* history
  commanded,   \* what the main thread was told about the end of the job
  raced        \* the vector of streams was changed by the executor while the
               \* main thread walked through it

control == <<controller, Streamers, executor, busy>>
writing == <<writer, written>>
streams == <<stream, stop, sent, held, late, queued>>
vars == <<control, phase, outcome, writing, streams, now, commanded, raced>>

GetTopicNames == [do |-> "getTopicNames"]
InitStreams == [do |-> "initStreams"]
Checks == [do |-> "performPeriodicChecks"]
NewStop(t) == [do |-> "setStopTime", stop |-> t]
Exit == [do |-> "exit"]

Free == [do |-> "nothing"]
Creating(i) == [do |-> "creating", next |-> i]
Erasing(n) == [do |-> "erasing", keep |-> n]
Failing == [do |-> "failing"]

Init ==
  /\ \E t \in InitialStops :
       controller = [HasError |-> FALSE, StopNow |-> FALSE,
                     StreamersRemaining |-> TRUE, StreamersPaused |-> FALSE,
                     StopTimestamp |-> t]
  /\ Streamers = <<>> /\ busy = Free
  /\ executor = sendLowPriorityWork(NewExecutor({"main", "self"}), "main",
                                    GetTopicNames)
  /\ phase = "running" /\ outcome = "none"
  /\ writer = [RunThread |-> TRUE, at |-> "loop"]
  /\ queued = [s \in Streams |-> 0] /\ written = [s \in Streams |-> 0]
  /\ stream = [s \in Streams |-> "none"] /\ stop = [s \in Streams |-> 0]
  /\ sent = [s \in Streams |-> 0] /\ held = [s \in Streams |-> FALSE]
  /\ late = [s \in Streams |-> 0]
  /\ now = 0 /\ commanded = "nothing" /\ raced = FALSE

-----------------------------------------------------------------------------
(* The controller's executor. Its tasks run one after the other, but two of
   them are long enough for the other threads to see them half done: creating
   the streams, and erasing those that are done, whose destructors join threads
   of their own. *)

\* MessageWriter::stop and the first line of ~MessageWriter
stopWriter == [writer EXCEPT !.RunThread = FALSE]

(* stop(): it follows every pointer of the vector, and crashes on one that is
   null. The main thread walks through the vector without a lock: once it was
   changed meanwhile the behaviour is undefined, and may be to go on. When the
   streams end is up to them, so that they are told to makes no difference. *)
stopStreams(ctl, next) ==
  \/ /\ Contains(Streamers, Null) \/ raced
     /\ phase' = "crashed" /\ UNCHANGED <<controller, writer>>
  \/ /\ ~Contains(Streamers, Null) \/ raced
     /\ controller' = [ctl EXCEPT !.StopNow = TRUE]
     /\ writer' = stopWriter
     /\ phase' = next

getTopicNames(ex) ==
  /\ \/ executor' = sendLowPriorityWork(ex, "self", InitStreams)
     \/ /\ "metadata" \in Faults
        /\ executor' = sendLowPriorityWork(ex, "self", GetTopicNames)
  /\ UNCHANGED <<controller, Streamers, busy, phase, writing, streams>>

\* initStreams: a source with an unknown topic is an error, or it begins to
\* create the streams.
initStreams(ex) ==
  /\ executor' = ex
  /\ \/ busy' = Creating(1) /\ UNCHANGED controller
     \/ /\ "topic" \in Faults
        /\ controller' = [controller EXCEPT !.HasError = TRUE]
        /\ UNCHANGED busy
  /\ UNCHANGED <<Streamers, phase, writing, streams>>

\* One turn of the loop of initStreams, or the task it queues at the end.
createStream ==
  /\ busy.do = "creating"
  /\ IF busy.next <= Len(Topics)
     THEN LET s == Topics[busy.next]
          IN  /\ Streamers' = Append(Streamers, s)
              /\ stream' = [stream EXCEPT ![s] = "reading"]
              /\ stop' = [stop EXCEPT ![s] = controller.StopTimestamp]
              /\ busy' = Creating(busy.next + 1)
              /\ UNCHANGED executor
     ELSE /\ executor' = sendLowPriorityWork(executor, "self", Checks)
          /\ busy' = Free
          /\ UNCHANGED <<Streamers, stream, stop>>
  /\ UNCHANGED <<controller, phase, writing, sent, held, late, queued>>

\* The task queued by setStopTime.
applyStopTime(ex, t) ==
  /\ executor' = ex
  /\ stop' = [s \in Streams |-> IF Contains(Streamers, s) THEN t ELSE stop[s]]
  /\ UNCHANGED <<controller, Streamers, busy, phase, writing, stream, sent, held,
                 late, queued>>

IsDone(s) == s # Null /\ stream[s] = "done"
NotDone == {s \in Streams \union {Null} : ~IsDone(s)}

\* The first stream whose isDone() throws.
Thrower == SelectInSeq(Streamers, LAMBDA s : s # Null /\ stream[s] = "failed")

\* The streams that are not done, of the n that the predicate was asked about.
KeptOf(n) == Kept(SubSeq(Streamers, 1, n), NotDone)

(* What std::remove_if leaves of the vector, if its predicate throws after n
   streams or is asked about all n: streams that are not done have moved up to
   fill the places of those that are. *)
Moved(n) ==
  LET kept == KeptOf(n)
  IN  [i \in DOMAIN Streamers |->
         IF i <= Len(kept) THEN kept[i]
         ELSE IF i <= n /\ ~IsDone(Streamers[i]) THEN Null
         ELSE Streamers[i]]

\* The destructor of a stream that was erased or overwritten.
ErasedFrom(left) ==
  [s \in Streams |-> IF Contains(Streamers, s) /\ ~Contains(left, s)
                     THEN "gone" ELSE stream[s]]

\* Mutant: there is no hysteresis threshold to get below.
ResumeBelow_Never(n) == FALSE

\* n < 0.8 * MaxQueuedWrites
ResumeBelow(n) == 10 * n < 8 * MaxQueuedWrites

throttleIfWriteQueueIsFull(paused) ==
  LET n == FoldFunction(+, 0, queued)
  IN  IF n > MaxQueuedWrites THEN TRUE
      ELSE IF ResumeBelow(n) THEN FALSE ELSE paused


\* The checks queue themselves.
nextChecks(ex) == sendLowPriorityWork(ex, "self", Checks)

\* performPeriodicChecks from the end of erase, which leaves the given vector.
endChecks(ex, left) ==
  /\ Streamers' = left
  /\ stream' = ErasedFrom(left)
  /\ controller' =
       [controller EXCEPT
          !.StreamersRemaining = @ /\ left # <<>>,
          !.StreamersPaused = throttleIfWriteQueueIsFull(@)]
  /\ executor' = nextChecks(ex)
  /\ busy' = Free
  /\ UNCHANGED <<phase, writing, stop, sent, held, late, queued>>

\* No stream is done: remove_if and erase leave the vector alone.
checksFindNone(ex) ==
  /\ Thrower = 0 /\ Len(KeptOf(Len(Streamers))) = Len(Streamers)
  /\ endChecks(ex, Streamers)

\* Some are: up to the end of remove_if, and to the destructors in erase.
checksFindDone(ex) ==
  LET all == Len(Streamers)
  IN  /\ Thrower = 0 /\ Len(KeptOf(all)) < all
      /\ Streamers' = Moved(all)
      /\ stream' = ErasedFrom(Moved(all))
      /\ busy' = Erasing(Len(KeptOf(all)))
      /\ executor' = ex
      /\ UNCHANGED <<controller, phase, writing, stop, sent, held, late, queued>>

\* Mutant: the streams that are done are not erased.
erasedVector_Not == Streamers

erasedVector == SubSeq(Streamers, 1, busy.keep)

\* The end of erase, and the rest of the task.
erase == busy.do = "erasing" /\ endChecks(executor, erasedVector)

HasErrorFirst == [controller EXCEPT !.HasError = TRUE]

\* performPeriodicChecks, up to the exception and the first line of its handler.
checksThrow(ex) ==
  /\ Thrower # 0
  /\ Streamers' = Moved(Thrower - 1)
  /\ stream' = ErasedFrom(Moved(Thrower - 1))
  /\ controller' = HasErrorFirst
  /\ executor' = ex
  /\ busy' = Failing
  /\ UNCHANGED <<phase, writing, stop, sent, held, late, queued>>

\* The rest of the handler, stop() and then StreamersRemaining, and of the task.
fail ==
  /\ busy = Failing
  /\ stopStreams([controller EXCEPT
                    !.StreamersRemaining = FALSE,
                    !.StreamersPaused = throttleIfWriteQueueIsFull(@)], phase)
  /\ busy' = Free
  /\ executor' = nextChecks(executor)
  /\ UNCHANGED <<Streamers, written, streams>>

performPeriodicChecks(ex) ==
  checksFindNone(ex) \/ checksFindDone(ex) \/ checksThrow(ex)

runExit(ex) ==
  /\ executor' = StopThread(ex)
  /\ UNCHANGED <<controller, Streamers, busy, phase, writing, streams>>

ExecutorTask ==
  /\ busy = Free
  /\ \E slot \in Runnable(executor) :
       LET task == Task(executor, slot)
           ex   == Dequeue(executor, slot)
       IN  \/ task = GetTopicNames /\ getTopicNames(ex)
           \/ task = InitStreams /\ initStreams(ex)
           \/ task = Checks /\ performPeriodicChecks(ex)
           \/ task.do = "setStopTime" /\ applyStopTime(ex, task.stop)
           \/ task = Exit /\ runExit(ex)

Alive == phase # "crashed"

\* The main thread is in stop().
Walking == phase \in {"stopping", "leaving"}

Executor ==
  /\ Alive
  /\ ExecutorTask \/ createStream \/ erase \/ fail
  /\ raced' = (raced \/ (Walking /\ Streamers' # Streamers))
  /\ UNCHANGED <<outcome, now, commanded>>

-----------------------------------------------------------------------------
(* The writer thread, MessageWriter::threadFunction: it writes until the queue
   is empty, flushes, and sleeps; told to end, it empties the queue once more.
   When and how often data is flushed to disk is left out. *)

Goto(place) == writer' = [writer EXCEPT !.at = place]

\* Mutant: what is left in the queue at the end is not written.
LastPlace_NoWrite == "ended"

LastPlace == "final"

\* The condition of the loop. That it is read again before the thread sleeps
\* makes no difference: both lead to the same last WriteOperation.
WriterLoop ==
  /\ writer.at = "loop"
  /\ Goto(IF writer.RunThread THEN "write" ELSE LastPlace)
  /\ UNCHANGED <<written, queued>>

\* try_dequeue
Pending(s) == queued[s] > 0

\* WriteOperation takes a message of any stream. Writing it may fail, which is
\* counted, and nothing else.
WriteMessage ==
  /\ writer.at \in {"write", "final"}
  /\ \E s \in Streams :
       /\ Pending(s)
       /\ queued' = [queued EXCEPT ![s] = @ - 1]
       /\ written' = [written EXCEPT ![s] = @ + 1]
  /\ UNCHANGED writer

WriteDone ==
  /\ writer.at \in {"write", "final"}
  /\ \A s \in Streams : ~Pending(s)
  /\ Goto(IF writer.at = "write" THEN "loop" ELSE "ended")
  /\ UNCHANGED <<written, queued>>

WriterThread ==
  /\ Alive
  /\ WriterLoop \/ WriteMessage \/ WriteDone
  /\ UNCHANGED <<control, phase, outcome, stream, stop, sent, held, late, now,
                 commanded, raced>>

-----------------------------------------------------------------------------
(* The streams. *)

\* MessageWriter::addMessage, for n messages of s.
addMessages(s, n) ==
  /\ sent' = [sent EXCEPT ![s] = @ + n]
  /\ IF writer.at = "ended"
     THEN late' = [late EXCEPT ![s] = @ + n] /\ UNCHANGED queued
     ELSE queued' = [queued EXCEPT ![s] = @ + n] /\ UNCHANGED late

Held(s) == IF held[s] THEN 1 ELSE 0

\* A message before the start of the window is kept back.
HoldMessage ==
  /\ Alive /\ ~controller.StreamersPaused
  /\ \E s \in Streams :
       /\ stream[s] = "reading" /\ ~held[s] /\ sent[s] = 0
       /\ held' = [held EXCEPT ![s] = TRUE]
  /\ UNCHANGED <<control, phase, outcome, writing, stream, stop, sent, late,
                 queued, now, commanded, raced>>

\* A message of the window is queued, after the one kept back.
ReadMessage ==
  /\ Alive /\ ~controller.StreamersPaused
  /\ \E s \in Streams :
       /\ stream[s] = "reading" /\ sent[s] + Held(s) < MaxMessages
       /\ addMessages(s, Held(s) + 1)
       /\ held' = [held EXCEPT ![s] = FALSE]
  /\ UNCHANGED <<control, phase, outcome, writing, stream, stop, now, commanded,
                 raced>>

\* Mutant: the topic is done before its partitions are destroyed.
StreamDone_TooSoon(s) ==
  /\ Alive /\ stream[s] = "reading"
  /\ stream' = [stream EXCEPT ![s] = "done"]
  /\ UNCHANGED <<control, phase, outcome, writing, stop, sent, held, late, queued,
                 now, commanded, raced>>

\* The partitions have finished and are destroyed; only then is the topic done.
StreamDone(s) ==
  /\ Alive /\ stream[s] = "reading"
  /\ stream' = [stream EXCEPT ![s] = "done"]
  /\ addMessages(s, Held(s))
  /\ held' = [held EXCEPT ![s] = FALSE]
  /\ UNCHANGED <<control, phase, outcome, writing, stop, now, commanded, raced>>

\* The meta data of the topic could not be had.
StreamFails ==
  /\ Alive /\ "stream" \in Faults
  /\ \E s \in Streams :
       /\ stream[s] = "reading" /\ sent[s] = 0 /\ ~held[s]
       /\ stream' = [stream EXCEPT ![s] = "failed"]
  /\ UNCHANGED <<control, phase, outcome, writing, stop, sent, held, late, queued,
                 now, commanded, raced>>

-----------------------------------------------------------------------------
(* The main thread. *)

outer == <<Streamers, busy, outcome, written, streams, now>>

\* Mutant: only the streams that exist are told.
setStopTimestamp_Not(ctl, t) == ctl

setStopTimestamp(ctl, t) == [ctl EXCEPT !.StopTimestamp = t]

\* StreamController::setStopTime
setStopTime ==
  /\ phase = "running" /\ "setStopTime" \in Commands
  /\ commanded = "nothing"
  /\ \E t \in StopTimes :
       /\ controller' = setStopTimestamp(controller, t)
       /\ executor' = sendWork(executor, "main", NewStop(t))
  /\ commanded' = "setStopTime"
  /\ UNCHANGED <<outer, phase, writer, raced>>

\* The main thread enters stop() on its way to the given phase.
enterStop(place) ==
  /\ phase' = place
  /\ raced' = (raced \/ busy.do = "erasing")
  /\ UNCHANGED <<Streamers, busy, written, streams, now, controller, executor,
                 writer>>

\* Master::stopNow
stopNow ==
  /\ phase = "running" /\ "stopNow" \in Commands /\ ~controller.StopNow
  /\ enterStop("stopping")
  /\ commanded' = "stopNow"
  /\ UNCHANGED outcome

\* The rest of it: the end of stop(), then setStopTime() with the current time.
stoppedNow ==
  /\ phase = "stopping"
  /\ stopStreams(setStopTimestamp(controller, now), "running")
  /\ executor' = sendWork(executor, "main", NewStop(now))
  /\ UNCHANGED <<outer, commanded, raced>>

isDoneWriting ==
  \/ controller.HasError \/ controller.StopNow
  \/ /\ ~controller.StreamersRemaining
     /\ controller.StopTimestamp # 0 /\ now > controller.StopTimestamp

\* Master::run finds the job done.
hasWritingStopped ==
  /\ phase = "running" /\ isDoneWriting
  /\ phase' = "done"
  /\ UNCHANGED <<outer, controller, executor, writer, commanded, raced>>

\* Master::setToIdle reports the outcome and enters the destructor: stop().
setToIdle ==
  /\ phase = "done"
  /\ outcome' = IF controller.HasError THEN "Failure" ELSE "Success"
  /\ enterStop("leaving")
  /\ UNCHANGED commanded

leave ==
  /\ phase = "leaving"
  /\ stopStreams(controller, "metadata")
  /\ UNCHANGED <<outer, executor, commanded, raced>>

\* The metadata has been written; the members go, the executor first.
writeMetadata ==
  /\ phase = "metadata" /\ phase' = "joining"
  /\ executor' = sendWork(executor, "main", Exit)
  /\ UNCHANGED <<outer, controller, writer, commanded, raced>>

\* The destructor of the writer thread begins.
joinExecutor ==
  /\ phase = "joining" /\ ~executor.RunThread
  /\ phase' = "draining"
  /\ writer' = stopWriter
  /\ UNCHANGED <<outer, controller, executor, commanded, raced>>

\* It returns, although the streams that are left still use it.
joinWriter ==
  /\ phase = "draining" /\ writer.at = "ended"
  /\ phase' = "unwinding"
  /\ UNCHANGED <<outer, controller, executor, writer, commanded, raced>>

\* Then the streams, whose filters pass on what they have kept back.
destroyStreams ==
  /\ phase = "unwinding" /\ phase' = "destroyed"
  /\ stream' = [s \in Streams |-> IF stream[s] = "none" THEN "none" ELSE "gone"]
  /\ sent' = [s \in Streams |-> sent[s] + Held(s)]
  /\ late' = [s \in Streams |-> late[s] + Held(s)]
  /\ held' = [s \in Streams |-> FALSE]
  /\ UNCHANGED <<control, outcome, writing, stop, queued, now, commanded, raced>>

Main ==
  \/ stoppedNow \/ hasWritingStopped \/ setToIdle \/ leave \/ writeMetadata
  \/ joinExecutor \/ joinWriter \/ destroyStreams

Active == phase \in {"running", "stopping"}

\* After that nobody looks at the clock.
Tick ==
  /\ phase = "running" /\ ~controller.StopNow
  /\ now < MaxTime /\ now' = now + 1
  /\ UNCHANGED <<control, phase, outcome, writing, streams, commanded, raced>>

Next ==
  \/ Executor \/ WriterThread \/ HoldMessage \/ ReadMessage
  \/ (\E s \in Streams : StreamDone(s)) \/ StreamFails
  \/ setStopTime \/ stopNow \/ Main \/ Tick

Spec == Init /\ [][Next]_vars

MayEnd(s) == ~controller.StreamersPaused /\ now > stop[s]

(* All threads are scheduled, time goes on, the broker lists its topics some day
   (a repeated call of getTopicNames leaves everything as it was), and a stream
   that is no more paused ends some time after its stop time, as module Partition
   shows of its partitions (FinishesAfterStop). *)
FairSpec ==
  /\ Spec /\ WF_vars(Executor) /\ WF_vars(WriterThread) /\ WF_vars(Main)
  /\ WF_vars(Tick)
  /\ \A s \in Streams : WF_vars(MayEnd(s) /\ StreamDone(s))

-----------------------------------------------------------------------------
\* Every member holds what it is declared to hold.
TypeOK ==
  /\ controller \in [HasError : BOOLEAN, StopNow : BOOLEAN,
                     StreamersRemaining : BOOLEAN, StreamersPaused : BOOLEAN,
                     StopTimestamp : InitialStops \union StopTimes \union 0..MaxTime]
  /\ Streamers \in Seq(Streams \union {Null})
  /\ phase \in {"running", "stopping", "done", "leaving", "metadata", "joining",
                "draining", "unwinding", "destroyed", "crashed"}
  /\ outcome \in {"none", "Success", "Failure"}
  /\ writer \in [RunThread : BOOLEAN,
                 at : {"loop", "write", "final", "ended"}]
  /\ stream \in [Streams -> {"none", "reading", "done", "failed", "gone"}]
  /\ sent \in [Streams -> Nat] /\ queued \in [Streams -> Nat]
  /\ written \in [Streams -> Nat] /\ late \in [Streams -> Nat]
  /\ held \in [Streams -> BOOLEAN] /\ now \in 0..MaxTime
  /\ commanded \in {"nothing", "setStopTime", "stopNow"} /\ raced \in BOOLEAN

\* Nobody told the job to stop at once, and it had no error.
EndedByItself == outcome = "Success" /\ commanded # "stopNow"

(* A job that ended by itself has every message of every topic in the file: all
   topics were read to their end, also if the job was set up slowly, and the
   writer thread has written all they queued before the file is closed. *)
CompleteWhenEnded ==
  EndedByItself /\ phase = "destroyed" =>
    \A s \in Streams : stream[s] = "gone" /\ written[s] = sent[s] /\ late[s] = 0

(* An error of a stream is never hidden: no job one of whose streams failed is
   reported as a success, unless it was stopped by a command. *)
ErrorsAreReported ==
  EndedByItself => \A s \in Streams : stream[s] # "failed"

(* The destructor walks through the vector of streams without a lock, while the
   executor goes on with its checks. In a job that is neither stopped at once nor
   has an error the vector is empty by then, and does not change any more. *)
NoRaceAtTheEnd == raced => commanded = "stopNow" \/ controller.HasError

(* The end of a job is reported as it was: a success is complete, and nothing
   undefined happened on the way to it. *)
SuccessIsComplete == CompleteWhenEnded /\ ErrorsAreReported /\ NoRaceAtTheEnd

(* A new stop time reaches all streams, those that exist, those that are being
   created and those that will be. *)
StopTimeReachesStreams ==
  (\A t \in StopTimes \union 0..MaxTime : Queued(executor, NewStop(t)) = {})
    => \A s \in Streams : stream[s] \in {"reading", "done"} /\ Contains(Streamers, s)
                            => stop[s] = controller.StopTimestamp

\* Types, and one stop time for the controller and all of its streams.
StructureOK == TypeOK /\ StopTimeReachesStreams

(* StreamController.h:81, "will trigger open streams to stop as soon as possible":
   except while the executor erases streams the vector that stop() walks through
   holds streams only. *)
StreamersAreValid == busy.do # "erasing" => ~Contains(Streamers, Null)

\* Streams that were paused because the write queue was full are resumed.
PausedStreamsResume ==
  controller.StreamersPaused ~> (~controller.StreamersPaused \/ ~Active)

(* A job that is done is taken down completely: the destructors of the executor
   and of the writer thread return, whatever is queued. The exception is a job in
   which stop() met a change of the vector, after which anything may happen. *)
JobIsTakenDown == phase = "done" ~> (phase = "destroyed" \/ raced)

\* The streams as they promise to behave; module Topic keeps that promise.
Contract == INSTANCE StreamContract WITH status <- stream, queued <- sent

(* Every stream is treated as it expects: started once, silent after it was done
   or had failed, and destroyed once, before, at or after its end. *)
StreamsFollowContract == Contract!Spec

=============================================================================
