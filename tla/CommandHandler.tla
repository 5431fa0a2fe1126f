---------------------------- MODULE CommandHandler ----------------------------
(***************************************************************************)
(* Command and control of one file-writer: Command::Handler                *)
(* (src/CommandSystem/Handler.cpp) with its listeners, FileWriter::Master  *)
(* (src/Master.cpp), which calls it in a loop and owns the job, and the    *)
(* switching of the status topic (src/Status/StatusReporterBase.cpp).      *)
(*                                                                         *)
(* All of it runs in the main thread, whose loop is cut into the steps     *)
(* between which the rest of the world can be noticed: poll the job pool,  *)
(* poll the command topic, look if the job is done, return to idle. The    *)
(* job itself, a StreamController with its threads, is represented by the  *)
(* members of it that the main thread reads.                               *)
(***************************************************************************)
EXTENDS Naturals, Sequences, SequencesExt, FiniteSets

CONSTANTS
  Jobs,           \* job ids
  Default,        \* the topic of --command-uri, also used for status messages
  ControlTopics,  \* alternative topics a start command may ask for
  None,           \* an empty string
  Own,            \* this service id
  Never,          \* time_point::max(): the stop time of a job without one
  PoolCommands,   \* what the job pool may deliver
  TopicCommands,  \* what may be sent to each topic
  Faults,         \* what may fail in this instance
  MaxPool,        \* bound on the messages of the pool
  MaxCommands,    \* bound on the messages of the other topics
  MaxTime,        \* bound on the clock
  MaxSkew         \* bound on how far the time stamp of a message is from the
                  \* time at which the broker has it

AllTopics == {Default} \union ControlTopics

StopTimes == 0..MaxTime \union {Never}

(* The id of a start command's job and of a stop command is "valid", "nil" (a
   UUID of the wrong kind) or "malformed" (no UUID). *)
Ids == {"valid", "nil", "malformed"}

StartCommands ==
  [type : {"start"}, readable : BOOLEAN, service : {None, Own, "other"},
   job : Jobs, id : Ids, topic : ControlTopics \union {None},
   start : 0..MaxTime, stop : StopTimes \ {0}]

StopCommands ==
  [type : {"stop"}, readable : BOOLEAN, service : {None, Own, "other"},
   job : Jobs, id : Ids, stop : StopTimes]

OtherMessage == [type |-> "other"]

Commands == StartCommands \union StopCommands \union {OtherMessage}

\* A message of a topic, with the Kafka timestamp its producer gave it.
Messages == [command : Commands, time : 0..MaxTime]

ASSUME CommandHandlerAssumption ==
  /\ MaxPool \in Nat /\ MaxCommands \in Nat /\ MaxTime \in Nat \ {0}
  /\ MaxSkew \in Nat
  /\ Never \in Nat /\ Never > MaxTime
  /\ Default \notin ControlTopics /\ None \notin AllTopics /\ None # Own
  /\ PoolCommands \subseteq Commands
  /\ TopicCommands \in [AllTopics -> SUBSET Commands]
  /\ Faults \subseteq {"connect", "switch", "create", "status", "job"}

VARIABLES
  pc,           \* the step the main thread is at
  handler,      \* members of the Handler: where commands come from, where
                \* responses go
  pos,          \* messages of its topic the command listener is past
  poolConnected,\* the JobListener has a consumer
  status,       \* Master::CurrentStatus
  controller,   \* Master::CurrentStreamController
  statusTopic,  \* the topic of the StatusProducerTopic
  topics,       \* the messages of the command topics
  taken,        \* messages taken from the pool so far
  now,          \* the system clock
  replies,      \* history: what was published by the feedback producers, in
                \* order: jobs started, jobs ended, and other responses
  home          \* history: the control topic of the job, Default if none

vars == <<pc, handler, pos, poolConnected, status, controller, statusTopic,
          topics, taken, now, replies, home>>

(* A listener has no consumer before it is polled for the first time. It wants
   the commands since the time `from`; for the default topic that is
   time_point::max(), no time at all. *)
Listener(topic, from) == [topic |-> topic, from |-> from, consumer |-> "none"]

Idle == [State |-> "Idle", JobId |-> None, StopTime |-> 0]

\* orphan is a history: startWriting failed after it had made the controller.
NoController ==
  [exists |-> FALSE, orphan |-> FALSE, HasError |-> FALSE, StopNow |-> FALSE,
   StreamersRemaining |-> FALSE, StopTimestamp |-> 0]

NewController(stop) ==
  [exists |-> TRUE, orphan |-> FALSE, HasError |-> FALSE, StopNow |-> FALSE,
   StreamersRemaining |-> TRUE, StopTimestamp |-> stop]

Init ==
  /\ pc = "pool"
  /\ handler = [CommandSource |-> Listener(Default, Never), CommandResponse |-> Default,
                AltCommandResponse |-> None, UsingAltTopic |-> FALSE]
  /\ poolConnected = FALSE /\ pos = 0
  /\ status = Idle /\ controller = NoController
  /\ statusTopic = Default
  /\ topics = [t \in AllTopics |-> <<>>] /\ taken = 0 /\ now = 1
  /\ replies = [started |-> <<>>, ended |-> <<>>, other |-> <<>>]
  /\ home = Default

-----------------------------------------------------------------------------
IsWritingNow == status.State = "Writing"

(* isValidUUID dereferences the result of from_string without a look at it: for
   a string that is no UUID the outcome is undefined. *)
isValidUUID(id) ==
  CASE id = "valid" -> {TRUE} [] id = "nil" -> {FALSE} [] id = "malformed" -> BOOLEAN

revertCommandTopic(h) ==
  IF h.UsingAltTopic
  THEN [CommandSource |-> Listener(Default, Never),
        CommandResponse |-> h.AltCommandResponse,
        AltCommandResponse |-> h.CommandResponse,
        UsingAltTopic |-> FALSE]
  ELSE h

\* The start time of a job that gives none is when its command is read.
StartTime(c) == IF c.start > 0 THEN c.start ELSE now

\* The fifth step of handleStartCommand, for a job from the pool.
useControlTopic(h, topic, from) ==
  IF topic = None THEN h
  ELSE [CommandSource |-> Listener(topic, from), CommandResponse |-> topic,
        AltCommandResponse |-> h.CommandResponse, UsingAltTopic |-> TRUE]

Response(topic, about, job, service, code) ==
  [topic |-> topic, about |-> about, job |-> job, service |-> service,
   code |-> code]

publishResponse(topic, c, code) ==
  LET response == Response(topic, c.type, c.job, c.service, code)
  IN  replies' = IF c.type = "start" /\ code = "201"
                 THEN [replies EXCEPT !.started = Append(@, response)]
                 ELSE [replies EXCEPT !.other = Append(@, response)]

\* Answered by nobody, by an error response, or not rejected at all.
StartRejection(c, isPool, validId) ==
  IF ~c.readable \/ isPool # (c.service # Own) THEN "silently"
  ELSE IF IsWritingNow \/ ~validId \/ (c.topic # None /\ ~isPool) THEN "400"
  ELSE "no"

\* The steps before the last one, when one of them returns false.
rejectStart(c, isPool, validId) ==
  /\ StartRejection(c, isPool, validId) # "no"
  /\ handler' = revertCommandTopic(handler)
  /\ IF StartRejection(c, isPool, validId) = "400"
     THEN publishResponse(handler'.CommandResponse, c, "400")
     ELSE UNCHANGED replies
  /\ UNCHANGED <<status, controller, statusTopic, home>>

\* Creating the producer for the control topic throws: none of the steps'
\* clean-up is done.
switchFails(c) ==
  /\ "switch" \in Faults /\ c.topic # None
  /\ handler' = [handler EXCEPT !.CommandSource = Listener(c.topic, StartTime(c))]
  /\ UNCHANGED <<status, controller, statusTopic, replies, home>>

\* Mutant: a job that could not be started does not give up its topic.
AfterFailedStart_Kept(h) == h

AfterFailedStart(h) == revertCommandTopic(h)

\* Mutant: the job is already there when the file cannot be created.
startFails_LeftBehind(c) ==
  /\ "create" \in Faults
  /\ controller' = NewController(c.stop)
  /\ handler' = AfterFailedStart(useControlTopic(handler, c.topic, StartTime(c)))
  /\ publishResponse(handler'.CommandResponse, c, "500")
  /\ UNCHANGED <<status, statusTopic, home>>

\* Master::startWriting throws: before the job exists, or after it does, when
\* the producer for the status messages cannot be created.
startFails(c) ==
  /\ \/ "create" \in Faults /\ UNCHANGED controller
     \/ /\ "status" \in Faults /\ c.topic # None
        /\ controller' = [NewController(c.stop) EXCEPT !.orphan = TRUE]
  /\ handler' = AfterFailedStart(useControlTopic(handler, c.topic, StartTime(c)))
  /\ publishResponse(handler'.CommandResponse, c, "500")
  /\ UNCHANGED <<status, statusTopic, home>>

useAlternativeStatusTopic(topic) ==
  statusTopic' = IF topic # None /\ statusTopic = Default THEN topic
                 ELSE statusTopic

startWriting(c) ==
  /\ handler' = useControlTopic(handler, c.topic, StartTime(c))
  /\ controller' = NewController(c.stop)
  /\ useAlternativeStatusTopic(c.topic)
  /\ status' = [State |-> "Writing", JobId |-> c.job, StopTime |-> c.stop]
  /\ home' = IF c.topic = None THEN Default ELSE c.topic
  /\ publishResponse(handler'.CommandResponse, c, "201")

handleStartCommand(c, isPool) ==
  \E validId \in isValidUUID(c.id) :
    \/ rejectStart(c, isPool, validId)
    \/ /\ StartRejection(c, isPool, validId) = "no"
       /\ switchFails(c) \/ startFails(c) \/ startWriting(c)

(* The third and the fourth step decide whether to answer before the command is
   read, when its service id is still empty: they never do. *)
StopRejection(c, validId) ==
  IF \/ ~c.readable \/ c.service \notin {None, Own}
     \/ ~IsWritingNow \/ status.JobId # c.job
  THEN "silently"
  ELSE IF ~validId THEN "400" ELSE "no"

rejectStop(c, validId) ==
  /\ StopRejection(c, validId) # "no"
  /\ IF StopRejection(c, validId) = "400"
     THEN publishResponse(handler.CommandResponse, c, "400")
     ELSE UNCHANGED replies
  /\ UNCHANGED <<status, controller>>

\* Master::stopNow
stopNow(c) ==
  /\ c.stop = 0
  /\ controller' = [controller EXCEPT !.StopNow = TRUE, !.StopTimestamp = now]
  /\ status' = [status EXCEPT !.StopTime = 0]
  /\ publishResponse(handler.CommandResponse, c, "201")

\* Mutant: the stop time may be changed until the job has ended.
StopTimePassed_Never == FALSE

StopTimePassed == status.StopTime < now

withStopTime(stop) == [controller EXCEPT !.StopTimestamp = stop]

\* Master::setStopTime
setStopTime(c) ==
  /\ c.stop # 0
  /\ IF StopTimePassed
     THEN /\ publishResponse(handler.CommandResponse, c, "500")
          /\ UNCHANGED <<status, controller>>
     ELSE /\ controller' = withStopTime(c.stop)
          /\ status' = [status EXCEPT !.StopTime = c.stop]
          /\ publishResponse(handler.CommandResponse, c, "201")

handleStopCommand(c) ==
  /\ \E validId \in isValidUUID(c.id) :
       \/ rejectStop(c, validId)
       \/ StopRejection(c, validId) = "no" /\ (stopNow(c) \/ setStopTime(c))
  /\ UNCHANGED <<handler, statusTopic, home>>

handleCommand(c, isPool) ==
  \/ c.type = "start" /\ handleStartCommand(c, isPool)
  \/ c.type = "stop" /\ handleStopCommand(c)
  \/ /\ c.type = "other"
     /\ UNCHANGED <<handler, status, controller, statusTopic, replies, home>>

-----------------------------------------------------------------------------
(* The main thread: Handler::loopFunction, then the rest of Master::run. *)

\* The first half of loopFunction.
PollPool ==
  /\ pc = "pool" /\ pc' = "command"
  /\ \/ IsWritingNow /\ poolConnected' = FALSE /\ UNCHANGED taken
     \/ ~IsWritingNow /\ poolConnected' = TRUE /\ UNCHANGED taken
  /\ UNCHANGED <<handler, pos, status, controller, statusTopic, topics, now,
                 replies, home>>

PollPoolMessage ==
  /\ pc = "pool" /\ ~IsWritingNow /\ poolConnected
  /\ taken < MaxPool /\ taken' = taken + 1
  /\ \E c \in PoolCommands : handleCommand(c, TRUE)
  /\ pc' = "command"
  /\ UNCHANGED <<pos, poolConnected, topics, now>>

Source == handler.CommandSource

\* Mutant: a listener always begins with what is sent from now on.
offsetsForTimes_None(l) == {}

\* The messages a listener wants; the broker is asked for the first of them.
offsetsForTimes(l) ==
  {i \in DOMAIN topics[l.topic] : topics[l.topic][i].time >= l.from}

(* The first poll only connects: to the first message since the time of the
   listener, or, when there is none or no time is wanted, to the end of the
   topic, wherever that is when the consumer's thread asks for it. An exception
   is not caught before it has left the main loop. *)
Connect ==
  /\ pc = "command" /\ Source.consumer = "none"
  /\ \/ /\ pc' = "check" /\ offsetsForTimes(Source) = {}
        /\ handler' = [handler EXCEPT !.CommandSource.consumer = "seeking"]
        /\ UNCHANGED pos
     \/ /\ pc' = "check"
        /\ \E i \in offsetsForTimes(Source) :
             /\ \A j \in offsetsForTimes(Source) : i <= j
             /\ pos' = i - 1
        /\ handler' = [handler EXCEPT !.CommandSource.consumer = "reading"]
     \/ "connect" \in Faults /\ pc' = "ended" /\ UNCHANGED <<handler, pos>>
  /\ UNCHANGED <<poolConnected, status, controller, statusTopic, topics, taken,
                 now, replies, home>>

\* The second half of loopFunction, without and with a message.
PollCommand ==
  /\ pc = "command" /\ Source.consumer # "none" /\ pc' = "check"
  /\ UNCHANGED <<handler, pos, poolConnected, status, controller, statusTopic,
                 topics, taken, now, replies, home>>

PollCommandMessage ==
  /\ pc = "command" /\ Source.consumer = "reading"
  /\ pos < Len(topics[Source.topic])
  /\ pos' = pos + 1
  /\ handleCommand(topics[Source.topic][pos + 1].command, FALSE)
  /\ pc' = "check"
  /\ UNCHANGED <<poolConnected, topics, taken, now>>

\* Mutant: a job ends only when it is told to or has an error.
isDoneWriting_OnlyIfTold == controller.HasError \/ controller.StopNow

\* StreamController::isDoneWriting
isDoneWriting ==
  \/ controller.HasError \/ controller.StopNow
  \/ /\ ~controller.StreamersRemaining
     /\ controller.StopTimestamp # 0 /\ now > controller.StopTimestamp

\* Master::hasWritingStopped
Check ==
  /\ pc = "check"
  /\ pc' = IF controller.exists /\ isDoneWriting THEN "idle" ELSE "pool"
  /\ UNCHANGED <<handler, pos, poolConnected, status, controller, statusTopic,
                 topics, taken, now, replies, home>>

\* What is sent for a controller whose job was never accepted names no job.
Report(topic, code) ==
  LET response == Response(topic, "done", status.JobId, Own, code)
  IN  replies' = IF IsWritingNow
                 THEN [replies EXCEPT !.ended = Append(@, response)]
                 ELSE [replies EXCEPT !.other = Append(@, response)]

\* Mutant: the topics are switched back before the message is sent.
publishStoppedMsg_Late(code) ==
  Report(revertCommandTopic(handler).CommandResponse, code)

publishStoppedMsg(code) == Report(handler.CommandResponse, code)

revertToDefaultStatusTopic == Default

\* Master::setToIdle. The error may have come up since the job was found done.
setToIdle ==
  /\ pc = "idle" /\ pc' = "pool"
  /\ IF controller.HasError
     THEN publishStoppedMsg("Failure") /\ UNCHANGED handler
     ELSE publishStoppedMsg("Success") /\ handler' = revertCommandTopic(handler)
  /\ controller' = NoController
  /\ status' = Idle
  /\ statusTopic' = revertToDefaultStatusTopic
  /\ home' = Default
  /\ UNCHANGED <<pos, poolConnected, topics, taken, now>>

MainLoop ==
  \/ PollPool \/ PollPoolMessage \/ Connect \/ PollCommand \/ PollCommandMessage
  \/ Check \/ setToIdle

-----------------------------------------------------------------------------
(* The job's threads, the consumer's thread, the other users of the topics, and
   the clock. *)

unread == <<pc, handler, pos, poolConnected, status, statusTopic, taken, replies,
            home>>

\* checkIfStreamsAreDone finds no stream left.
StreamsEnd ==
  /\ controller.StreamersRemaining
  /\ controller' = [controller EXCEPT !.StreamersRemaining = FALSE]
  /\ UNCHANGED <<unread, topics, now>>

\* A topic is unknown (initStreams), or a stream fails (checkIfStreamsAreDone,
\* which also stops the others).
StreamError ==
  /\ "job" \in Faults /\ controller.exists /\ ~controller.HasError
  /\ \/ controller' = [controller EXCEPT !.HasError = TRUE]
     \/ controller' = [controller EXCEPT !.HasError = TRUE, !.StopNow = TRUE,
                                         !.StreamersRemaining = FALSE]
  /\ UNCHANGED <<unread, topics, now>>

\* librdkafka finds out where the end of the topic is: what has been sent
\* before is not read.
SeekEnd ==
  /\ Source.consumer = "seeking"
  /\ handler' = [handler EXCEPT !.CommandSource.consumer = "reading"]
  /\ pos' = Len(topics[Source.topic])
  /\ UNCHANGED <<pc, poolConnected, status, controller, statusTopic, topics,
                 taken, now, replies, home>>

Sent == FoldFunction(LAMBDA log, n : n + Len(log), 0, topics)

SendCommand ==
  /\ Sent < MaxCommands
  /\ \E t \in AllTopics, time \in 0..MaxTime : \E c \in TopicCommands[t] :
       /\ now <= time + MaxSkew /\ time <= now + MaxSkew
       /\ topics' = [topics EXCEPT ![t] = Append(@, [command |-> c, time |-> time])]
  /\ UNCHANGED <<unread, controller, now>>

Tick ==
  /\ now < MaxTime /\ now' = now + 1
  /\ UNCHANGED <<unread, controller, topics>>

Next == MainLoop \/ StreamsEnd \/ StreamError \/ SeekEnd \/ SendCommand \/ Tick

Spec == Init /\ [][Next]_vars

(* The main loop keeps turning, a message that is there is delivered by some
   later poll, the consumer finds the end of its topic, time goes on and streams
   end some time after they should. *)
FairSpec ==
  /\ Spec /\ WF_vars(MainLoop) /\ SF_vars(PollCommandMessage) /\ WF_vars(SeekEnd)
  /\ WF_vars(Tick) /\ WF_vars(now > controller.StopTimestamp /\ StreamsEnd)

-----------------------------------------------------------------------------
Responses ==
  [topic : AllTopics, about : {"start", "stop", "done"},
   job : Jobs \union {None}, service : {None, Own, "other"},
   code : {"201", "400", "500", "Success", "Failure"}]

\* Every member holds what it is declared to hold.
TypeOK ==
  /\ pc \in {"pool", "command", "check", "idle", "ended"}
  /\ handler \in [CommandSource : [topic : AllTopics, from : StopTimes,
                                   consumer : {"none", "seeking", "reading"}],
                  CommandResponse : AllTopics,
                  AltCommandResponse : AllTopics \union {None},
                  UsingAltTopic : BOOLEAN]
  /\ pos \in Nat /\ taken \in 0..MaxPool /\ now \in 0..MaxTime
  /\ poolConnected \in BOOLEAN
  /\ status \in [State : {"Idle", "Writing"}, JobId : Jobs \union {None},
                 StopTime : StopTimes]
  /\ controller \in [exists : BOOLEAN, orphan : BOOLEAN, HasError : BOOLEAN,
                     StopNow : BOOLEAN, StreamersRemaining : BOOLEAN, StopTimestamp : StopTimes]
  /\ statusTopic \in AllTopics /\ home \in AllTopics
  /\ topics \in [AllTopics -> Seq(Messages)]
  /\ replies \in [started : Seq(Responses), ended : Seq(Responses),
                  other : Seq(Responses)]

Running(x) == IF IsWritingNow THEN <<x>> ELSE <<>>

JobsOf(rs) == [i \in DOMAIN rs |-> rs[i].job]
TopicsOf(rs) == [i \in DOMAIN rs |-> rs[i].topic]

Started == replies.started
Ended == replies.ended

(* Every job whose start was acknowledged is reported as finished exactly once,
   in the order of the starts, however it ends, and no other job is: setToIdle
   and the responses of handleStartCommand agree. A report that names no job,
   that of a controller whose start had failed, is not one of them. *)
JobsReportedOnce == JobsOf(Started) = JobsOf(Ended) \o Running(status.JobId)

(* There is a StreamController if and only if the state says that a job is
   written, with one exception: when the status topic cannot be switched,
   startWriting fails after it has made the controller, which stays without a
   job until it ends or a later start replaces it. Nothing else that fails
   while a job is started or ends leaves one behind, and none is missing. *)
JobMatchesState ==
  /\ IsWritingNow <=> controller.exists /\ ~controller.orphan
  /\ controller.orphan => "status" \in Faults

(* Status messages go to the control topic of the running job, and to the
   default topic once it has ended, with or without an error. *)
StatusTopicFollowsJob == statusTopic = home

(* The stop time that is reported, and that decides whether it may still be
   changed, is the one the job works with, unless it is told to stop now. *)
StopTimesAgree ==
  IsWritingNow =>
    \/ status.StopTime = controller.StopTimestamp
    \/ status.StopTime = 0 /\ controller.StopNow

(* Handler, Master and status reporter agree at any moment, whatever fails while
   a job is started or ends: whether there is a job (but for the controller of a
   start that failed at the status topic, see JobMatchesState), until when it
   runs, and where its status is reported. *)
StateOK == TypeOK /\ JobMatchesState /\ StatusTopicFollowsJob /\ StopTimesAgree

(* changes.md:90, "It is no longer possible to set a stop time if the previously
   set stop time has passed": a job that is past its stop time never gets a
   later one. *)
PassedStopTimeStays ==
  [][IsWritingNow /\ status.StopTime < now /\ status'.State = "Writing"
       => status'.StopTime <= status.StopTime]_vars

(* StreamController.h, "Returns true if all topics are done AND current system
   time is greater than stop time": a job that nobody told to stop and that had
   no error is reported as finished only after its stop time. *)
NotEndedBeforeStop ==
  pc = "idle" /\ IsWritingNow /\ ~controller.HasError /\ ~controller.StopNow
    => now > status.StopTime

(* documentation/commands.md:5, "Commands are sent through Kafka via the broker
   and topic specified by the `--command-uri` option": a file-writer without a
   job takes commands from that topic and answers there. *)
IdleListensOnDefault ==
  ~IsWritingNow => handler.CommandSource.topic = Default
                   /\ handler.CommandResponse = Default

(* The end of a job is published where its start was acknowledged. *)
ReportedWhereStarted ==
  \A i \in DOMAIN Ended : TopicsOf(Ended)[i] = TopicsOf(Started)[i]

(* The history of responses is that of the jobs: one end for each start, in order,
   in the same place, and none too early. *)
JobsReported == JobsReportedOnce /\ ReportedWhereStarted /\ NotEndedBeforeStop

StopsJob(c) ==
  /\ c.type = "stop" /\ c.readable /\ c.service \in {None, Own}
  /\ c.id = "valid" /\ c.stop = 0

(* The listener of the job's control topic has not passed message i: it will
   connect to a message no later than that, or is at one. Messages with a time
   stamp before the job's start time are not wanted, and those sent while the
   listener looks for the end of the topic may be missed. *)
StillToRead(t, i) ==
  \/ Source.consumer = "none" /\ topics[t][i].time >= Source.from
  \/ Source.consumer = "reading" /\ i > pos

(* changes.md:29, "The command is processed by all workers and accepted by the
   worker with a matching `job_id`": a valid command on its control topic to
   stop the running job now ends the job. It may be sent before the file-writer
   has connected to that topic, with a time stamp that is not before the start
   time of the job, or after the listener has found its place in the topic. *)
StopCommandFindsJob ==
  \A t \in ControlTopics, i \in 1..MaxCommands, job \in Jobs :
    (/\ IsWritingNow /\ status.JobId = job /\ home = t
     /\ i \in DOMAIN topics[t] /\ StopsJob(topics[t][i].command)
     /\ topics[t][i].command.job = job
     /\ Source.topic = t => StillToRead(t, i))
      ~> ~IsWritingNow

\* A job whose stop time is over is finished and reported, and the file-writer
\* is ready for the next one.
EndsAfterStopTime == (IsWritingNow /\ now > status.StopTime) ~> ~IsWritingNow
=============================================================================
