------------------------- MODULE CommandHandlerProofs -------------------------
(***************************************************************************)
(* CommandHandler for any set of jobs, topics, commands and faults and any *)
(* number of commands: types, the agreement of Handler, Master and status  *)
(* reporter, what is reported about jobs, and where an idle file-writer    *)
(* listens.                                                                *)
(***************************************************************************)
EXTENDS CommandHandler, SequenceTheorems, TLAPS

Handlers ==
  [CommandSource : [topic : AllTopics, from : StopTimes,
                    consumer : {"none", "seeking", "reading"}],
   CommandResponse : AllTopics, AltCommandResponse : AllTopics \union {None},
   UsingAltTopic : BOOLEAN]

Statuses ==
  [State : {"Idle", "Writing"}, JobId : Jobs \union {None}, StopTime : StopTimes]

Controllers ==
  [exists : BOOLEAN, orphan : BOOLEAN, HasError : BOOLEAN, StopNow : BOOLEAN,
   StreamersRemaining : BOOLEAN, StopTimestamp : StopTimes]

Replies ==
  [started : Seq(Responses), ended : Seq(Responses), other : Seq(Responses)]

(* A handler that uses an alternative topic has another producer to return to:
   without this, revertCommandTopic could leave it without one. *)
CanRevert(h) == h.UsingAltTopic => h.AltCommandResponse \in AllTopics

TypeInv == TypeOK /\ CanRevert(handler)

-----------------------------------------------------------------------------
(* What the operators of the model return. *)

\* The producers and the listener after the return to the default topic.
LEMMA RevertType ==
  ASSUME NEW h \in Handlers, CanRevert(h)
  PROVE  /\ revertCommandTopic(h) \in Handlers
         /\ CanRevert(revertCommandTopic(h))
BY DEF revertCommandTopic, Handlers, CanRevert, Listener, AllTopics, StopTimes

\* The producers and the listener after the switch to a control topic.
LEMMA UseControlType ==
  ASSUME NEW h \in Handlers, CanRevert(h), NEW topic \in ControlTopics \union {None},
         NEW from \in StopTimes
  PROVE  /\ useControlTopic(h, topic, from) \in Handlers
         /\ CanRevert(useControlTopic(h, topic, from))
BY DEF useControlTopic, Handlers, CanRevert, Listener, AllTopics

\* A command that is not of another kind has the fields of its own.
LEMMA CommandKinds ==
  ASSUME NEW c \in Commands
  PROVE  /\ c.type = "start" => c \in StartCommands
         /\ c.type = "stop" => c \in StopCommands
         /\ c.type \in {"start", "stop"} =>
              c.job \in Jobs /\ c.service \in {None, Own, "other"}
BY DEF Commands, StartCommands, StopCommands, OtherMessage

\* A response is appended to the history of its kind.
LEMMA PublishType ==
  ASSUME replies \in Replies, NEW topic \in AllTopics, NEW c \in Commands,
         c.type \in {"start", "stop"}, NEW code \in {"201", "400", "500"},
         publishResponse(topic, c, code)
  PROVE  replies' \in Replies
<1> DEFINE r == Response(topic, c.type, c.job, c.service, code)
<1>1. r \in Responses
  BY CommandKinds DEF Response, Responses
<1>2. replies' = IF c.type = "start" /\ code = "201"
                 THEN [replies EXCEPT !.started = Append(@, r)]
                 ELSE [replies EXCEPT !.other = Append(@, r)]
  BY DEF publishResponse
<1> DEFINE a == Append(replies.started, r)
           b == Append(replies.other, r)
<1>3. a \in Seq(Responses) /\ b \in Seq(Responses)
  BY <1>1 DEF Replies
<1>4. replies' = [replies EXCEPT !.started = a] \/ replies' = [replies EXCEPT !.other = b]
  BY <1>2
<1> HIDE DEF a, b
<1> QED BY <1>3, <1>4 DEF Replies

\* The members of the Master and of the Handler keep their types while a start
\* command is handled, whatever fails.
LEMMA StartType ==
  ASSUME TypeInv, NEW c \in Commands, c.type = "start", NEW isPool \in BOOLEAN,
         handleStartCommand(c, isPool)
  PROVE  /\ handler' \in Handlers /\ CanRevert(handler')
         /\ status' \in Statuses /\ controller' \in Controllers
         /\ statusTopic' \in AllTopics /\ home' \in AllTopics
         /\ replies' \in Replies
<1>t. /\ handler \in Handlers /\ CanRevert(handler) /\ status \in Statuses
      /\ controller \in Controllers /\ replies \in Replies
      /\ statusTopic \in AllTopics /\ home \in AllTopics
  BY DEF TypeInv, TypeOK, Handlers, Statuses, Controllers, Replies
<1>c. c \in StartCommands
  BY CommandKinds
<1>f. /\ c.topic \in ControlTopics \union {None} /\ c.job \in Jobs
      /\ c.stop \in StopTimes /\ StartTime(c) \in StopTimes
  BY <1>c DEF StartCommands, StartTime, StopTimes, TypeInv, TypeOK
<1>n. /\ NewController(c.stop) \in Controllers
      /\ [NewController(c.stop) EXCEPT !.orphan = TRUE] \in Controllers
  BY <1>f DEF NewController, Controllers
<1>1. ASSUME NEW validId, rejectStart(c, isPool, validId)
      PROVE  /\ handler' \in Handlers /\ CanRevert(handler')
             /\ replies' \in Replies
  <2>1. handler' = revertCommandTopic(handler)
    BY <1>1 DEF rejectStart
  <2>2. handler' \in Handlers /\ CanRevert(handler')
    BY <1>t, <2>1, RevertType
  <2>3. handler'.CommandResponse \in AllTopics
    BY <2>2 DEF Handlers
  <2>4. CASE UNCHANGED replies
    BY <1>t, <2>2, <2>4
  <2>5. CASE publishResponse(handler'.CommandResponse, c, "400")
    BY <1>t, <2>2, <2>3, <2>5, PublishType
  <2> QED BY <1>1, <2>4, <2>5 DEF rejectStart
<1>2. ASSUME switchFails(c)
      PROVE  handler' \in Handlers /\ CanRevert(handler')
  BY <1>t, <1>f, <1>2 DEF switchFails, Handlers, CanRevert, Listener, AllTopics
<1>3. ASSUME startFails(c)
      PROVE  /\ handler' \in Handlers /\ CanRevert(handler')
             /\ controller' \in Controllers /\ replies' \in Replies
  <2>1. handler' = revertCommandTopic(useControlTopic(handler, c.topic, StartTime(c)))
    BY <1>3 DEF startFails, AfterFailedStart
  <2>2. handler' \in Handlers /\ CanRevert(handler')
    BY <1>t, <1>f, <2>1, RevertType, UseControlType
  <2>3. handler'.CommandResponse \in AllTopics
    BY <2>2 DEF Handlers
  <2>4. replies' \in Replies
    BY <1>t, <1>3, <2>3, PublishType DEF startFails
  <2> QED BY <1>t, <1>n, <1>3, <2>2, <2>4 DEF startFails
<1>4. ASSUME startWriting(c)
      PROVE  /\ handler' \in Handlers /\ CanRevert(handler')
             /\ status' \in Statuses /\ controller' \in Controllers
             /\ statusTopic' \in AllTopics /\ home' \in AllTopics
             /\ replies' \in Replies
  <2>1. handler' \in Handlers /\ CanRevert(handler')
    BY <1>t, <1>f, <1>4, UseControlType DEF startWriting
  <2>2. handler'.CommandResponse \in AllTopics
    BY <2>1 DEF Handlers
  <2>3. replies' \in Replies
    BY <1>t, <1>4, <2>2, PublishType DEF startWriting
  <2>4. status' \in Statuses
    BY <1>f, <1>4 DEF startWriting, Statuses
  <2>5. statusTopic' \in AllTopics /\ home' \in AllTopics
    BY <1>t, <1>f, <1>4 DEF startWriting, useAlternativeStatusTopic, AllTopics
  <2> QED BY <1>n, <1>4, <2>1, <2>3, <2>4, <2>5 DEF startWriting
<1> QED
  BY <1>t, <1>1, <1>2, <1>3, <1>4
     DEF handleStartCommand, rejectStart, switchFails, startFails

\* The same for a stop command.
LEMMA StopType ==
  ASSUME TypeInv, NEW c \in Commands, c.type = "stop", handleStopCommand(c)
  PROVE  /\ status' \in Statuses /\ controller' \in Controllers
         /\ replies' \in Replies
         /\ UNCHANGED <<handler, statusTopic, home>>
<1>t. /\ handler.CommandResponse \in AllTopics /\ status \in Statuses
      /\ controller \in Controllers /\ replies \in Replies /\ now \in StopTimes
      /\ 0 \in StopTimes
  BY CommandHandlerAssumption
     DEF TypeInv, TypeOK, Statuses, Controllers, Replies, StopTimes
<1>c. c.stop \in StopTimes
  BY CommandKinds DEF StopCommands
<1>1. ASSUME NEW validId, rejectStop(c, validId)
      PROVE  replies' \in Replies
  BY <1>t, <1>1, PublishType DEF rejectStop
<1>2. ASSUME stopNow(c)
      PROVE  /\ status' \in Statuses /\ controller' \in Controllers
             /\ replies' \in Replies
  <2>1. replies' \in Replies
    BY <1>t, <1>2, PublishType DEF stopNow
  <2> QED BY <1>t, <1>2, <2>1 DEF stopNow, Statuses, Controllers
<1>3. ASSUME setStopTime(c)
      PROVE  /\ status' \in Statuses /\ controller' \in Controllers
             /\ replies' \in Replies
  <2>1. replies' \in Replies
    BY <1>t, <1>3, PublishType DEF setStopTime
  <2> QED BY <1>t, <1>c, <1>3, <2>1
             DEF setStopTime, withStopTime, Statuses, Controllers
<1> QED BY <1>t, <1>1, <1>2, <1>3 DEF handleStopCommand, rejectStop

(* The steps in which a command is handled: which command it is, and where the
   main thread goes on. *)
HandlesCommand(c, isPool) ==
  /\ handleCommand(c, isPool)
  /\ UNCHANGED <<poolConnected, topics, now>>
  /\ pc' \in {"command", "check"} /\ pos' \in Nat /\ taken' \in 0..MaxPool

\* A poll that finds a message handles the command in it.
LEMMA CommandStep ==
  ASSUME TypeOK, PollPoolMessage \/ PollCommandMessage
  PROVE  \E c \in Commands, isPool \in BOOLEAN :
           /\ HandlesCommand(c, isPool)
           /\ isPool => ~IsWritingNow
           /\ ~isPool => \E i \in DOMAIN topics[Source.topic] :
                           c = topics[Source.topic][i].command
<1>1. CASE PollPoolMessage
  <2>1. PICK c \in PoolCommands : handleCommand(c, TRUE)
    BY <1>1 DEF PollPoolMessage
  <2>2. c \in Commands
    BY CommandHandlerAssumption
  <2>3. pos' \in Nat /\ taken' \in 0..MaxPool
    BY <1>1, CommandHandlerAssumption DEF PollPoolMessage, TypeOK
  <2>4. /\ UNCHANGED <<poolConnected, topics, now>> /\ ~IsWritingNow
        /\ pc' \in {"command", "check"}
    BY <1>1 DEF PollPoolMessage
  <2> QED BY <2>1, <2>2, <2>3, <2>4 DEF HandlesCommand
<1>2. CASE PollCommandMessage
  <2> DEFINE t == topics[Source.topic]
             c == t[pos + 1].command
  <2>1. Source.topic \in AllTopics
    BY DEF TypeOK, Source
  <2>2. t \in Seq(Messages)
    BY <2>1 DEF TypeOK
  <2>3. pos \in Nat /\ pos < Len(t)
    BY <1>2 DEF PollCommandMessage, TypeOK
  <2>4. pos + 1 \in DOMAIN t /\ c \in Commands
    <3> HIDE DEF t
    <3>1. pos + 1 \in DOMAIN t /\ t[pos + 1] \in Messages
      BY <2>2, <2>3
    <3> QED BY <3>1 DEF Messages
  <2>5. pos' \in Nat /\ taken' \in 0..MaxPool
    BY <1>2, <2>3 DEF PollCommandMessage, TypeOK
  <2>6. /\ handleCommand(c, FALSE) /\ UNCHANGED <<poolConnected, topics, now>>
        /\ pc' \in {"command", "check"}
    BY <1>2 DEF PollCommandMessage
  <2>7. HandlesCommand(c, FALSE)
    BY <2>5, <2>6 DEF HandlesCommand
  <2> QED BY <2>4, <2>7
<1> QED BY <1>1, <1>2

-----------------------------------------------------------------------------
(* The members and histories of handler, Master and reporter keep their types,
   with every fault of the model; CanRevert makes that inductive. *)
THEOREM TypeCorrect == Spec => []TypeInv
<1>1. Init => TypeInv
  <2> SUFFICES ASSUME Init PROVE TypeInv
    OBVIOUS
  <2>1. handler \in Handlers /\ CanRevert(handler)
    BY DEF Init, Handlers, CanRevert, Listener, AllTopics, StopTimes
  <2>2. status \in Statuses /\ controller \in Controllers
    BY CommandHandlerAssumption
       DEF Init, Idle, NoController, Statuses, Controllers, StopTimes
  <2>3. topics \in [AllTopics -> Seq(Messages)]
    BY DEF Init
  <2>4. replies \in Replies
    BY DEF Init, Replies
  <2>5. /\ pos \in Nat /\ taken \in 0..MaxPool /\ now \in 0..MaxTime
    BY CommandHandlerAssumption DEF Init
  <2>6. /\ statusTopic \in AllTopics /\ home \in AllTopics
        /\ pc \in {"pool", "command", "check", "idle", "ended"}
    BY DEF Init, AllTopics
  <2>7. poolConnected \in BOOLEAN
    BY DEF Init
  <2> QED BY <2>1, <2>2, <2>3, <2>4, <2>5, <2>6, <2>7
             DEF TypeInv, TypeOK, Handlers, Statuses, Controllers, Replies
<1>2. TypeInv /\ [Next]_vars => TypeInv'
  <2> SUFFICES ASSUME TypeInv, [Next]_vars PROVE TypeInv'
    OBVIOUS
  <2>0. TypeOK /\ CanRevert(handler)
    BY DEF TypeInv
  <2>t. /\ handler \in Handlers /\ CanRevert(handler) /\ status \in Statuses
        /\ controller \in Controllers /\ replies \in Replies
    BY DEF TypeInv, TypeOK, Handlers, Statuses, Controllers, Replies
  <2>1. CASE PollPool \/ PollCommand \/ Check
    BY <2>0, <2>1 DEF PollPool, PollCommand, Check, TypeInv, TypeOK, CanRevert
  <2>2. CASE PollPoolMessage \/ PollCommandMessage
    <3>1. PICK c \in Commands, isPool \in BOOLEAN : HandlesCommand(c, isPool)
      BY <2>0, <2>2, CommandStep
    <3>2. /\ handler' \in Handlers /\ CanRevert(handler')
          /\ status' \in Statuses /\ controller' \in Controllers
          /\ statusTopic' \in AllTopics /\ home' \in AllTopics
          /\ replies' \in Replies
      <4>1. CASE c.type = "start" /\ handleStartCommand(c, isPool)
        BY <4>1, StartType
      <4>2. CASE c.type = "stop" /\ handleStopCommand(c)
        BY <2>0, <2>t, <4>2, StopType DEF TypeOK
      <4>3. CASE UNCHANGED <<handler, status, controller, statusTopic, replies, home>>
        BY <2>0, <2>t, <4>3 DEF TypeOK
      <4> QED BY <3>1, <4>1, <4>2, <4>3 DEF HandlesCommand, handleCommand
    <3> QED
      BY <2>0, <3>1, <3>2
         DEF HandlesCommand, TypeInv, TypeOK, Handlers, Statuses, Controllers, Replies
  <2>3. CASE Connect
    <3>1. handler' \in Handlers /\ CanRevert(handler')
      BY <2>t, <2>3 DEF Connect, Handlers, CanRevert
    <3>2. pos' \in Nat
      <4>1. Source.topic \in AllTopics /\ pos \in Nat
        BY <2>0 DEF TypeOK, Source
      <4>2. topics[Source.topic] \in Seq(Messages)
        BY <2>0, <4>1 DEF TypeOK
      <4>3. \A i \in offsetsForTimes(Source) : i - 1 \in Nat
        <5>1. \A i \in DOMAIN topics[Source.topic] : i \in Nat \ {0}
          BY <4>2
        <5> QED BY <5>1 DEF offsetsForTimes
      <4> QED BY <2>3, <4>1, <4>3 DEF Connect
    <3> QED BY <2>0, <2>3, <3>1, <3>2 DEF Connect, TypeInv, TypeOK, Handlers
  <2>4. CASE setToIdle
    <3>1. handler' \in Handlers /\ CanRevert(handler')
      BY <2>t, <2>4, RevertType DEF setToIdle
    <3>2. PICK code \in {"Success", "Failure"} : Report(handler.CommandResponse, code)
      BY <2>4 DEF setToIdle, publishStoppedMsg
    <3> DEFINE r == Response(handler.CommandResponse, "done", status.JobId, Own, code)
               a == Append(replies.ended, r)
               b == Append(replies.other, r)
    <3>3. r \in Responses
      BY <2>t DEF Response, Responses, Handlers, Statuses
    <3>4. a \in Seq(Responses) /\ b \in Seq(Responses)
      BY <2>t, <3>3 DEF Replies
    <3>5. \/ replies' = [replies EXCEPT !.ended = a]
          \/ replies' = [replies EXCEPT !.other = b]
      BY <3>2 DEF Report
    <3> HIDE DEF a, b, r
    <3>6. replies' \in Replies
      BY <2>t, <3>4, <3>5 DEF Replies
    <3>7. /\ status' \in Statuses /\ controller' \in Controllers
          /\ statusTopic' \in AllTopics /\ home' \in AllTopics
      BY <2>4, CommandHandlerAssumption
         DEF setToIdle, Idle, NoController, Statuses, Controllers, StopTimes,
             AllTopics, revertToDefaultStatusTopic
    <3> QED BY <2>0, <2>4, <3>1, <3>6, <3>7
         DEF setToIdle, TypeInv, TypeOK, Handlers, Statuses, Controllers, Replies
  <2>5. CASE StreamsEnd \/ StreamError
    <3>1. controller' \in Controllers
      BY <2>t, <2>5 DEF StreamsEnd, StreamError, Controllers
    <3> QED BY <2>0, <2>5, <3>1
         DEF StreamsEnd, StreamError, unread, TypeInv, TypeOK, CanRevert, Controllers
  <2>6. CASE SendCommand
    <3>1. topics' \in [AllTopics -> Seq(Messages)]
      <4>1. PICK t \in AllTopics, time \in 0..MaxTime : \E c \in TopicCommands[t] :
              topics' = [topics EXCEPT ![t] =
                           Append(@, [command |-> c, time |-> time])]
        BY <2>6 DEF SendCommand
      <4>2. PICK c \in TopicCommands[t] :
              topics' = [topics EXCEPT ![t] =
                           Append(@, [command |-> c, time |-> time])]
        BY <4>1
      <4>3. [command |-> c, time |-> time] \in Messages
        BY <4>2, CommandHandlerAssumption DEF Messages
      <4> QED BY <2>0, <4>2, <4>3 DEF TypeOK
    <3> QED BY <2>0, <2>6, <3>1 DEF SendCommand, unread, TypeInv, TypeOK, CanRevert
  <2>7. CASE Tick
    BY <2>0, <2>7, CommandHandlerAssumption DEF Tick, unread, TypeInv, TypeOK, CanRevert
  <2>8. CASE UNCHANGED vars
    BY <2>0, <2>8 DEF vars, TypeInv, TypeOK, CanRevert
  <2>9. CASE SeekEnd
    <3>1. handler' \in Handlers /\ CanRevert(handler')
      BY <2>t, <2>9 DEF SeekEnd, Handlers, CanRevert
    <3>2. topics[Source.topic] \in Seq(Messages)
      BY <2>0 DEF TypeOK, Source
    <3>3. pos' \in Nat
      BY <2>9, <3>2 DEF SeekEnd
    <3> QED BY <2>0, <2>9, <3>1, <3>3 DEF SeekEnd, TypeInv, TypeOK, Handlers
  <2> QED
    BY <2>1, <2>2, <2>3, <2>4, <2>5, <2>6, <2>7, <2>8, <2>9 DEF Next, MainLoop
<1> QED BY <1>1, <1>2, PTL DEF Spec
-----------------------------------------------------------------------------
(* What a command may do, in the terms of the properties. *)

\* What changes when a response is published that starts no job.
SameJob == UNCHANGED <<status, controller, statusTopic, home>>

SameHistory ==
  replies'.started = replies.started /\ replies'.ended = replies.ended

(* Where the Handler listens and answers after a start command that starts no
   job: back to the default topic, perhaps after it had already switched, or in
   between if it could not switch. *)
GivesUp(c) ==
  \/ handler' = revertCommandTopic(handler)
  \/ /\ ~IsWritingNow
     /\ handler' = revertCommandTopic(useControlTopic(handler, c.topic, StartTime(c)))
  \/ /\ ~IsWritingNow /\ "switch" \in Faults /\ c.topic \in ControlTopics
     /\ handler' = [handler EXCEPT !.CommandSource = Listener(c.topic, StartTime(c))]

\* The controller of a start that fails at the status topic.
LeavesOrphan(c) ==
  /\ "status" \in Faults /\ ~IsWritingNow
  /\ controller' = [NewController(c.stop) EXCEPT !.orphan = TRUE]

\* Only the acknowledgement of a start is an entry of the history of jobs.
LEMMA PublishHistory ==
  ASSUME replies \in Replies, NEW topic, NEW c, NEW code,
         publishResponse(topic, c, code)
  PROVE  /\ ~(c.type = "start" /\ code = "201") => SameHistory
         /\ c.type = "start" /\ code = "201" =>
              /\ replies'.ended = replies.ended
              /\ replies'.started =
                   Append(replies.started,
                          Response(topic, "start", c.job, c.service, code))
<1> DEFINE r == Response(topic, c.type, c.job, c.service, code)
           a == Append(replies.started, r)
           b == Append(replies.other, r)
<1>1. replies' = IF c.type = "start" /\ code = "201"
                 THEN [replies EXCEPT !.started = a]
                 ELSE [replies EXCEPT !.other = b]
  BY DEF publishResponse
<1>2. c.type = "start" =>
        a = Append(replies.started,
                   Response(topic, "start", c.job, c.service, code))
  OBVIOUS
<1> HIDE DEF a, b
<1>3. ~(c.type = "start" /\ code = "201") => SameHistory
  BY <1>1 DEF Replies, SameHistory
<1>4. c.type = "start" /\ code = "201" =>
        replies'.ended = replies.ended /\ replies'.started = a
  BY <1>1 DEF Replies
<1> QED BY <1>2, <1>3, <1>4

\* A start command either starts a job when there is none, or leaves everything
\* that belongs to a job as it is, but for the controller that is left behind
\* when the status topic cannot be switched.
LEMMA StartEffect ==
  ASSUME TypeInv, NEW c \in Commands, c.type = "start", NEW isPool \in BOOLEAN,
         handleStartCommand(c, isPool)
  PROVE  \/ startWriting(c) /\ ~IsWritingNow
         \/ /\ GivesUp(c)
            /\ UNCHANGED <<status, statusTopic, home>> /\ SameHistory
            /\ UNCHANGED controller \/ LeavesOrphan(c)
<1>t. replies \in Replies
  BY DEF TypeInv, TypeOK, Replies
<1>1. PICK validId \in isValidUUID(c.id) :
        \/ rejectStart(c, isPool, validId)
        \/ /\ StartRejection(c, isPool, validId) = "no"
           /\ switchFails(c) \/ startFails(c) \/ startWriting(c)
  BY DEF handleStartCommand
<1>2. CASE rejectStart(c, isPool, validId)
  <2>1. handler' = revertCommandTopic(handler) /\ SameJob
    BY <1>2 DEF rejectStart, SameJob
  <2>2. SameHistory
    <3>1. CASE UNCHANGED replies
      BY <3>1 DEF SameHistory
    <3>2. CASE publishResponse(handler'.CommandResponse, c, "400")
      BY <1>t, <3>2, PublishHistory
    <3> QED BY <1>2, <3>1, <3>2 DEF rejectStart
  <2> QED BY <2>1, <2>2 DEF SameJob, GivesUp
<1>3. CASE StartRejection(c, isPool, validId) = "no"
  <2>1. ~IsWritingNow
    BY <1>3 DEF StartRejection
  <2>2. CASE switchFails(c)
    <3>1. c.topic \in ControlTopics
      BY <2>2, CommandKinds DEF switchFails, StartCommands
    <3> QED BY <2>1, <2>2, <3>1 DEF switchFails, SameHistory, GivesUp
  <2>3. CASE startFails(c)
    <3>1. SameHistory
      BY <1>t, <2>3, PublishHistory DEF startFails
    <3> QED BY <2>1, <2>3, <3>1 DEF startFails, AfterFailedStart, GivesUp, LeavesOrphan
  <2>4. CASE startWriting(c)
    BY <2>1, <2>4
  <2> QED BY <1>1, <1>2, <2>2, <2>3, <2>4
<1> QED BY <1>1, <1>2, <1>3

\* A stop command changes, if anything, the stop time of the running job.
LEMMA StopEffect ==
  ASSUME TypeInv, NEW c \in Commands, c.type = "stop", handleStopCommand(c)
  PROVE  /\ SameHistory /\ UNCHANGED <<handler, statusTopic, home>>
         /\ \/ UNCHANGED <<status, controller>>
            \/ stopNow(c) /\ IsWritingNow
            \/ setStopTime(c) /\ ~StopTimePassed /\ IsWritingNow
<1>t. replies \in Replies
  BY DEF TypeInv, TypeOK, Replies
<1>0. UNCHANGED <<handler, statusTopic, home>>
  BY DEF handleStopCommand
<1>1. PICK validId \in isValidUUID(c.id) :
        \/ rejectStop(c, validId)
        \/ StopRejection(c, validId) = "no" /\ (stopNow(c) \/ setStopTime(c))
  BY DEF handleStopCommand
<1>2. CASE rejectStop(c, validId)
  <2>1. CASE UNCHANGED replies
    BY <1>0, <1>2, <2>1 DEF rejectStop, SameHistory
  <2>2. CASE publishResponse(handler.CommandResponse, c, "400")
    BY <1>t, <1>0, <1>2, <2>2, PublishHistory DEF rejectStop
  <2> QED BY <1>2, <2>1, <2>2 DEF rejectStop
<1>3. CASE StopRejection(c, validId) = "no" /\ stopNow(c)
  <2>1. SameHistory
    BY <1>t, <1>3, PublishHistory DEF stopNow
  <2>2. IsWritingNow
    BY <1>3 DEF StopRejection
  <2> QED BY <1>0, <1>3, <2>1, <2>2
<1>4. CASE StopRejection(c, validId) = "no" /\ setStopTime(c)
  <2>1. SameHistory
    BY <1>t, <1>4, PublishHistory DEF setStopTime
  <2>2. IsWritingNow
    BY <1>4 DEF StopRejection
  <2>3. StopTimePassed => UNCHANGED <<status, controller>>
    BY <1>4 DEF setStopTime
  <2> QED BY <1>0, <1>4, <2>1, <2>2, <2>3
<1> QED BY <1>1, <1>2, <1>3, <1>4
-----------------------------------------------------------------------------
(* Every step, as far as the job and the place of commands are concerned. *)

\* The steps that handle no command, in the terms of the properties below.
QuietStep ==
  \/ UNCHANGED <<pc, handler, status, controller, statusTopic, home, replies>>
  \/ PollPool \/ PollCommand \/ Check \/ Connect \/ setToIdle
  \/ StreamsEnd \/ StreamError \/ SeekEnd \/ SendCommand \/ Tick

\* A step starts a job, changes the stop time of the running one, handles a
\* command that does neither, or is one of the quiet steps.
LEMMA StepKinds ==
  ASSUME TypeInv, [Next]_vars
  PROVE  \/ QuietStep
         \/ /\ UNCHANGED now /\ pc # "idle" /\ pc' # "idle"
            /\ \/ \E c \in Commands :
                    c.type = "start" /\ startWriting(c) /\ ~IsWritingNow
               \/ /\ \E c \in StartCommands : GivesUp(c)
                  /\ UNCHANGED <<status, statusTopic, home>> /\ SameHistory
                  /\ \/ UNCHANGED controller
                     \/ \E c \in StartCommands : LeavesOrphan(c)
                  /\ IsWritingNow =>
                       \E i \in DOMAIN topics[Source.topic] :
                         topics[Source.topic][i].command.type = "start"
               \/ /\ UNCHANGED <<handler, statusTopic, home>> /\ SameHistory
                  /\ \/ UNCHANGED <<status, controller>>
                     \/ \E c \in Commands : stopNow(c) /\ IsWritingNow
                     \/ \E c \in Commands :
                          /\ c.type = "stop" /\ setStopTime(c)
                          /\ ~StopTimePassed /\ IsWritingNow
<1>1. CASE PollPoolMessage \/ PollCommandMessage
  <2>0. TypeOK
    BY DEF TypeInv
  <2>1. PICK c \in Commands, isPool \in BOOLEAN :
          /\ HandlesCommand(c, isPool)
          /\ isPool => ~IsWritingNow
          /\ ~isPool => \E i \in DOMAIN topics[Source.topic] :
                          c = topics[Source.topic][i].command
    BY <1>1, <2>0, CommandStep
  <2>2. UNCHANGED now /\ pc # "idle" /\ pc' # "idle"
    BY <1>1, <2>1 DEF HandlesCommand, PollPoolMessage, PollCommandMessage
  <2>3. CASE c.type = "start" /\ handleStartCommand(c, isPool)
    <3>1. \/ startWriting(c) /\ ~IsWritingNow
          \/ /\ GivesUp(c)
             /\ UNCHANGED <<status, statusTopic, home>> /\ SameHistory
             /\ UNCHANGED controller \/ LeavesOrphan(c)
      BY <2>3, StartEffect
    <3>2. IsWritingNow => \E i \in DOMAIN topics[Source.topic] :
                            topics[Source.topic][i].command.type = "start"
      BY <2>1, <2>3
    <3>3. c \in StartCommands
      BY <2>3, CommandKinds
    <3> QED BY <2>2, <2>3, <3>1, <3>2, <3>3
  <2>4. CASE c.type = "stop" /\ handleStopCommand(c)
    BY <2>2, <2>4, StopEffect
  <2>5. CASE UNCHANGED <<handler, status, controller, statusTopic, replies, home>>
    BY <2>2, <2>5 DEF SameHistory
  <2> QED BY <2>1, <2>3, <2>4, <2>5 DEF HandlesCommand, handleCommand
<1>2. CASE UNCHANGED vars
  BY <1>2 DEF vars, QuietStep
<1> QED BY <1>1, <1>2 DEF Next, MainLoop, QuietStep

-----------------------------------------------------------------------------
(* A job past its stop time never gets a later one: Master::setStopTime refuses,
   stopNow sets the earliest, and no other step of a running job touches it. *)
THEOREM PassedStopTimeCorrect == Spec => PassedStopTimeStays
<1>1. TypeInv /\ [Next]_vars =>
        [IsWritingNow /\ status.StopTime < now /\ status'.State = "Writing"
           => status'.StopTime <= status.StopTime]_vars
  <2> SUFFICES ASSUME TypeInv, [Next]_vars, IsWritingNow,
                      status.StopTime < now, status'.State = "Writing"
               PROVE  status'.StopTime <= status.StopTime
    OBVIOUS
  <2>1. status.StopTime \in Nat /\ status \in Statuses
    BY CommandHandlerAssumption DEF TypeInv, TypeOK, StopTimes, Statuses
  <2>2. CASE UNCHANGED status
    BY <2>1, <2>2
  <2>3. CASE QuietStep
    BY <2>2, <2>3 DEF QuietStep, PollPool, PollCommand, Check, Connect, setToIdle,
         StreamsEnd, StreamError, SeekEnd, SendCommand, Tick, unread, Idle
  <2>4. ASSUME NEW c \in Commands, stopNow(c)
        PROVE  status'.StopTime <= status.StopTime
    BY <2>1, <2>4 DEF stopNow, Statuses
  <2>5. ~(~StopTimePassed)
    BY DEF StopTimePassed
  <2> QED BY <2>2, <2>3, <2>4, <2>5, StepKinds
<1> QED BY <1>1, TypeCorrect, PTL DEF Spec, PassedStopTimeStays

-----------------------------------------------------------------------------
(* Status messages of a file-writer without a job go to the default topic: what
   useAlternativeStatusTopic needs to take the topic of the next job. *)
StateInv == TypeInv /\ StateOK /\ (~IsWritingNow => home = Default)

(* Handler, Master and status reporter agree in every reachable state, with every
   fault: the only controller without a job is that of a start which failed at
   the status topic. *)
THEOREM StateCorrect == Spec => []StateOK
<1>1. Init => (~IsWritingNow => home = Default) /\ JobMatchesState
              /\ StatusTopicFollowsJob /\ StopTimesAgree
  BY DEF Init, JobMatchesState, StatusTopicFollowsJob, StopTimesAgree,
         IsWritingNow, Idle, NoController
<1>2. TypeInv' /\ StateInv /\ [Next]_vars => StateInv'
  <2> SUFFICES ASSUME TypeInv', StateInv, [Next]_vars PROVE StateInv'
    OBVIOUS
  <2> DEFINE Agree == /\ JobMatchesState /\ StatusTopicFollowsJob /\ StopTimesAgree
                      /\ ~IsWritingNow => home = Default
  <2>0. TypeInv /\ Agree /\ status \in Statuses /\ controller \in Controllers
    BY DEF StateInv, StateOK, TypeInv, TypeOK, Statuses, Controllers
  <2> SUFFICES Agree'
    BY DEF StateInv, StateOK, TypeInv
  <2>1. CASE UNCHANGED <<status, controller, statusTopic, home>>
    BY <2>0, <2>1 DEF JobMatchesState, StatusTopicFollowsJob, StopTimesAgree, IsWritingNow
  <2>2. CASE QuietStep
    <3>1. CASE setToIdle
      BY <3>1 DEF setToIdle, JobMatchesState, StatusTopicFollowsJob, StopTimesAgree,
           IsWritingNow, Idle, NoController, revertToDefaultStatusTopic
    <3>2. CASE StreamsEnd \/ StreamError
      <4>1. /\ UNCHANGED <<status, statusTopic, home>>
            /\ controller'.exists = controller.exists
            /\ controller'.orphan = controller.orphan
            /\ controller'.StopTimestamp = controller.StopTimestamp
            /\ controller.StopNow => controller'.StopNow
        BY <2>0, <3>2 DEF StreamsEnd, StreamError, unread, Controllers
      <4> QED BY <2>0, <4>1
            DEF JobMatchesState, StatusTopicFollowsJob, StopTimesAgree, IsWritingNow
    <3> QED BY <2>1, <2>2, <3>1, <3>2 DEF QuietStep, PollPool, PollCommand, Check,
         Connect, SeekEnd, SendCommand, Tick, unread
  <2>3. ASSUME NEW c \in Commands, c.type = "start", startWriting(c), ~IsWritingNow
        PROVE  Agree'
    <3>1. c.topic \in ControlTopics \union {None}
      BY <2>3, CommandKinds DEF StartCommands
    <3>2. statusTopic = Default
      BY <2>0, <2>3 DEF StatusTopicFollowsJob
    <3> QED BY <2>3, <3>1, <3>2 DEF startWriting, NewController, JobMatchesState,
         StatusTopicFollowsJob, StopTimesAgree, IsWritingNow,
         useAlternativeStatusTopic
  <2>4. ASSUME NEW c \in Commands, IsWritingNow, UNCHANGED <<statusTopic, home>>,
               stopNow(c) \/ (setStopTime(c) /\ ~StopTimePassed)
        PROVE  Agree'
    <3>1. /\ status'.State = status.State /\ controller'.exists = controller.exists
          /\ controller'.orphan = controller.orphan
          /\ \/ status'.StopTime = controller'.StopTimestamp
             \/ status'.StopTime = 0 /\ controller'.StopNow
      BY <2>0, <2>4 DEF stopNow, setStopTime, withStopTime, Statuses, Controllers
    <3> QED BY <2>0, <2>4, <3>1
          DEF JobMatchesState, StatusTopicFollowsJob, StopTimesAgree, IsWritingNow
  <2>5. ASSUME NEW c \in StartCommands, LeavesOrphan(c),
               UNCHANGED <<status, statusTopic, home>>
        PROVE  Agree'
    <3>1. controller'.orphan /\ "status" \in Faults /\ ~IsWritingNow
      BY <2>5 DEF LeavesOrphan, NewController
    <3> QED BY <2>0, <2>5, <3>1
          DEF JobMatchesState, StatusTopicFollowsJob, StopTimesAgree, IsWritingNow
  <2> HIDE DEF Agree
  <2> QED BY <2>0, <2>1, <2>2, <2>3, <2>4, <2>5, StepKinds
<1>3. StateInv => StateOK
  BY DEF StateInv
<1>4. Init /\ TypeInv => StateInv
  BY <1>1 DEF StateInv, StateOK, TypeInv
<1> QED BY <1>2, <1>3, <1>4, TypeCorrect, PTL DEF Spec
-----------------------------------------------------------------------------
(* The commands on a topic are those that may be sent there, and the Handler
   listens to a control topic while it answers on one. *)
PlaceInv ==
  /\ \A t \in AllTopics : \A i \in DOMAIN topics[t] :
       topics[t][i].command \in TopicCommands[t]
  /\ handler.UsingAltTopic => Source.topic \in ControlTopics

\* The commands and the place where they are looked for belong together.
LEMMA PlaceCorrect == Spec => []PlaceInv
<1>1. Init => PlaceInv
  BY DEF Init, PlaceInv
<1>2. TypeInv /\ PlaceInv /\ [Next]_vars => PlaceInv'
  <2> SUFFICES ASSUME TypeInv, PlaceInv, [Next]_vars PROVE PlaceInv'
    OBVIOUS
  <2> DEFINE Sent1 == \A t \in AllTopics : \A i \in DOMAIN topics[t] :
                        topics[t][i].command \in TopicCommands[t]
             Here == handler.UsingAltTopic => Source.topic \in ControlTopics
  <2>0. /\ handler \in Handlers /\ topics \in [AllTopics -> Seq(Messages)]
        /\ Sent1 /\ Here
    BY DEF TypeInv, TypeOK, Handlers, PlaceInv
  <2>1. Sent1'
    <3>1. CASE SendCommand
      <4>1. PICK t \in AllTopics, time \in 0..MaxTime : \E c \in TopicCommands[t] :
              topics' = [topics EXCEPT ![t] =
                           Append(@, [command |-> c, time |-> time])]
        BY <3>1 DEF SendCommand
      <4>2. PICK c \in TopicCommands[t] :
              topics' = [topics EXCEPT ![t] =
                           Append(@, [command |-> c, time |-> time])]
        BY <4>1
      <4> DEFINE m == [command |-> c, time |-> time]
      <4> SUFFICES ASSUME NEW u \in AllTopics, NEW i \in DOMAIN topics'[u]
                   PROVE  topics'[u][i].command \in TopicCommands[u]
        OBVIOUS
      <4>3. CASE u # t
        BY <2>0, <4>2, <4>3
      <4>4. CASE u = t
        <5> DEFINE log == topics[t]
        <5>1. log \in Seq(Messages) /\ m \in Messages /\ m.command = c
          BY <2>0, <4>2, CommandHandlerAssumption DEF Messages
        <5>2. topics'[u] = Append(log, m)
          BY <2>0, <4>2, <4>4
        <5>3. \A j \in DOMAIN log : log[j].command \in TopicCommands[t]
          BY <2>0
        <5> HIDE DEF log, m
        <5>4. i \in 1..(Len(log) + 1)
          BY <5>1, <5>2
        <5>5. CASE i = Len(log) + 1
          BY <5>1, <5>2, <5>5, <4>2, <4>4
        <5>6. CASE i # Len(log) + 1
          <6>1. i \in DOMAIN log
            BY <5>1, <5>4, <5>6
          <6>2. Append(log, m)[i] = log[i]
            BY <5>1, <5>4, <5>6
          <6> QED BY <5>2, <5>3, <6>1, <6>2, <4>4
        <5> QED BY <5>5, <5>6
      <4> QED BY <4>3, <4>4
    <3>2. CASE UNCHANGED topics
      BY <2>0, <3>2
    <3> QED BY <3>1, <3>2 DEF Next, MainLoop, PollPool, PollPoolMessage, Connect,
         PollCommand, PollCommandMessage, Check, setToIdle, StreamsEnd,
         StreamError, SeekEnd, Tick, vars
  <2>2. Here'
    <3>1. CASE UNCHANGED handler
      BY <2>0, <3>1 DEF Source
    <3>2. CASE handler' = revertCommandTopic(handler)
      BY <2>0, <3>2 DEF Source, revertCommandTopic
    <3>3. CASE QuietStep
      <4>1. CASE setToIdle
        BY <4>1, <3>1, <3>2 DEF setToIdle
      <4>2. CASE Connect \/ SeekEnd
        BY <2>0, <4>2 DEF Connect, SeekEnd, Source, Handlers
      <4> QED BY <3>1, <3>3, <4>1, <4>2 DEF QuietStep, PollPool, PollCommand, Check,
           StreamsEnd, StreamError, SendCommand, Tick, unread
    <3>4. ASSUME NEW c \in StartCommands, GivesUp(c)
          PROVE  Here'
      <4>1. CASE handler' = revertCommandTopic(useControlTopic(handler, c.topic, StartTime(c)))
        BY <2>0, <4>1
           DEF Source, revertCommandTopic, useControlTopic, Listener, Handlers
      <4>2. CASE /\ c.topic \in ControlTopics
                 /\ handler' = [handler EXCEPT !.CommandSource = Listener(c.topic, StartTime(c))]
        BY <2>0, <4>2 DEF Source, Listener, Handlers
      <4> QED BY <3>2, <3>4, <4>1, <4>2 DEF GivesUp
    <3>5. ASSUME NEW c \in Commands, c.type = "start", startWriting(c)
          PROVE  Here'
      <4>1. c.topic \in ControlTopics \union {None}
        BY <3>5, CommandKinds DEF StartCommands
      <4>2. handler' = useControlTopic(handler, c.topic, StartTime(c))
        BY <3>5 DEF startWriting
      <4> QED BY <2>0, <4>1, <4>2 DEF Source, useControlTopic, Listener, Handlers
    <3> HIDE DEF Here
    <3> QED BY <3>1, <3>3, <3>4, <3>5, StepKinds
  <2> QED BY <2>1, <2>2 DEF PlaceInv
<1> QED BY <1>1, <1>2, TypeCorrect, PTL DEF Spec
-----------------------------------------------------------------------------
(* Between hasWritingStopped and setToIdle the job stays done. *)
DoneInv == pc = "idle" => controller.exists /\ isDoneWriting

\* What Master::hasWritingStopped saw still holds when the job is ended.
LEMMA DoneCorrect == Spec => []DoneInv
<1>1. Init => DoneInv
  BY DEF Init, DoneInv
<1>2. TypeInv /\ DoneInv /\ [Next]_vars => DoneInv'
  <2> SUFFICES ASSUME TypeInv, DoneInv, [Next]_vars, pc' = "idle"
               PROVE  controller'.exists /\ isDoneWriting'
    BY DEF DoneInv
  <2>0. now \in Nat /\ controller.StopTimestamp \in Nat /\ controller \in Controllers
    BY CommandHandlerAssumption DEF TypeInv, TypeOK, StopTimes, Controllers
  <2>1. CASE QuietStep
    <3>1. CASE UNCHANGED <<pc, controller, now>>
      BY <3>1 DEF DoneInv, isDoneWriting
    <3>2. CASE Check
      BY <3>2 DEF Check, isDoneWriting
    <3>3. CASE StreamsEnd \/ StreamError
      <4>1. /\ UNCHANGED <<pc, now>> /\ controller'.exists = controller.exists
            /\ controller'.StopTimestamp = controller.StopTimestamp
            /\ controller.HasError => controller'.HasError
            /\ controller.StopNow => controller'.StopNow
            /\ ~controller.StreamersRemaining => ~controller'.StreamersRemaining
        BY <2>0, <3>3 DEF StreamsEnd, StreamError, unread, Controllers
      <4> QED BY <4>1 DEF DoneInv, isDoneWriting
    <3>4. CASE Tick
      BY <2>0, <3>4 DEF Tick, unread, DoneInv, isDoneWriting
    <3>5. CASE UNCHANGED vars
      BY <3>1, <3>5 DEF vars
    <3> QED BY <3>1, <3>2, <3>3, <3>4, <3>5
         DEF Next, MainLoop, PollPool, PollPoolMessage, Connect, PollCommand,
             PollCommandMessage, setToIdle, SeekEnd, SendCommand, unread
  <2> QED BY <2>1, StepKinds
<1> QED BY <1>1, <1>2, TypeCorrect, PTL DEF Spec

(* The histories of starts and of ends grow together: one start more than ends
   while a job is running, and that start tells where the Handler answers. *)
LastStarted == Started[Len(Started)]

HistoryInv ==
  /\ Len(Started) = Len(Ended) + (IF IsWritingNow THEN 1 ELSE 0)
  /\ \A i \in 1..Len(Ended) :
       Ended[i].job = Started[i].job /\ Ended[i].topic = Started[i].topic
  /\ IsWritingNow =>
       /\ LastStarted.job = status.JobId
       /\ LastStarted.topic = handler.CommandResponse

\* The history of a file-writer is that of its jobs.
LEMMA HistoryStep ==
  ASSUME \A t \in ControlTopics : \A c \in TopicCommands[t] : c.type # "start",
         TypeInv, TypeInv', StateOK, PlaceInv, DoneInv, HistoryInv, [Next]_vars
  PROVE  HistoryInv'
<1>0. /\ Started \in Seq(Responses) /\ Ended \in Seq(Responses)
      /\ handler \in Handlers /\ status \in Statuses /\ replies \in Replies
  BY DEF TypeInv, TypeOK, Started, Ended, Handlers, Statuses, Replies
<1>1. CASE /\ SameHistory
           /\ status'.State = status.State /\ status'.JobId = status.JobId
           /\ IsWritingNow => handler'.CommandResponse = handler.CommandResponse
  BY <1>1 DEF HistoryInv, SameHistory, Started, Ended, LastStarted, IsWritingNow
<1>7. CASE setToIdle /\ ~IsWritingNow
  <2>1. PICK code : Report(handler.CommandResponse, code)
    BY <1>7 DEF setToIdle, publishStoppedMsg
  <2> DEFINE b == Append(replies.other,
                    Response(handler.CommandResponse, "done", status.JobId, Own, code))
  <2>2. replies' = [replies EXCEPT !.other = b]
    BY <1>7, <2>1 DEF Report
  <2> HIDE DEF b
  <2>3. SameHistory
    BY <1>0, <2>2 DEF Replies, SameHistory
  <2>4. ~IsWritingNow'
    BY <1>7 DEF setToIdle, IsWritingNow, Idle
  <2> QED BY <1>7, <2>3, <2>4 DEF HistoryInv, SameHistory, Started, Ended
<1>2. CASE setToIdle /\ IsWritingNow
  <2>1. IsWritingNow
    BY <1>2
  <2>2. PICK code : Report(handler.CommandResponse, code)
    BY <1>2 DEF setToIdle, publishStoppedMsg
  <2> DEFINE r == Response(handler.CommandResponse, "done", status.JobId, Own, code)
  <2>3. Ended' = Append(Ended, r) /\ Started' = Started
    <3> DEFINE a == Append(replies.ended, r)
    <3>1. replies' = [replies EXCEPT !.ended = a]
      BY <2>1, <2>2 DEF Report
    <3> HIDE DEF a
    <3>2. replies'.ended = a /\ replies'.started = replies.started
      BY <1>0, <3>1 DEF Replies
    <3> QED BY <3>2 DEF a, Ended, Started
  <2>4. r.job = status.JobId /\ r.topic = handler.CommandResponse
    BY DEF Response
  <2>5. ~IsWritingNow'
    BY <1>2 DEF setToIdle, IsWritingNow, Idle
  <2> HIDE DEF r
  <2>6. r \in Responses
    <3>1. Append(Ended, r) \in Seq(Responses)
      BY <2>3 DEF TypeInv, TypeOK, Ended
    <3>2. Len(Append(Ended, r)) = Len(Ended) + 1
      BY <1>0
    <3>3. Append(Ended, r)[Len(Ended) + 1] = r
      BY <1>0
    <3> QED BY <1>0, <3>1, <3>2, <3>3
  <2>7. Len(Ended') = Len(Ended) + 1
    BY <1>0, <2>3, <2>6
  <2>8. Len(Started) = Len(Ended) + 1
    BY <2>1 DEF HistoryInv
  <2>9. ASSUME NEW i \in 1..Len(Ended')
        PROVE  /\ Ended'[i].job = Started'[i].job
               /\ Ended'[i].topic = Started'[i].topic
    <3>1. CASE i = Len(Ended) + 1
      <4>1. Ended'[i] = r
        BY <1>0, <2>3, <2>6, <3>1
      <4>2. Started'[i] = LastStarted
        BY <2>3, <2>8, <3>1 DEF LastStarted
      <4> QED BY <2>1, <2>4, <4>1, <4>2 DEF HistoryInv
    <3>2. CASE i \in 1..Len(Ended)
      <4>1. Ended'[i] = Ended[i]
        BY <1>0, <2>3, <2>6, <3>2
      <4> QED BY <2>3, <3>2, <4>1 DEF HistoryInv
    <3> QED BY <1>0, <2>7, <3>1, <3>2
  <2> QED BY <2>3, <2>5, <2>7, <2>8, <2>9 DEF HistoryInv
<1>3. CASE QuietStep
  <2>1. CASE Connect \/ SeekEnd
    BY <1>0, <1>1, <2>1 DEF Connect, SeekEnd, Handlers, SameHistory
  <2> QED BY <1>1, <1>2, <1>7, <1>3, <2>1 DEF QuietStep, PollPool, PollCommand, Check,
       StreamsEnd, StreamError, SendCommand, Tick, unread, SameHistory
<1>4. ASSUME NEW c \in Commands, c.type = "start", startWriting(c), ~IsWritingNow
      PROVE  HistoryInv'
  <2> DEFINE r == Response(handler'.CommandResponse, "start", c.job, c.service, "201")
  <2>1. Ended' = Ended /\ Started' = Append(Started, r)
    BY <1>0, <1>4, PublishHistory DEF startWriting, Started, Ended
  <2>2. /\ r.job = c.job /\ r.topic = handler'.CommandResponse
        /\ IsWritingNow' /\ status'.JobId = c.job
    BY <1>4 DEF Response, startWriting, IsWritingNow
  <2>3. r \in Responses
    <3>1. c.job \in Jobs /\ c.service \in {None, Own, "other"}
      BY <1>4, CommandKinds
    <3>2. handler'.CommandResponse \in AllTopics
      BY DEF TypeInv, TypeOK
    <3> QED BY <3>1, <3>2 DEF Response, Responses
  <2> HIDE DEF r
  <2>4. Len(Started) = Len(Ended)
    BY <1>0, <1>4 DEF HistoryInv
  <2>5. Len(Started') = Len(Started) + 1 /\ Started'[Len(Started) + 1] = r
    BY <1>0, <2>1, <2>3
  <2>6. ASSUME NEW i \in 1..Len(Ended)
        PROVE  Started'[i] = Started[i]
    BY <1>0, <2>1, <2>3, <2>4
  <2> QED BY <2>1, <2>2, <2>4, <2>5, <2>6 DEF HistoryInv, LastStarted
<1>5. CASE /\ \E c \in StartCommands : GivesUp(c)
           /\ UNCHANGED status /\ SameHistory
           /\ IsWritingNow => \E i \in DOMAIN topics[Source.topic] :
                                topics[Source.topic][i].command.type = "start"
  <2>1. IsWritingNow => ~handler.UsingAltTopic
    <3>1. Source.topic \in AllTopics
      BY <1>0 DEF Source, Handlers
    <3> QED BY <1>5, <3>1 DEF PlaceInv
  <2>2. IsWritingNow => handler' = handler
    BY <1>5, <2>1 DEF GivesUp, revertCommandTopic
  <2> QED BY <1>1, <1>5, <2>2
<1>6. ASSUME NEW c \in Commands, stopNow(c) \/ (setStopTime(c) /\ ~StopTimePassed)
      PROVE  status'.State = status.State /\ status'.JobId = status.JobId
  BY <1>0, <1>6 DEF stopNow, setStopTime, Statuses
<1> QED BY <1>1, <1>3, <1>4, <1>5, <1>6, StepKinds
\* One record per job in both histories is the same as equal sequences of jobs.
LEMMA HistoryMeaning ==
  ASSUME TypeInv, HistoryInv
  PROVE  JobsReportedOnce /\ ReportedWhereStarted
<1>0. Started \in Seq(Responses) /\ Ended \in Seq(Responses)
  BY DEF TypeInv, TypeOK, Started, Ended
<1>1. /\ DOMAIN Started = 1..Len(Started) /\ DOMAIN Ended = 1..Len(Ended)
      /\ Len(Started) \in Nat /\ Len(Ended) \in Nat
  BY <1>0
<1>2. ReportedWhereStarted
  BY <1>1 DEF ReportedWhereStarted, TopicsOf, HistoryInv
<1> DEFINE A == JobsOf(Started)
           B == JobsOf(Ended)
           C == Running(status.JobId)
           J == Jobs \union {None}
<1>3. \A r \in Responses : r.job \in J
  BY DEF Responses
<1>4. A \in Seq(J) /\ Len(A) = Len(Started)
      /\ \A i \in 1..Len(Started) : A[i] = Started[i].job
  <2>1. \A i \in 1..Len(Started) : Started[i].job \in J
    BY <1>0, <1>3
  <2>2. A = [i \in 1..Len(Started) |-> Started[i].job]
    BY <1>1 DEF JobsOf
  <2>3. A \in [1..Len(Started) -> J]
    BY <2>1, <2>2
  <2>4. A \in Seq(J)
    BY <1>1, <2>3, SeqDef
  <2> QED BY <1>1, <2>2, <2>3, <2>4, LenProperties
<1>5. B \in Seq(J) /\ Len(B) = Len(Ended)
      /\ \A i \in 1..Len(Ended) : B[i] = Ended[i].job
  <2>1. \A i \in 1..Len(Ended) : Ended[i].job \in J
    BY <1>0, <1>3
  <2>2. B = [i \in 1..Len(Ended) |-> Ended[i].job]
    BY <1>1 DEF JobsOf
  <2>3. B \in [1..Len(Ended) -> J]
    BY <2>1, <2>2
  <2>4. B \in Seq(J)
    BY <1>1, <2>3, SeqDef
  <2> QED BY <1>1, <2>2, <2>3, <2>4, LenProperties
<1>6. C \in Seq(J) /\ Len(C) = (IF IsWritingNow THEN 1 ELSE 0)
      /\ (IsWritingNow => C[1] = status.JobId)
  <2>1. status.JobId \in J
    BY DEF TypeInv, TypeOK
  <2>2. CASE IsWritingNow
    <3>1. C = <<status.JobId>>
      BY <2>2 DEF Running
    <3> HIDE DEF C, J
    <3> QED BY <2>1, <2>2, <3>1
  <2>3. CASE ~IsWritingNow
    <3>1. C = << >>
      BY <2>3 DEF Running
    <3> HIDE DEF C, J
    <3> QED BY <2>3, <3>1, EmptySeq
  <2> QED BY <2>2, <2>3
<1>7. /\ Len(Started) = Len(Ended) + Len(C)
      /\ \A i \in 1..Len(Ended) : Ended[i].job = Started[i].job
      /\ IsWritingNow => Started[Len(Ended) + 1].job = C[1]
  BY <1>1, <1>6 DEF HistoryInv, LastStarted
<1>8. Len(C) \in {0, 1} /\ (Len(C) = 1 <=> IsWritingNow)
  BY <1>6
<1> HIDE DEF A, B, C, J
<1>9. B \o C \in Seq(J) /\ Len(B \o C) = Len(B) + Len(C)
      /\ \A i \in 1..(Len(B) + Len(C)) :
           (B \o C)[i] = IF i <= Len(B) THEN B[i] ELSE C[i - Len(B)]
  BY <1>5, <1>6, ConcatProperties
<1>l. Len(B) \in Nat /\ Len(C) \in {0, 1} /\ Len(A) = Len(B) + Len(C)
  BY <1>1, <1>4, <1>5, <1>7, <1>8
<1>m. \A n \in Nat : \A k \in {0, 1} : \A i \in 1..(n + k) :
        i <= n \/ (k = 1 /\ i = n + 1 /\ i - n = 1 /\ ~(i <= n))
  OBVIOUS
<1>10. \A i \in 1..Len(A) : A[i] = (B \o C)[i]
  <2> SUFFICES ASSUME NEW i \in 1..Len(A) PROVE A[i] = (B \o C)[i]
    OBVIOUS
  <2>1. CASE i <= Len(B)
    BY <1>1, <1>4, <1>5, <1>7, <1>8, <1>9, <2>1
  <2>2. CASE Len(C) = 1 /\ i = Len(B) + 1 /\ i - Len(B) = 1 /\ ~(i <= Len(B))
    <3>1. (B \o C)[i] = C[1]
      BY <1>l, <1>9, <2>2
    <3>2. A[i] = Started[Len(Ended) + 1].job
      BY <1>4, <1>5, <2>2
    <3> QED BY <1>7, <1>8, <2>2, <3>1, <3>2
  <2>3. i \in 1..(Len(B) + Len(C))
    BY <1>l
  <2> QED BY <1>l, <1>m, <2>1, <2>2, <2>3
<1>11. A = B \o C
  BY <1>4, <1>5, <1>7, <1>9, <1>10, SeqEqual
<1> QED BY <1>2, <1>11 DEF JobsReportedOnce, A, B, C

(* Every acknowledged job is reported as finished once, in order, where it was
   acknowledged and not before its stop time. Start commands come from the pool
   and from the default topic: one on the control topic of the running job would
   move the answers away from it. *)
THEOREM JobsReportedCorrect ==
  ASSUME \A t \in ControlTopics : \A c \in TopicCommands[t] : c.type # "start"
  PROVE  Spec => []JobsReported
<1>1. Init => HistoryInv
  BY DEF Init, HistoryInv, Started, Ended, IsWritingNow, Idle
<1>2. TypeInv /\ TypeInv' /\ StateOK /\ PlaceInv /\ DoneInv /\ HistoryInv
        /\ [Next]_vars => HistoryInv'
  BY HistoryStep
<1>3. TypeInv /\ StateOK /\ DoneInv /\ HistoryInv => JobsReported
  <2> SUFFICES ASSUME TypeInv, StateOK, DoneInv, HistoryInv PROVE JobsReported
    OBVIOUS
  <2>1. NotEndedBeforeStop
    <3> SUFFICES ASSUME pc = "idle", IsWritingNow, ~controller.HasError,
                        ~controller.StopNow
                 PROVE  now > status.StopTime
      BY DEF NotEndedBeforeStop
    <3>1. controller.exists /\ now > controller.StopTimestamp
      BY DEF DoneInv, isDoneWriting
    <3>2. status.StopTime = controller.StopTimestamp
      BY <3>1 DEF StateOK, JobMatchesState, StopTimesAgree
    <3> QED BY <3>1, <3>2
  <2> QED BY <2>1, HistoryMeaning DEF JobsReported
<1>4. Spec => []StateOK
  BY StateCorrect
<1> QED BY <1>1, <1>2, <1>3, <1>4, TypeCorrect, PlaceCorrect, DoneCorrect, PTL DEF Spec

-----------------------------------------------------------------------------
(* While the Handler answers on a control topic, it keeps the default one to
   return to; it does so only for a running job, and no job fails. *)
HomeInv ==
  /\ handler.UsingAltTopic => handler.AltCommandResponse = Default /\ IsWritingNow
  /\ ~handler.UsingAltTopic =>
       Source.topic = Default /\ handler.CommandResponse = Default
  /\ ~controller.HasError

(* A file-writer without a job takes commands from the default topic and answers
   there, however many jobs it has run or failed to start, as long as the switch
   to a control topic works and no job ends with an error: setToIdle does not
   switch back after an error. *)
THEOREM IdleCorrect ==
  ASSUME "switch" \notin Faults, "job" \notin Faults
  PROVE  Spec => []IdleListensOnDefault
<1>1. Init => HomeInv
  BY DEF Init, HomeInv, Source, Listener, NoController
<1>2. TypeInv /\ HomeInv /\ [Next]_vars => HomeInv'
  <2> SUFFICES ASSUME TypeInv, HomeInv, [Next]_vars PROVE HomeInv'
    OBVIOUS
  <2>0. /\ handler \in Handlers /\ status \in Statuses /\ controller \in Controllers
    BY DEF TypeInv, TypeOK, Handlers, Statuses, Controllers
  <2>1. CASE UNCHANGED <<handler, status, controller>>
    BY <2>1 DEF HomeInv, Source, IsWritingNow
  <2>2. CASE setToIdle
    <3>1. handler' = revertCommandTopic(handler)
      BY <2>2 DEF setToIdle, HomeInv
    <3>2. /\ ~handler'.UsingAltTopic /\ handler'.CommandSource.topic = Default
          /\ handler'.CommandResponse = Default
      BY <2>0, <3>1 DEF revertCommandTopic, HomeInv, Source, Listener
    <3> QED BY <2>2, <3>2 DEF setToIdle, NoController, HomeInv, Source
  <2>3. CASE Connect \/ SeekEnd
    <3>1. /\ handler'.UsingAltTopic = handler.UsingAltTopic
          /\ handler'.CommandSource.topic = handler.CommandSource.topic
          /\ handler'.CommandResponse = handler.CommandResponse
          /\ handler'.AltCommandResponse = handler.AltCommandResponse
      BY <2>0, <2>3 DEF Connect, SeekEnd, Handlers
    <3> QED BY <2>3, <3>1 DEF Connect, SeekEnd, HomeInv, Source, IsWritingNow
  <2>4. CASE StreamsEnd \/ StreamError
    <3>1. UNCHANGED <<handler, status>> /\ controller'.HasError = controller.HasError
      BY <2>0, <2>4 DEF StreamsEnd, StreamError, unread, Controllers
    <3> QED BY <3>1 DEF HomeInv, Source, IsWritingNow
  <2>5. CASE QuietStep
    BY <2>1, <2>2, <2>3, <2>4, <2>5 DEF QuietStep, PollPool, PollCommand, Check,
       SendCommand, Tick, unread
  <2>6. ASSUME NEW c \in Commands, c.type = "start", startWriting(c), ~IsWritingNow
        PROVE  HomeInv'
    <3>1. /\ ~handler.UsingAltTopic /\ handler.CommandSource.topic = Default
          /\ handler.CommandResponse = Default
      BY <2>6 DEF HomeInv, Source
    <3>2. /\ handler'.UsingAltTopic => handler'.AltCommandResponse = Default
          /\ ~handler'.UsingAltTopic => /\ handler'.CommandSource.topic = Default
                                       /\ handler'.CommandResponse = Default
      BY <2>6, <3>1 DEF startWriting, useControlTopic
    <3>3. IsWritingNow' /\ ~controller'.HasError
      BY <2>6 DEF startWriting, IsWritingNow, NewController
    <3> QED BY <3>2, <3>3 DEF HomeInv, Source
  <2>7. ASSUME NEW c \in StartCommands, GivesUp(c)
        PROVE  /\ ~handler'.UsingAltTopic /\ handler'.CommandSource.topic = Default
               /\ handler'.CommandResponse = Default
    <3>1. CASE handler' = revertCommandTopic(handler)
      BY <3>1 DEF revertCommandTopic, HomeInv, Source, Listener
    <3>2. CASE /\ ~IsWritingNow
               /\ handler' = revertCommandTopic(useControlTopic(handler, c.topic, StartTime(c)))
      BY <3>2 DEF revertCommandTopic, useControlTopic, HomeInv, Source, Listener
    <3> QED BY <2>7, <3>1, <3>2 DEF GivesUp
  <2>8. ASSUME NEW c \in Commands, stopNow(c) \/ (setStopTime(c) /\ ~StopTimePassed)
        PROVE  /\ status'.State = status.State
               /\ controller'.HasError = controller.HasError
    BY <2>0, <2>8 DEF stopNow, setStopTime, withStopTime, Statuses, Controllers
  <2>9. CASE /\ UNCHANGED handler /\ status'.State = status.State
             /\ controller'.HasError = controller.HasError
    BY <2>9 DEF HomeInv, Source, IsWritingNow
  <2>10. CASE /\ \E c \in StartCommands : GivesUp(c)
              /\ \/ UNCHANGED controller
                 \/ \E c \in StartCommands : LeavesOrphan(c)
    <3>1. ~controller'.HasError
      BY <2>10 DEF LeavesOrphan, NewController, HomeInv
    <3> QED BY <2>7, <2>10, <3>1 DEF HomeInv, Source
  <2> QED BY <2>1, <2>5, <2>6, <2>8, <2>9, <2>10, StepKinds
<1>3. HomeInv => IdleListensOnDefault
  BY DEF HomeInv, IdleListensOnDefault, Source
<1> QED BY <1>1, <1>2, <1>3, TypeCorrect, PTL DEF Spec
=============================================================================
