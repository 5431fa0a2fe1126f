--------------------------- MODULE MCCommandHandler ---------------------------
(* CommandHandler with one control topic and commands of every kind: jobs with
   and without a control topic and a stop time, a job id that is no UUID, and
   stop commands for the right and the wrong job, now and later. *)
EXTENDS CommandHandler

StartJob(job, id, topic, stop, service) ==
  [type |-> "start", readable |-> TRUE, service |-> service, job |-> job,
   id |-> id, topic |-> topic, start |-> 0, stop |-> stop]

StopJob(job, id, stop, service) ==
  [type |-> "stop", readable |-> TRUE, service |-> service, job |-> job,
   id |-> id, stop |-> stop]

MCPoolCommands ==
  {StartJob("j1", "valid", "control", Never, None),
   StartJob("j2", "valid", None, 1, "other"),
   StartJob("j2", "malformed", "control", 2, None),
   StartJob("j1", "valid", "control", Never, Own),
   StopJob("j1", "valid", 0, None),
   OtherMessage}

MCStops ==
  {StopJob("j1", "valid", 0, None), StopJob("j1", "valid", 2, Own)}

MCOddStops ==
  {StopJob("j1", "valid", 1, Own), StopJob("j2", "valid", 2, Own),
   StopJob("j1", "nil", 0, None), StopJob("j2", "valid", 0, "other")}

MCStarts ==
  {StartJob("j2", "valid", None, 2, Own), StartJob("j2", "valid", "control", 2, Own),
   [StartJob("j1", "valid", None, 2, Own) EXCEPT !.readable = FALSE]}

\* Start commands are sent to the pool and the default topic only.
MCTopicCommands ==
  [t \in AllTopics |-> MCStops \union (IF t = Default THEN MCStarts ELSE MCOddStops)]

\* A start command is sent to the control topic as well.
MCStartsOnControl ==
  [t \in AllTopics |->
     IF t = Default THEN {}
     ELSE {StopJob("j1", "valid", 0, None), StartJob("j2", "valid", None, 2, "other")}]

\* Jobs that began before they are known, and whose commands may be older.
MCEarlierJobs ==
  {[StartJob("j1", "valid", "control", Never, None) EXCEPT !.start = 1],
   StartJob("j1", "valid", "control", Never, None),
   StartJob("j2", "valid", None, 1, "other"),
   StartJob("j2", "malformed", "control", 2, None)}

MCFewPoolCommands ==
  {StartJob("j1", "valid", "control", Never, None), StartJob("j2", "nil", None, 1, None)}

MCFewStops ==
  [t \in AllTopics |-> {StopJob("j1", "valid", 0, None), StopJob("j1", "valid", 1, Own)}]
=============================================================================
