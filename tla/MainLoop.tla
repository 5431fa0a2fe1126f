------------------------------ MODULE MainLoop ------------------------------
(***************************************************************************)
(* The main loop of the program (src/kafka-to-nexus.cpp): it looks for the *)
(* topics, runs the Master, and ends after signals. The signal handler     *)
(* changes RunState, an atomic, between any two steps of the loop. A job   *)
(* ends by itself, by a command or by stopNow(), and Master::run() takes   *)
(* it down.                                                                *)
(***************************************************************************)
EXTENDS Naturals

CONSTANTS
  MinTimeout, MaxTimeout, \* of the search for the topics
  WaitForStop,            \* patience with a job after Ctrl-C
  MaxSignals              \* bound on signals

ASSUME MainLoopAssumption ==
  /\ MinTimeout \in Nat \ {0} /\ MaxTimeout \in Nat /\ MinTimeout <= MaxTimeout
  /\ WaitForStop \in Nat /\ MaxSignals \in Nat

VARIABLES
  RunState,         \* "Running", "Received", "Waiting", "KafkaWait", "Stopping"
  at,               \* the place in the loop
  FindTopicMode,
  CMetaDataTimeout,
  waited,           \* the time since SIGINTStart, up to WaitForStop + 1
  job,              \* of the Master: "none", "writing", "done" (isDoneWriting)
  signals           \* how many there were

loop == <<FindTopicMode, CMetaDataTimeout, waited, job>>
mainVars == <<RunState, at, loop, signals>>

MainInit ==
  /\ RunState = "Running" /\ at = "while" /\ FindTopicMode = TRUE
  /\ CMetaDataTimeout = MinTimeout /\ waited = 0 /\ job = "none"
  /\ signals = 0

-----------------------------------------------------------------------------
\* signal_handler, for SIGINT and for any other signal.
SIGINT ==
  RunState' = IF RunState = "Running" THEN "Received" ELSE "Stopping"
SIGTERM == RunState' = "Stopping"

signal_handler ==
  /\ signals < MaxSignals /\ signals' = signals + 1 /\ at # "exited"
  /\ SIGINT \/ SIGTERM
  /\ UNCHANGED <<at, loop>>

\* Every test of RunState reads it anew.
Test(place, next) == at = place /\ at' = next /\ UNCHANGED <<RunState, loop>>

while ==
  Test("while", IF RunState = "Stopping" THEN "end" ELSE "received?")

Received == Test("received?", IF RunState = "Received" THEN "received" ELSE "waiting?")

writingIsFinished == job \in {"none", "done"}

\* Mutant: the search for the topics goes on.
stopNow_NotWhileSearching ==
  /\ at = "received"
  /\ \/ FindTopicMode /\ at' = "try" /\ UNCHANGED job
     \/ ~FindTopicMode /\ writingIsFinished /\ at' = "end" /\ UNCHANGED job
     \/ ~FindTopicMode /\ ~writingIsFinished /\ at' = "wait" /\ job' = "done"
     \/ ~FindTopicMode /\ ~writingIsFinished /\ at' = "exited" /\ UNCHANGED job
  /\ UNCHANGED <<RunState, FindTopicMode, CMetaDataTimeout, waited>>

\* After the first Ctrl-C: end, or tell the job to stop. What Master::stopNow
\* throws is caught nowhere, and std::terminate ends the program.
stopNow ==
  /\ at = "received"
  /\ \/ /\ FindTopicMode \/ writingIsFinished
        /\ at' = "end" /\ UNCHANGED job
     \/ /\ ~FindTopicMode /\ ~writingIsFinished
        /\ \/ at' = "wait" /\ job' = "done"
           \/ at' = "exited" /\ UNCHANGED job
  /\ UNCHANGED <<RunState, FindTopicMode, CMetaDataTimeout, waited>>

\* A signal that came since the test of RunState is overwritten.
SIGINT_Waiting ==
  /\ at = "wait" /\ at' = "try"
  /\ RunState' = "Waiting" /\ waited' = 0
  /\ UNCHANGED <<FindTopicMode, CMetaDataTimeout, job>>

Waiting == Test("waiting?", IF RunState = "Waiting" THEN "waiting" ELSE "try")

Impatient == waited > WaitForStop

\* While waiting: end because run() took too long or the job has ended.
Patience ==
  /\ at = "waiting"
  /\ at' = IF Impatient \/ writingIsFinished THEN "end" ELSE "try"
  /\ RunState' = IF ~Impatient /\ writingIsFinished THEN "KafkaWait" ELSE RunState
  /\ UNCHANGED loop

\* tryToFindTopics: found, the metadata call failed, or a topic is missing.
tryToFindTopics ==
  /\ at = "try" /\ FindTopicMode
  /\ \/ at' = "while" /\ FindTopicMode' = FALSE /\ UNCHANGED CMetaDataTimeout
     \/ /\ at' = "while" /\ UNCHANGED FindTopicMode
        /\ CMetaDataTimeout' = IF 2 * CMetaDataTimeout > MaxTimeout THEN MaxTimeout
                               ELSE 2 * CMetaDataTimeout
     \/ at' = "end" /\ UNCHANGED <<FindTopicMode, CMetaDataTimeout>>
  /\ UNCHANGED <<RunState, waited, job>>

\* Master::run may start a job or be told to stop it; one that is done is taken
\* down. Or it throws.
runMaster ==
  /\ at = "try" /\ ~FindTopicMode
  /\ \/ at' = "while" /\ job' \in IF job = "done" THEN {"none"} ELSE {"none", "writing"}
     \/ at' = "end" /\ UNCHANGED job
  /\ UNCHANGED <<RunState, FindTopicMode, CMetaDataTimeout, waited>>

\* The grace period for Kafka, if there is one, and the end of main(). There the
\* thread of the StatusService, which was never joined, is destroyed before the
\* Master: std::terminate ends the program, and a job that still runs is not
\* taken down, its file not closed.
exit == Test("end", "exited")

MainThread ==
  /\ \/ while \/ Received \/ stopNow \/ SIGINT_Waiting \/ Waiting \/ Patience
     \/ tryToFindTopics \/ runMaster \/ exit
  /\ UNCHANGED signals

\* Its threads end the job.
JobIsDone ==
  /\ job = "writing" /\ job' = "done" /\ at # "exited"
  /\ UNCHANGED <<RunState, at, FindTopicMode, CMetaDataTimeout, waited, signals>>

MainTick ==
  /\ waited <= WaitForStop /\ waited' = waited + 1 /\ at # "exited"
  /\ UNCHANGED <<RunState, at, FindTopicMode, CMetaDataTimeout, job, signals>>

MainNext == MainThread \/ signal_handler \/ JobIsDone \/ MainTick

-----------------------------------------------------------------------------
(* "Got SIGINT (Ctrl-C). Shutting down gracefully.": the program ends after any
   signal, also if a second one is overwritten by the loop, if no topic is ever
   found, or if taking down the job takes longer than it may. That it ends at
   once after the second Ctrl-C is not said: a second one that the loop
   overwrites is lost, and the patience with the job has to run out. *)
SignalsEndProgram == RunState # "Running" ~> at = "exited"
=============================================================================
