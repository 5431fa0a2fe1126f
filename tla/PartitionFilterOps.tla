-------------------------- MODULE PartitionFilterOps --------------------------
(***************************************************************************)
(* Stream::PartitionFilter (src/Stream/PartitionFilter.{h,cpp}): from the  *)
(* outcomes of polling one partition, decide when to stop consuming it.    *)
(* The object is a record, its methods are operators on it.                *)
(*                                                                         *)
(* Time is counted in ticks. StatusOccurrenceTime only ever matters as the *)
(* time since then while polling fails, so the record holds that age, up   *)
(* to TimeLimit + 1.                                                       *)
(***************************************************************************)
EXTENDS Integers

CONSTANTS
  StopLeeway,   \* how long after the stop time data is still expected
  TimeLimit,    \* how long polling may fail before giving up
  TimeMax       \* time_point::max()

ASSUME PartitionFilterAssumption ==
  StopLeeway \in Nat /\ TimeLimit \in Nat /\ TimeMax \in Nat

\* Arithmetic on time_points wraps around (signed 64 bits in the build).
Wrapped(t) == IF t > TimeMax THEN t - 2 * (TimeMax + 1) ELSE t

\* The overflow guard of the constructors of PartitionFilter and Partition.
ReducedStop(stop) ==
  IF TimeMax - stop <= StopLeeway THEN stop - StopLeeway ELSE stop

\* Mutant: messages that are late by less than the leeway are not waited for.
Deadline_NoLeeway(stop) == stop

Deadline(stop) == Wrapped(stop + StopLeeway)

NewTester(stop) ==
  [ForceStop |-> FALSE, State |-> "DEFAULT", Age |-> 0,
   StopTime |-> ReducedStop(stop)]

ForceStop(tester) == [tester EXCEPT !.ForceStop = TRUE]

SetTesterStop(tester, stop) == [tester EXCEPT !.StopTime = stop]

\* updateStatusOccurrenceTime: only a change of state restarts the clock.
NewStatus(tester, state) ==
  IF tester.State = state THEN tester
  ELSE [tester EXCEPT !.State = state, !.Age = 0]

\* Mutant: an error is never given up on.
HasExceededTimeLimit_Never(tester) == FALSE

HasExceededTimeLimit(tester) == tester.Age > TimeLimit

Ageing(tester) == tester.State = "ERROR" /\ tester.Age <= TimeLimit

Older(tester) == IF Ageing(tester) THEN [tester EXCEPT !.Age = @ + 1] ELSE tester

(* shouldStopPartition: the state it leaves and what it returns. *)
AfterStatus(tester, status) ==
  IF tester.ForceStop THEN tester
  ELSE CASE status = "Message" -> [tester EXCEPT !.State = "DEFAULT"]
         [] status = "EndOfPartition" -> [tester EXCEPT !.State = "END_OF_PARTITION"]
         [] status = "TimedOut" -> NewStatus(tester, "TIMEOUT")
         [] status = "Error" -> NewStatus(tester, "ERROR")

ShouldStop(tester, status, now) ==
  \/ tester.ForceStop
  \/ /\ status \in {"EndOfPartition", "TimedOut"}
     /\ now > Deadline(tester.StopTime)
  \/ /\ status = "Error"
     /\ HasExceededTimeLimit(AfterStatus(tester, status))

TesterType ==
  [ForceStop : BOOLEAN,
   State : {"DEFAULT", "END_OF_PARTITION", "ERROR", "TIMEOUT"},
   Age : 0..(TimeLimit + 1), StopTime : Int]
=============================================================================
