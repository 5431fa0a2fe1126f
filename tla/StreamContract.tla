--------------------------- MODULE StreamContract ---------------------------
(***************************************************************************)
(* What streams promise to the StreamController that owns them, seen from  *)
(* the queue of the writer thread: messages are queued only between the    *)
(* start of a stream and the moment it is done, a stream that failed has   *)
(* queued nothing, and done and failed are for good until it is destroyed. *)
(* StreamController implements it for all of its streams, Topic with all   *)
(* its threads for one. Streams take their steps independently, and        *)
(* several may do so at once.                                              *)
(***************************************************************************)
EXTENDS Naturals

CONSTANT Streams

VARIABLES
  status,  \* of each stream: "none", "reading", "done", "failed" or "gone"
  queued   \* number of messages each has handed to the writer thread

Init ==
  /\ status \in [Streams -> {"none", "reading"}]
  /\ queued = [s \in Streams |-> 0]

Becomes(s, new) == status'[s] = new
SameStatus(s) == status'[s] = status[s]
SameQueued(s) == queued'[s] = queued[s]

Begin(s) == status[s] = "none" /\ Becomes(s, "reading") /\ SameQueued(s)

Queue(s) == status[s] = "reading" /\ SameStatus(s) /\ queued'[s] > queued[s]

\* The last messages, those kept back until now, may come with the end.
Done(s) == status[s] = "reading" /\ Becomes(s, "done") /\ queued'[s] >= queued[s]

Fail(s) ==
  /\ status[s] = "reading" /\ queued[s] = 0
  /\ Becomes(s, "failed") /\ SameQueued(s)

Destroy(s) ==
  /\ status[s] \notin {"none", "gone"} /\ Becomes(s, "gone")
  /\ queued'[s] >= queued[s]
  /\ status[s] # "reading" => SameQueued(s)

Next ==
  \A s \in Streams :
    \/ Begin(s) \/ Queue(s) \/ Done(s) \/ Fail(s) \/ Destroy(s)
    \/ (SameStatus(s) /\ SameQueued(s))

Spec == Init /\ [][Next]_<<status, queued>>
=============================================================================
