----------------------------- MODULE SourceFilter -----------------------------
(***************************************************************************)
(* The life of one Stream::SourceFilter: the partition thread hands it the *)
(* messages of one source, one by one; it drops, buffers or passes them on *)
(* to the message writer, once for each destination (writer module), and   *)
(* passes on what it still buffers when it is destroyed.                   *)
(*                                                                         *)
(* in and sent are what the rest of the program sees of the filter: the    *)
(* messages it was given and, per destination, what it queued for writing. *)
(***************************************************************************)
EXTENDS SourceFilterOps, FiniteSetsExt

CONSTANTS
  Dests,            \* the writer modules behind DestIDs
  Start,            \* start of the window, in ticks
  StopTimes,        \* stop times the filter may be given
  AcceptsRepeated,  \* values of AcceptsRepeatedTimestamps
  TimeStamps,       \* timestamps (ns) a message may carry
  MaxMessages       \* bound on the number of messages received

ASSUME SourceFilterAssumption ==
  /\ Start \in Int
  /\ StopTimes \subseteq Int
  /\ AcceptsRepeated \subseteq BOOLEAN
  /\ TimeStamps \subseteq Int
  /\ MaxMessages \in Nat

VARIABLES
  filter,   \* the members of the object
  alive,    \* the object has not been destroyed
  in,       \* history: the messages it was given
  sent      \* what it passed to MessageWriter::addMessage, per destination

vars == <<filter, alive, in, sent>>

Messages == [id : Nat, ts : TimeStamps, valid : BOOLEAN]

Init ==
  /\ \E stop \in StopTimes, repeats \in AcceptsRepeated :
       filter = NewFilter(Start, stop, repeats)
  /\ alive = TRUE
  /\ in = <<>>
  /\ sent = [d \in Dests |-> <<>>]

\* sendMessage queues the message once for each destination.
Send(msgs) == sent' = [d \in Dests |-> sent[d] \o msgs]

\* filterMessage. A finished filter is erased before the next message
\* (Partition::processMessage), so it is never given another one.
filterMessage ==
  /\ alive /\ ~filter.IsDone
  /\ Len(in) < MaxMessages
  /\ \E ts \in TimeStamps, valid \in BOOLEAN :
       LET m == [id |-> Len(in) + 1, ts |-> ts, valid |-> valid]
       IN  /\ filter' = AfterMessage(filter, m)
           /\ Send(Forwarded(filter, m))
           /\ in' = Append(in, m)
  /\ UNCHANGED alive

\* setStopTime, called for every filter the partition still has.
setStopTime ==
  /\ alive /\ ~filter.IsDone
  /\ \E stop \in StopTimes : filter' = FilterWithStopTime(filter, stop)
  /\ UNCHANGED <<alive, in, sent>>

\* The destructor: the filter is finished, or its partition is destroyed.
Destroy ==
  /\ alive
  /\ alive' = FALSE
  /\ filter' = AfterFlush(filter)
  /\ Send(BufferedSeq(filter))
  /\ UNCHANGED in

Next == filterMessage \/ setStopTime \/ Destroy

Spec == Init /\ [][Next]_vars

-----------------------------------------------------------------------------
\* Every member keeps its type (int64 timestamps, unsigned counters).
TypeOK ==
  /\ filter \in FilterType(Messages, StopTimes \union {Start})
  /\ alive \in BOOLEAN
  /\ in \in Seq(Messages)
  /\ sent \in [Dests -> Seq(Messages)]

(* Every message given to filterMessage is counted exactly once: as sent, as
   discarded, or it is the one message still waiting in BufferedMessage. A
   message lost, or sent and discarded, breaks the sum. *)
Accounting ==
  filter.Received = filter.Transmitted + filter.Discarded
                      + One(HasBuffered(filter))

-----------------------------------------------------------------------------
(* What filterMessage is for, said of the whole input and without its state:
   which of the messages received so far have been passed on. *)

\* The timestamp of the last valid message before the i-th, 0 if none.
PreviousTimestamp(i) ==
  LET earlier == {j \in 1..(i - 1) : in[j].valid}
  IN  IF earlier = {} THEN 0 ELSE in[Max(earlier)].ts

Accepted(i) ==
  in[i].valid /\ (filter.WriteRepeatedTimestamps
                    \/ in[i].ts # PreviousTimestamp(i))

InWindow(i) == Accepted(i) /\ MsgTime(in[i]) >= filter.Start

\* The next accepted message after i is j.
NextAccepted(i, j) ==
  /\ j > i /\ Accepted(j)
  /\ \A k \in (i + 1)..(j - 1) : ~Accepted(k)

\* Message i is accepted and no message accepted later took its place.
LastBeforeWindow(i) ==
  /\ Accepted(i)
  /\ \/ \E j \in (i + 1)..Len(in) : NextAccepted(i, j) /\ InWindow(j)
     \/ ~alive /\ \A j \in (i + 1)..Len(in) : ~Accepted(j)

Recorded == {i \in 1..Len(in) : InWindow(i) \/ LastBeforeWindow(i)}

(* Each destination got exactly the accepted messages from Start on and the
   last accepted one before each of them (the value the quantity had when the
   window opened), in the order they were received and none twice. So, as
   SourceFilter.h:22-24 says, "the writer module should always be able to record
   at least the data from a single message". *)
RecordsExactly ==
  \A d \in Dests :
    /\ {sent[d][k].id : k \in DOMAIN sent[d]} = Recorded
    /\ \A j, k \in DOMAIN sent[d] : j < k => sent[d][j].id < sent[d][k].id

Sorted(s) == \A i, j \in DOMAIN s : i < j => s[i].ts <= s[j].ts

(* The unordered_timestamp metric is complete: if it is zero, what reaches the
   file is in chronological order. *)
OrderedUnlessCounted ==
  filter.Unordered = 0 => \A d \in Dests : Sorted(sent[d])
=============================================================================
