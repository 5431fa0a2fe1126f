--------------------------- MODULE SourceFilterOps ---------------------------
(***************************************************************************)
(* The state of one Stream::SourceFilter object and what its methods do to *)
(* it (src/Stream/SourceFilter.{h,cpp}), as operators on a record, so that *)
(* both the stand-alone specification (SourceFilter) and the partition     *)
(* that owns a set of filters (Partition) use the same definitions.        *)
(*                                                                         *)
(* A flatbuffer message is a record with at least the fields               *)
(*   id     its identity (where in the input it was received),             *)
(*   ts     its timestamp, in nanoseconds,                                 *)
(*   valid  the outcome of FlatbufferMessage::isValid().                   *)
(* Start and Stop are time_points, in microseconds.                        *)
(***************************************************************************)
EXTENDS Integers, Sequences

CONSTANT NsPerTick      \* nanoseconds in one tick of a time_point

ASSUME NsPerTickAssumption == NsPerTick \in Nat \ {0}

\* An empty BufferedMessage, i.e. one whose isValid() is false.
NoMessage == [id |-> 0, ts |-> 0, valid |-> FALSE]

\* SourceFilter::SourceFilter and the member initialisers.
NewFilter(start, stop, repeats) ==
  [Start |-> start, Stop |-> stop, WriteRepeatedTimestamps |-> repeats,
   CurrentTimeStamp |-> 0, IsDone |-> FALSE, BufferedMessage |-> NoMessage,
   Received |-> 0, Transmitted |-> 0, Discarded |-> 0,
   Repeated |-> 0, Unordered |-> 0, FlatbufferInvalid |-> 0]

\* The nanosecond timestamp as a time_point: duration_cast truncates.
MsgTime(m) == m.ts \div NsPerTick

One(condition) == IF condition THEN 1 ELSE 0

IsRepeated(f, m) == m.ts = f.CurrentTimeStamp

IsUnordered(f, m) == m.ts < f.CurrentTimeStamp

\* The two early returns of filterMessage that drop the message.
IsDropped(f, m) ==
  ~m.valid \/ (IsRepeated(f, m) /\ ~f.WriteRepeatedTimestamps)

\* Mutant: a message at the very start of the window counts as early.
IsBeforeStart_OrAt(f, m) == MsgTime(m) <= f.Start

IsBeforeStart(f, m) == MsgTime(m) < f.Start

HasBuffered(f) == f.BufferedMessage.valid

BufferedSeq(f) == IF HasBuffered(f) THEN <<f.BufferedMessage>> ELSE <<>>

\* Mutant: the buffered message is passed on after the one that released it.
Forwarded_Swapped(f, m) ==
  IF IsDropped(f, m) \/ IsBeforeStart(f, m) THEN <<>>
                                           ELSE <<m>> \o BufferedSeq(f)

(* SourceFilter::filterMessage: the messages it passes on, oldest first, and
   the filter it leaves behind. *)
Forwarded(f, m) ==
  IF IsDropped(f, m) \/ IsBeforeStart(f, m) THEN <<>>
                                           ELSE Append(BufferedSeq(f), m)

\* Mutant: a message that is dropped is taken off the discarded ones.
AfterDrop_Minus(f, m) == [f EXCEPT !.Received = @ + 1, !.Discarded = @ - 1]

AfterDrop(f, m) ==
  [f EXCEPT !.Received = @ + 1, !.Discarded = @ + 1,
            !.FlatbufferInvalid = @ + One(~m.valid),
            !.Repeated = @ + One(m.valid)]

AfterBuffering(f, m) ==
  [f EXCEPT !.Received = @ + 1,
            !.Repeated = @ + One(IsRepeated(f, m)),
            !.Unordered = @ + One(IsUnordered(f, m)),
            !.CurrentTimeStamp = m.ts,
            !.Discarded = @ + One(HasBuffered(f)),
            !.BufferedMessage = m]

AfterSending(f, m) ==
  [f EXCEPT !.Received = @ + 1,
            !.Repeated = @ + One(IsRepeated(f, m)),
            !.Unordered = @ + One(IsUnordered(f, m)),
            !.CurrentTimeStamp = m.ts,
            !.IsDone = @ \/ MsgTime(m) > f.Stop,
            !.Transmitted = @ + One(HasBuffered(f)) + 1,
            !.BufferedMessage = NoMessage]

AfterMessage(f, m) ==
  IF IsDropped(f, m) THEN AfterDrop(f, m)
  ELSE IF IsBeforeStart(f, m) THEN AfterBuffering(f, m)
  ELSE AfterSending(f, m)

\* SourceFilter::setStopTime.
FilterWithStopTime(f, stop) == [f EXCEPT !.Stop = stop]

\* Mutant: the buffered message is sent and also kept.
AfterFlush_Kept(f) == [f EXCEPT !.Transmitted = @ + One(HasBuffered(f))]

\* SourceFilter::sendBufferedMessage, as the destructor calls it: it passes on
\* BufferedSeq(f) and leaves the filter without a buffered message.
AfterFlush(f) ==
  [f EXCEPT !.Transmitted = @ + One(HasBuffered(f)),
            !.BufferedMessage = NoMessage]

FilterType(Messages, Times) ==
  [Start : Times, Stop : Times, WriteRepeatedTimestamps : BOOLEAN,
   CurrentTimeStamp : Int, IsDone : BOOLEAN,
   BufferedMessage : Messages \union {NoMessage},
   Received : Nat, Transmitted : Nat, Discarded : Nat,
   Repeated : Nat, Unordered : Nat, FlatbufferInvalid : Nat]
=============================================================================
