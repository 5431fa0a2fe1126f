--------------------------- MODULE PartitionProofs ---------------------------
(***************************************************************************)
(* Partition for any filters, messages, stop times and number of calls,    *)
(* and any interleaving of its threads: types, the one polling task, the   *)
(* copies of the stop time, when and with what unread it finishes, and     *)
(* what becomes of the messages it hands to its filters.                   *)
(***************************************************************************)
EXTENDS Partition, CommonLemmas

Tasks == {Poll, Halt, Exit} \union {NewStop(stopTime) : stopTime \in StopTimes}

FilterSet == FilterType(KafkaMessages, AllStops \union {Start})

Metrics == [Processed : Nat, BadOffsets : Nat, FlatbufferErrors : Nat]

\* TypeOK in the terms of these proofs, part by part.
MembersOK ==
  /\ filters \in [Writers -> FilterSet] /\ live \subseteq Writers
  /\ StopTime \in Int /\ tester \in TesterType /\ CurrentOffset \in Nat
  /\ metrics \in Metrics

Statuses == {"EndOfPartition", "TimedOut", "Error"}

AnswerOK ==
  answer = NoAnswer \/ answer \in [status : Statuses, seen : 0..Len(log)]

OthersOK ==
  /\ HasFinished \in BOOLEAN /\ paused \in BOOLEAN
  /\ phase \in {"running", "joining", "destroyed"}
  /\ stopping \in {"no", "half", "done"}
  /\ sent \in [Writers -> Seq(KafkaMessages)]
  /\ asked \in AllStops /\ mark \in 0..(Marks - 1) /\ calls \in 0..MaxCalls

LogOK ==
  /\ log \in Seq(KafkaMessages) /\ next \in 1..(Len(log) + 1)
  /\ now \in 0..MaxTime

\* The parts together are TypeOK.
LEMMA TypeParts == TypeOK <=> MembersOK /\ OthersOK /\ LogOK /\ AnswerOK
BY DEF TypeOK, MembersOK, OthersOK, LogOK, AnswerOK, FilterSet, Metrics, Statuses

TypeInv ==
  /\ MembersOK /\ OthersOK /\ LogOK /\ AnswerOK
  /\ executor \in Executors(Threads, Tasks)

(* No polling task is queued once the partition has finished, and while the
   worker is in the middle of a poll. *)
NoPollTask == HasFinished \/ answer # NoAnswer

-----------------------------------------------------------------------------
(* The operators of the partition's members. *)

\* The tester keeps its type whatever a poll returns.
LEMMA TesterFacts ==
  ASSUME NEW x \in TesterType, NEW t \in Int,
         NEW status \in {"Message", "EndOfPartition", "TimedOut", "Error"}
  PROVE  /\ AfterStatus(x, status) \in TesterType
         /\ AfterStatus(x, status).StopTime = x.StopTime
         /\ ForceStop(x) \in TesterType /\ ForceStop(x).StopTime = x.StopTime
         /\ SetTesterStop(x, t) \in TesterType /\ SetTesterStop(x, t).StopTime = t
         /\ Older(x) \in TesterType /\ Older(x).StopTime = x.StopTime
<1>0. ASSUME NEW state \in {"TIMEOUT", "ERROR"}
      PROVE  NewStatus(x, state) \in TesterType /\ NewStatus(x, state).StopTime = x.StopTime
  <2>1. 0 \in 0..(TimeLimit + 1)
    BY PartitionFilterAssumption
  <2>2. CASE x.State = state
    BY <2>2 DEF NewStatus
  <2>3. CASE x.State # state
    BY <2>1, <2>3 DEF NewStatus, TesterType
  <2> QED BY <2>2, <2>3
<1>1. /\ AfterStatus(x, status) \in TesterType
      /\ AfterStatus(x, status).StopTime = x.StopTime
  <2>1. CASE x.ForceStop
    BY <2>1 DEF AfterStatus
  <2>2. CASE ~x.ForceStop /\ status = "Message"
    <3>1. AfterStatus(x, status) = [x EXCEPT !.State = "DEFAULT"]
      BY <2>2 DEF AfterStatus
    <3> QED BY <3>1 DEF TesterType
  <2>3. CASE ~x.ForceStop /\ status = "EndOfPartition"
    <3>1. AfterStatus(x, status) = [x EXCEPT !.State = "END_OF_PARTITION"]
      BY <2>3 DEF AfterStatus
    <3> QED BY <3>1 DEF TesterType
  <2>4. CASE ~x.ForceStop /\ status = "TimedOut"
    <3>1. AfterStatus(x, status) = NewStatus(x, "TIMEOUT")
      BY <2>4 DEF AfterStatus
    <3> QED BY <1>0, <3>1
  <2>5. CASE ~x.ForceStop /\ status = "Error"
    <3>1. AfterStatus(x, status) = NewStatus(x, "ERROR")
      BY <2>5 DEF AfterStatus
    <3> QED BY <1>0, <3>1
  <2> QED BY <2>1, <2>2, <2>3, <2>4, <2>5
<1>2. /\ ForceStop(x) \in TesterType /\ ForceStop(x).StopTime = x.StopTime
      /\ SetTesterStop(x, t) \in TesterType /\ SetTesterStop(x, t).StopTime = t
  BY DEF ForceStop, SetTesterStop, TesterType
<1>3. Older(x) \in TesterType /\ Older(x).StopTime = x.StopTime
  BY PartitionFilterAssumption DEF Older, Ageing, TesterType
<1> QED BY <1>1, <1>2, <1>3

\* The fields of a Kafka message that are counted with or compared.
LEMMA MessageFacts ==
  ASSUME NEW m \in KafkaMessages
  PROVE  /\ m.ts \in Int /\ m.offset \in Nat /\ m.kafkaTime \in Int
         /\ m.valid \in BOOLEAN
<1>1. \A t \in TimeStamps : t \in Int
  BY PartitionAssumption
<1>2. m.ts \in TimeStamps
  BY DEF KafkaMessages
<1>3. m.ts \in Int
  BY <1>1, <1>2, Zenon
<1> QED BY <1>3 DEF KafkaMessages

\* What is queued is one of the tasks, and each is recognised as what it is.
LEMMA TaskFacts ==
  /\ Poll \in Tasks /\ Halt \in Tasks /\ Exit \in Tasks
  /\ Halt # Poll /\ Exit # Poll
  /\ \A t \in StopTimes : NewStop(t) \in Tasks /\ NewStop(t) # Poll
  /\ \A task \in Tasks : task.do = "setStopTime" =>
       task.stop \in StopTimes /\ task # Poll
<1>1. Halt # Poll /\ Exit # Poll
  BY DEF Poll, Halt, Exit
<1>2. \A t \in StopTimes : NewStop(t) \in Tasks /\ NewStop(t) # Poll
  BY DEF Poll, NewStop, Tasks
<1>3. \A task \in Tasks : task.do = "setStopTime" =>
        task.stop \in StopTimes /\ task # Poll
  BY DEF Poll, Halt, Exit, NewStop, Tasks
<1> QED BY <1>1, <1>2, <1>3 DEF Tasks

-----------------------------------------------------------------------------
(* The polling task. *)

PollQueued(ex, finished) ==
  /\ Absent(ex.high, Poll)
  /\ finished => Absent(ex.low, Poll)
  /\ ~finished => Single(ex.low, Poll)

\* Sending another task leaves the polling task where it is.
LEMMA SendKeepsPoll ==
  ASSUME NEW ex \in Executors(Threads, Tasks), NEW t \in Threads,
         NEW task \in Tasks, task # Poll, NEW finished \in BOOLEAN,
         PollQueued(ex, finished)
  PROVE  /\ PollQueued(sendWork(ex, t, task), finished)
         /\ PollQueued(sendLowPriorityWork(ex, t, task), finished)
<1>1. ex.high \in Queues(Threads, Tasks) /\ ex.low \in Queues(Threads, Tasks)
  BY DEF Executors
<1>2. /\ sendWork(ex, t, task).high = Put(ex.high, t, task)
      /\ sendWork(ex, t, task).low = ex.low
      /\ sendLowPriorityWork(ex, t, task).low = Put(ex.low, t, task)
      /\ sendLowPriorityWork(ex, t, task).high = ex.high
  BY SendFacts
<1>3. /\ Absent(ex.high, Poll) => Absent(Put(ex.high, t, task), Poll)
      /\ Absent(ex.low, Poll) => Absent(Put(ex.low, t, task), Poll)
      /\ Single(ex.low, Poll) => Single(Put(ex.low, t, task), Poll)
  BY <1>1, PutCount
<1> QED BY <1>2, <1>3 DEF PollQueued

(* The task that is taken between two polls: if it polls, no other polling task
   is left, and the partition has not finished; if it does not, the polling task
   stays. *)
LEMMA TakeFacts ==
  ASSUME TypeInv, PollQueued(executor, HasFinished), NEW slot \in Runnable(executor)
  PROVE  /\ Dequeue(executor, slot) \in Executors(Threads, Tasks)
         /\ Task(executor, slot) \in Tasks
         /\ Task(executor, slot) # Poll =>
              PollQueued(Dequeue(executor, slot), HasFinished)
         /\ Task(executor, slot) = Poll =>
              /\ ~HasFinished
              /\ PollQueued(Dequeue(executor, slot), TRUE)
<1> DEFINE ex == Dequeue(executor, slot)
           task == Task(executor, slot)
<1>0. executor \in Executors(Threads, Tasks) /\ HasFinished \in BOOLEAN
  BY DEF TypeInv, OthersOK
<1>1. executor.high \in Queues(Threads, Tasks) /\ executor.low \in Queues(Threads, Tasks)
  BY <1>0 DEF Executors
<1>2. ex \in Executors(Threads, Tasks) /\ task \in Tasks
  BY <1>0, RunnableFacts
<1>3. PICK t \in Threads :
        \/ /\ executor.high[t] # << >> /\ task = Head(executor.high[t])
           /\ ex.high = Taken(executor.high, t)
           /\ ex.low = executor.low
        \/ /\ executor.low[t] # << >> /\ task = Head(executor.low[t])
           /\ ex.low = Taken(executor.low, t)
           /\ ex.high = executor.high
  BY <1>0, RunnableFacts
<1> HIDE DEF ex, task
<1>4. CASE /\ executor.high[t] # << >> /\ task = Head(executor.high[t])
           /\ ex.high = Taken(executor.high, t)
           /\ ex.low = executor.low
  <2>1. Absent(ex.high, Poll)
    BY <1>1, <1>4, TakenCount DEF PollQueued
  <2>2. task # Poll
    <3> DEFINE q == executor.high[t]
    <3>1. q \in Seq(Tasks) /\ q # << >> /\ \A i \in DOMAIN q : q[i] # Poll
      BY <1>1, <1>4 DEF Queues, PollQueued, Absent
    <3>2. Head(q) = q[1] /\ 1 \in DOMAIN q
      <4> HIDE DEF q
      <4> QED BY <3>1, EmptySeq, HeadTailProperties
    <3> QED BY <1>4, <3>1, <3>2
  <2> QED BY <1>2, <1>4, <2>1, <2>2 DEF PollQueued, ex, task
<1>5. CASE /\ executor.low[t] # << >> /\ task = Head(executor.low[t])
           /\ ex.low = Taken(executor.low, t)
           /\ ex.high = executor.high
  <2>1. /\ Absent(executor.low, Poll) => Absent(ex.low, Poll)
        /\ task # Poll /\ Single(executor.low, Poll) => Single(ex.low, Poll)
        /\ task = Poll /\ Single(executor.low, Poll) => Absent(ex.low, Poll)
    BY <1>1, <1>5, TakenCount
  <2>2. task = Poll => ~Absent(executor.low, Poll)
    <3> DEFINE q == executor.low[t]
    <3>1. q \in Seq(Tasks) /\ q # << >> /\ t \in DOMAIN executor.low
      BY <1>1, <1>5 DEF Queues
    <3>2. Head(q) = q[1] /\ 1 \in DOMAIN q
      <4> HIDE DEF q
      <4> QED BY <3>1, EmptySeq, HeadTailProperties
    <3> QED BY <1>5, <3>1, <3>2 DEF Absent
  <2> QED BY <1>0, <1>2, <1>5, <2>1, <2>2 DEF PollQueued, ex, task
<1> QED BY <1>3, <1>4, <1>5

\* A poll that goes on queues itself once, one that finishes does not.
LEMMA PollAgain ==
  ASSUME NEW ex \in Executors(Threads, Tasks), PollQueued(ex, TRUE)
  PROVE  /\ sendLowPriorityWork(ex, "self", Poll) \in Executors(Threads, Tasks)
         /\ PollQueued(sendLowPriorityWork(ex, "self", Poll), FALSE)
<1> DEFINE new == sendLowPriorityWork(ex, "self", Poll)
<1>1. ex.low \in Queues(Threads, Tasks) /\ "self" \in Threads /\ Poll \in Tasks
  BY TaskFacts DEF Executors, Threads
<1>2. /\ new \in Executors(Threads, Tasks)
      /\ new.low = Put(ex.low, "self", Poll) /\ new.high = ex.high
  BY <1>1, SendFacts
<1>3. Single(Put(ex.low, "self", Poll), Poll)
  BY <1>1, PutCount DEF PollQueued
<1> QED BY <1>2, <1>3 DEF PollQueued
-----------------------------------------------------------------------------
(* The filters. *)

(* What holds of every filter, also while others are removed: its counters add
   up, everything it counted as sent is in its destinations, and one that is
   gone has nothing left; the ones that are left are not done. *)
FilterOK(w) ==
  /\ Balanced(filters[w])
  /\ Len(sent[w]) = filters[w].Transmitted
  /\ w \notin live =>
       filters[w].Received = filters[w].Transmitted + filters[w].Discarded
  /\ w \in live => ~filters[w].IsDone

Typed(w) == filters[w] \in FilterSet /\ sent[w] \in Seq(KafkaMessages)

Takes(w, m) == m.valid /\ SourceOf[w] = m.src

\* What processMessage does to one filter and its destinations.
LEMMA ProcessOne ==
  ASSUME TypeOK, NEW m \in KafkaMessages, processMessage(m), NEW w \in Writers,
         FilterOK(w)
  PROVE  /\ Typed(w)' /\ FilterOK(w)'
         /\ w \in live' =>
              /\ w \in live /\ filters'[w].Stop = filters[w].Stop
              /\ filters'[w].Received = filters[w].Received + One(Takes(w, m))
<1> DEFINE f == filters[w]
           g == IF w \in Matching(m) THEN AfterMessage(f, m) ELSE f
           fs == Filtered(m)
           gone == live \intersect Done(fs)
           fwd == Forwarded(f, m)
           buf == BufferedSeq(g)
<1>t. f \in FilterSet /\ sent[w] \in Seq(KafkaMessages) /\ m.ts \in Int
  BY MessageFacts DEF TypeOK, FilterSet
<1>1. fs[w] = g /\ (w \in gone <=> w \in live /\ g.IsDone)
  BY DEF Filtered, Done
<1>2. /\ filters'[w] = (IF w \in gone THEN AfterFlush(fs[w]) ELSE fs[w])
      /\ live' = live \ gone
      /\ sent'[w] = (IF w \notin Matching(m) THEN sent[w]
                     ELSE sent[w] \o fwd
                          \o (IF w \in gone THEN BufferedSeq(fs[w]) ELSE << >>))
  BY DEF processMessage
<1>3. w \in Matching(m) <=> w \in live /\ Takes(w, m)
  BY DEF Matching, Takes
<1>4. CASE w \notin Matching(m)
  <2>1. g = f /\ w \notin gone
    BY <1>1, <1>4 DEF FilterOK
  <2>2. filters'[w] = f /\ sent'[w] = sent[w] /\ (w \in live' <=> w \in live)
    BY <1>1, <1>2, <1>4, <2>1
  <2>3. Typed(w)' /\ FilterOK(w)'
    BY <1>t, <2>2 DEF Typed, FilterOK
  <2>4. w \in live => One(Takes(w, m)) = 0
    BY <1>3, <1>4 DEF One
  <2>5. f.Received \in Nat
    BY <1>t DEF FilterSet, FilterType
  <2> QED BY <2>2, <2>3, <2>4, <2>5
<1>5. CASE w \in Matching(m)
  <2>0. w \in live /\ Takes(w, m) /\ g = AfterMessage(f, m) /\ One(Takes(w, m)) = 1
    BY <1>3, <1>5 DEF One
  <2>1. /\ g \in FilterSet /\ g.Received = f.Received + 1 /\ g.Stop = f.Stop
        /\ fwd \in Seq(KafkaMessages) /\ g.Transmitted = f.Transmitted + Len(fwd)
        /\ Balanced(g)
    BY <1>t, <2>0, AfterMessageFacts DEF FilterSet, FilterOK
  <2>n. Len(sent[w]) = f.Transmitted /\ f.Transmitted \in Nat
    BY <1>t DEF FilterSet, FilterType, FilterOK
  <2> HIDE DEF g, fwd
  <2>2. sent[w] \o fwd \in Seq(KafkaMessages)
        /\ Len(sent[w] \o fwd) = Len(sent[w]) + Len(fwd)
    BY <1>t, <2>1, ConcatProperties
  <2>3. CASE ~g.IsDone
    <3>1. w \notin gone /\ w \in live'
      BY <1>1, <1>2, <2>0, <2>3
    <3>2. filters'[w] = g /\ sent'[w] = (sent[w] \o fwd) \o << >>
      BY <1>1, <1>2, <1>5, <3>1
    <3>3. sent'[w] = sent[w] \o fwd
      BY <2>2, <3>2, ConcatEmptySeq
    <3>4. Len(sent'[w]) = g.Transmitted
      BY <2>1, <2>2, <2>n, <3>3
    <3>5. Typed(w)'
      BY <2>1, <2>2, <3>2, <3>3 DEF Typed
    <3>6. FilterOK(w)'
      BY <2>1, <2>3, <3>1, <3>2, <3>4 DEF FilterOK
    <3> QED BY <2>0, <2>1, <3>1, <3>2, <3>5, <3>6
  <2>4. CASE g.IsDone
    <3>1. w \in gone /\ w \notin live'
      BY <1>1, <1>2, <2>0, <2>4
    <3>2. filters'[w] = AfterFlush(g) /\ sent'[w] = (sent[w] \o fwd) \o BufferedSeq(g)
      BY <1>1, <1>2, <1>5, <3>1
    <3>3. /\ AfterFlush(g) \in FilterSet /\ Balanced(AfterFlush(g))
          /\ BufferedSeq(g) \in Seq(KafkaMessages)
          /\ AfterFlush(g).Transmitted = g.Transmitted + Len(BufferedSeq(g))
          /\ AfterFlush(g).Received = AfterFlush(g).Transmitted + AfterFlush(g).Discarded
      BY <2>1, FilterFlushFacts DEF FilterSet
    <3>4. /\ sent'[w] \in Seq(KafkaMessages)
          /\ Len(sent'[w]) = Len(sent[w] \o fwd) + Len(BufferedSeq(g))
      BY <2>2, <3>2, <3>3, ConcatProperties
    <3>5. Len(sent'[w]) = filters'[w].Transmitted
      BY <2>1, <2>2, <2>n, <3>2, <3>3, <3>4
    <3> QED BY <3>1, <3>2, <3>3, <3>4, <3>5 DEF Typed, FilterOK
  <2> QED BY <2>3, <2>4
<1> QED BY <1>4, <1>5

\* A filter that goes with its partition passes on what it kept back.
LEMMA FlushOne ==
  ASSUME NEW w \in Writers, Typed(w), FilterOK(w), w \in live, w \notin live',
         filters'[w] = AfterFlush(filters[w]),
         sent'[w] = sent[w] \o BufferedSeq(filters[w])
  PROVE  Typed(w)' /\ FilterOK(w)'
<1> DEFINE g == filters[w]
<1>1. /\ AfterFlush(g) \in FilterSet /\ Balanced(AfterFlush(g))
      /\ BufferedSeq(g) \in Seq(KafkaMessages)
      /\ AfterFlush(g).Transmitted = g.Transmitted + Len(BufferedSeq(g))
      /\ AfterFlush(g).Received = AfterFlush(g).Transmitted + AfterFlush(g).Discarded
  BY FilterFlushFacts DEF FilterSet, Typed, FilterOK
<1>2. /\ sent'[w] \in Seq(KafkaMessages)
      /\ Len(sent'[w]) = Len(sent[w]) + Len(BufferedSeq(g))
  BY <1>1, ConcatProperties DEF Typed
<1>3. Len(sent'[w]) = filters'[w].Transmitted
  BY <1>1, <1>2 DEF FilterOK
<1> QED BY <1>1, <1>2, <1>3 DEF Typed, FilterOK

\* Another stop time leaves the counters of a filter alone.
LEMMA StopOne ==
  ASSUME TypeOK, NEW w \in Writers, FilterOK(w), NEW t \in StopTimes,
         filters' = StopForFilters(t), UNCHANGED <<live, sent>>
  PROVE  /\ Typed(w)' /\ FilterOK(w)'
         /\ filters'[w].Received = filters[w].Received
         /\ w \in live => filters'[w].Stop = t
<1>1. filters[w] \in FilterSet /\ sent[w] \in Seq(KafkaMessages)
      /\ t \in AllStops \union {Start}
  BY DEF TypeOK, FilterSet, AllStops
<1>2. filters'[w] = IF w \in live THEN FilterWithStopTime(filters[w], t) ELSE filters[w]
  BY DEF StopForFilters
<1>3. CASE w \in live
  <2>1. /\ filters'[w] \in FilterSet
        /\ filters'[w].Received = filters[w].Received
        /\ filters'[w].Transmitted = filters[w].Transmitted
        /\ filters'[w].Discarded = filters[w].Discarded
        /\ filters'[w].BufferedMessage = filters[w].BufferedMessage
        /\ filters'[w].Stop = t /\ filters'[w].IsDone = filters[w].IsDone
    BY <1>1, <1>2, <1>3, FilterWithStopTimeFacts DEF FilterSet
  <2>2. One(HasBuffered(filters'[w])) = One(HasBuffered(filters[w]))
    BY <2>1 DEF HasBuffered, One
  <2>3. Balanced(filters'[w])
    BY <2>1, <2>2 DEF FilterOK, Balanced
  <2> QED BY <1>1, <2>1, <2>3 DEF Typed, FilterOK
<1>4. CASE w \notin live
  BY <1>1, <1>2, <1>4 DEF Typed, FilterOK
<1> QED BY <1>3, <1>4
-----------------------------------------------------------------------------
(* The structure of the partition. *)

Unfinished == PollQueued(executor, NoPollTask)

\* A partition that has finished is not in the middle of a poll.
OnePoll == HasFinished => answer = NoAnswer

StructInv ==
  /\ TypeInv /\ Unfinished /\ OnePoll /\ StopTimesAgree
  /\ \A w \in Writers : FilterOK(w)

\* Between two polls there is a polling task unless the partition has finished.
LEMMA BetweenPolls ==
  ASSUME StructInv, answer = NoAnswer
  PROVE  PollQueued(executor, HasFinished)
<1>1. PollQueued(executor, NoPollTask) /\ (NoPollTask <=> HasFinished)
  BY DEF StructInv, Unfinished, NoPollTask
<1> QED BY <1>1 DEF PollQueued

\* The end of a poll: it queues itself again, or it finishes.
LEMMA PollEnds ==
  ASSUME NEW ex \in Executors(Threads, Tasks), PollQueued(ex, TRUE),
         HasFinished = FALSE, mark \in 0..(Marks - 1), answer' = NoAnswer,
         GoOn(ex) \/ (executor' = ex /\ \E cause : Finish(cause))
  PROVE  /\ executor' \in Executors(Threads, Tasks) /\ Unfinished' /\ OnePoll'
         /\ HasFinished' \in BOOLEAN /\ mark' \in 0..(Marks - 1)
<1>1. CASE GoOn(ex)
  <2>1. Marks \in Nat /\ Marks # 0
    BY PartitionAssumption
  <2>2. (mark + 1) % Marks \in 0..(Marks - 1)
    BY <2>1
  <2>3. HasFinished' = FALSE /\ executor' = sendLowPriorityWork(ex, "self", Poll)
        /\ mark' = (mark + 1) % Marks
    BY <1>1 DEF GoOn
  <2>4. NoPollTask' = FALSE
    BY <2>3 DEF NoPollTask
  <2>5. executor' \in Executors(Threads, Tasks) /\ PollQueued(executor', FALSE)
    BY <2>3, PollAgain
  <2> QED BY <2>2, <2>3, <2>4, <2>5 DEF Unfinished, OnePoll
<1>2. CASE executor' = ex /\ \E cause : Finish(cause)
  <2>1. HasFinished' = TRUE /\ NoPollTask' = TRUE /\ mark' = mark
    BY <1>2 DEF Finish, NoPollTask
  <2> QED BY <1>2, <2>1 DEF Unfinished, OnePoll
<1> QED BY <1>1, <1>2

\* processMessage keeps the types of the members.
LEMMA ProcessTypes ==
  ASSUME StructInv, NEW m \in KafkaMessages, processMessage(m)
  PROVE  /\ filters' \in [Writers -> FilterSet] /\ live' \subseteq live
         /\ CurrentOffset' \in Nat /\ metrics' \in Metrics
         /\ sent' \in [Writers -> Seq(KafkaMessages)]
         /\ \A w \in Writers : FilterOK(w)'
         /\ \A w \in live' : filters'[w].Stop = filters[w].Stop
<1>0. TypeOK /\ MembersOK
  BY TypeParts DEF StructInv, TypeInv
<1>1. \A w \in Writers :
        /\ Typed(w)' /\ FilterOK(w)'
        /\ w \in live' => filters'[w].Stop = filters[w].Stop
  BY <1>0, ProcessOne DEF StructInv
<1>2. /\ DOMAIN filters' = Writers /\ DOMAIN sent' = Writers
      /\ filters' = [w \in Writers |-> filters'[w]]
      /\ sent' = [w \in Writers |-> sent'[w]]
  BY DEF processMessage
<1>3. live' \subseteq live /\ live \subseteq Writers
  BY <1>0 DEF processMessage, MembersOK
<1>4. CurrentOffset' \in Nat
  BY MessageFacts DEF processMessage
<1>5. metrics' \in Metrics
  <2> DEFINE b == metrics.BadOffsets + One(IsBadOffset(m))
             e == metrics.FlatbufferErrors + One(~m.valid)
             p == metrics.Processed + One(Matching(m) # {})
  <2>1. One(IsBadOffset(m)) \in Nat /\ One(~m.valid) \in Nat
        /\ One(Matching(m) # {}) \in Nat
    BY OneIsNat
  <2>2. b \in Nat /\ e \in Nat /\ p \in Nat
    BY <1>0, <2>1 DEF MembersOK, Metrics
  <2>3. metrics' = [metrics EXCEPT !.BadOffsets = b, !.FlatbufferErrors = e,
                                   !.Processed = p]
    BY DEF processMessage
  <2> HIDE DEF b, e, p
  <2> QED BY <1>0, <2>2, <2>3 DEF MembersOK, Metrics
<1>6. \A w \in Writers : filters'[w] \in FilterSet /\ sent'[w] \in Seq(KafkaMessages)
  BY <1>1 DEF Typed
<1>7. filters' \in [Writers -> FilterSet] /\ sent' \in [Writers -> Seq(KafkaMessages)]
  BY <1>2, <1>6
<1> QED BY <1>1, <1>3, <1>4, <1>5, <1>7

\* A turn of the polling task keeps the structure.
LEMMA PollStep ==
  ASSUME StructInv, NEW slot \in Runnable(executor), Task(executor, slot) = Poll,
         answer = NoAnswer,
         pollForMessage(Dequeue(executor, slot)), UNCHANGED <<phase, outside>>
  PROVE  StructInv'
<1> DEFINE ex == Dequeue(executor, slot)
<1>0. /\ TypeOK /\ MembersOK /\ OthersOK /\ LogOK /\ TypeInv
      /\ PollQueued(executor, HasFinished)
  BY TypeParts, BetweenPolls DEF StructInv, TypeInv
<1>1. ex \in Executors(Threads, Tasks) /\ HasFinished = FALSE /\ PollQueued(ex, TRUE)
  BY <1>0, TakeFacts DEF OthersOK
<1> HIDE DEF ex
<1>2. pollStopped(ex) \/ pollPaused(ex) \/ pollNoMessage(ex) \/ pollMessage(ex)
  BY DEF pollForMessage, ex
<1>u. UNCHANGED asked
  BY DEF pollForMessage
<1>6. CASE pollNoMessage(ex)
  <2>0. /\ UNCHANGED <<members, HasFinished, sent, next, mark>> /\ executor' = ex
        /\ \E status \in Statuses : answer' = [status |-> status, seen |-> Len(log)]
    BY <1>6 DEF pollNoMessage, Statuses
  <2>1. answer' # NoAnswer /\ AnswerOK'
    <3>1. PICK status \in Statuses : answer' = [status |-> status, seen |-> Len(log)]
      BY <2>0
    <3>2. Len(log) \in 0..Len(log) /\ log' = log /\ status # "none"
      BY <1>0 DEF LogOK, Statuses, outside
    <3> QED BY <3>1, <3>2 DEF AnswerOK, NoAnswer
  <2>2. NoPollTask' = TRUE
    BY <2>1 DEF NoPollTask
  <2>3. Unfinished' /\ OnePoll'
    BY <1>1, <2>0, <2>2 DEF Unfinished, OnePoll
  <2>4. MembersOK' /\ OthersOK' /\ LogOK'
    BY <1>0, <1>u, <2>0 DEF MembersOK, OthersOK, LogOK, members, outside
  <2>5. StopTimesAgree'
    BY <1>u, <2>0 DEF StructInv, StopTimesAgree, members
  <2>6. \A w \in Writers : FilterOK(w)'
    BY <2>0 DEF StructInv, FilterOK, members
  <2> QED BY <1>1, <2>0, <2>1, <2>3, <2>4, <2>5, <2>6 DEF StructInv, TypeInv
<1>e. CASE pollStopped(ex) \/ pollPaused(ex) \/ pollMessage(ex)
  <2>1. GoOn(ex) \/ (executor' = ex /\ \E cause : Finish(cause))
    BY <1>e DEF pollStopped, pollPaused, pollMessage
  <2>2. answer' = NoAnswer
    BY <1>e DEF pollStopped, pollPaused, pollMessage
  <2>3. AnswerOK'
    BY <2>2 DEF AnswerOK
  <2>4. /\ executor' \in Executors(Threads, Tasks) /\ Unfinished' /\ OnePoll'
        /\ HasFinished' \in BOOLEAN /\ mark' \in 0..(Marks - 1)
    BY <1>0, <1>1, <2>1, <2>2, PollEnds DEF OthersOK
  <2>5. CASE UNCHANGED <<members, sent, next>>
    <3>1. MembersOK' /\ OthersOK' /\ LogOK'
      BY <1>0, <2>4, <2>5, <1>u DEF MembersOK, OthersOK, LogOK, members, outside
    <3>2. StopTimesAgree'
      BY <2>5, <1>u DEF StructInv, StopTimesAgree, members
    <3>3. \A w \in Writers : FilterOK(w)'
      BY <2>5 DEF StructInv, FilterOK, members
    <3> QED BY <2>3, <2>4, <3>1, <3>2, <3>3 DEF StructInv, TypeInv
  <2>6. CASE pollMessage(ex)
    <3>0. /\ next <= Len(log) /\ next' = next + 1 /\ UNCHANGED StopTime
          /\ tester' = AfterStatus(tester, "Message") /\ processMessage(log[next])
      BY <2>6 DEF pollMessage
    <3>1. tester' \in TesterType /\ tester'.StopTime = tester.StopTime
      BY <1>0, <3>0, TesterFacts DEF MembersOK
    <3>2. log[next] \in KafkaMessages
      BY <1>0, <3>0 DEF LogOK
    <3>3. /\ filters' \in [Writers -> FilterSet] /\ live' \subseteq live
          /\ CurrentOffset' \in Nat /\ metrics' \in Metrics
          /\ sent' \in [Writers -> Seq(KafkaMessages)]
          /\ \A w \in Writers : FilterOK(w)'
          /\ \A w \in live' : filters'[w].Stop = filters[w].Stop
      BY <3>0, <3>2, ProcessTypes
    <3>4. MembersOK'
      BY <1>0, <3>0, <3>1, <3>3 DEF MembersOK
    <3>5. OthersOK' /\ UNCHANGED <<log, now>>
      BY <1>0, <2>4, <1>u, <3>3 DEF OthersOK, outside
    <3>6. LogOK'
      BY <1>0, <3>0, <3>5 DEF LogOK
    <3>7. StopTimesAgree'
      BY <1>u, <3>0, <3>1, <3>3 DEF StructInv, StopTimesAgree
    <3> QED BY <2>4, <3>3, <3>4, <3>5, <3>6, <3>7, <2>3 DEF StructInv, TypeInv
  <2> QED BY <1>e, <2>5, <2>6 DEF pollStopped, pollPaused
<1> QED BY <1>2, <1>6, <1>e

\* The end of a poll that returned no message keeps the structure.
LEMMA AnswerStep ==
  ASSUME StructInv, shouldStopBasedOnPollStatus, UNCHANGED outside
  PROVE  StructInv'
<1>0. /\ MembersOK /\ OthersOK /\ LogOK /\ AnswerOK /\ answer # NoAnswer
      /\ executor \in Executors(Threads, Tasks)
      /\ PollQueued(executor, TRUE) /\ HasFinished = FALSE
  <2>1. answer # NoAnswer
    BY DEF shouldStopBasedOnPollStatus
  <2> QED BY <2>1 DEF StructInv, TypeInv, OthersOK, Unfinished, NoPollTask, OnePoll
<1>1. answer.status \in Statuses
  BY <1>0 DEF AnswerOK
<1>2. /\ tester' = AfterStatus(tester, answer.status) /\ answer' = NoAnswer
      /\ GoOn(executor) \/ (executor' = executor /\ \E cause : Finish(cause))
      /\ UNCHANGED <<filters, live, StopTime, CurrentOffset, metrics, sent, next, asked,
                     phase>>
  BY DEF shouldStopBasedOnPollStatus
<1>3. /\ executor' \in Executors(Threads, Tasks) /\ Unfinished' /\ OnePoll'
      /\ HasFinished' \in BOOLEAN /\ mark' \in 0..(Marks - 1)
  BY <1>0, <1>2, PollEnds DEF OthersOK
<1>4. tester' \in TesterType /\ tester'.StopTime = tester.StopTime
  BY <1>0, <1>1, <1>2, TesterFacts DEF MembersOK, Statuses
<1>5. MembersOK' /\ OthersOK' /\ LogOK' /\ AnswerOK'
  BY <1>0, <1>2, <1>3, <1>4 DEF MembersOK, OthersOK, LogOK, AnswerOK, outside
<1>6. StopTimesAgree'
  BY <1>2, <1>4 DEF StructInv, StopTimesAgree
<1>7. \A w \in Writers : FilterOK(w)'
  BY <1>2 DEF StructInv, FilterOK
<1> QED BY <1>3, <1>5, <1>6, <1>7 DEF StructInv, TypeInv
-----------------------------------------------------------------------------
(* Every step keeps the structure. *)

\* The partition as Topic::createStreams leaves it.
LEMMA StructInit == Init => StructInv
<1> SUFFICES ASSUME Init PROVE StructInv
  OBVIOUS
<1>1. PICK stopTime \in InitialStops, repeats \in Repeats :
        /\ filters = [w \in Writers |-> NewFilter(Start, stopTime, repeats)]
        /\ StopTime = ReducedStop(stopTime)
        /\ tester = NewTester(stopTime)
        /\ asked = stopTime
  BY DEF Init
<1>2. /\ stopTime \in Int /\ stopTime \in AllStops /\ repeats \in BOOLEAN
      /\ Start \in AllStops \union {Start}
  BY PartitionAssumption DEF AllStops
<1>3. ReducedStop(stopTime) \in Int /\ 0 \in 0..(TimeLimit + 1)
  BY <1>2, PartitionFilterAssumption DEF ReducedStop
<1>4. tester \in TesterType /\ tester.StopTime = StopTime
  BY <1>1, <1>3 DEF NewTester, TesterType
<1>5. NewFilter(Start, stopTime, repeats) \in FilterSet
  BY <1>2 DEF NewFilter, FilterSet, FilterType
<1>6. MembersOK
  BY <1>1, <1>3, <1>4, <1>5 DEF Init, MembersOK, Metrics
<1>7. OthersOK /\ LogOK
  <2>1. 0 \in 0..(Marks - 1) /\ 0 \in 0..MaxCalls /\ 0 \in 0..MaxTime
    BY PartitionAssumption
  <2>2. << >> \in Seq(KafkaMessages) /\ 1 \in 1..(Len(<< >>) + 1)
    BY EmptySeq
  <2>3. /\ HasFinished = FALSE /\ paused = FALSE /\ phase = "running"
        /\ stopping = "no" /\ sent = [w \in Writers |-> << >>] /\ mark = 0
        /\ calls = 0 /\ log = << >> /\ next = 1 /\ now = 0
    BY DEF Init
  <2>4. sent \in [Writers -> Seq(KafkaMessages)]
    BY <2>2, <2>3
  <2> QED BY <1>1, <1>2, <2>1, <2>2, <2>3, <2>4 DEF OthersOK, LogOK
<1>8. executor \in Executors(Threads, Tasks) /\ Unfinished /\ OnePoll /\ AnswerOK
  <2> DEFINE new == NewExecutor(Threads)
  <2>1. /\ new \in Executors(Threads, Tasks)
        /\ \A t \in Threads : new.high[t] = << >> /\ new.low[t] = << >>
    BY NewExecutorFacts
  <2> HIDE DEF new
  <2>2. /\ new.high \in Queues(Threads, Tasks) /\ new.low \in Queues(Threads, Tasks)
        /\ DOMAIN new.high = Threads /\ DOMAIN new.low = Threads
    BY <2>1 DEF Executors, Queues
  <2>3. Absent(new.high, Poll) /\ Absent(new.low, Poll)
    BY <2>1, <2>2 DEF Absent
  <2>4. "topic" \in Threads /\ Poll \in Tasks
    BY TaskFacts DEF Threads
  <2>5. Single(Put(new.low, "topic", Poll), Poll)
    BY <2>2, <2>3, <2>4, PutCount
  <2>6. executor = sendLowPriorityWork(new, "topic", Poll) /\ HasFinished = FALSE
    BY DEF Init, new
  <2>7. /\ executor \in Executors(Threads, Tasks)
        /\ executor.low = Put(new.low, "topic", Poll) /\ executor.high = new.high
    BY <2>1, <2>4, <2>6, SendFacts
  <2>8. answer = NoAnswer /\ NoPollTask = FALSE
    BY <2>6 DEF Init, NoPollTask
  <2> QED BY <2>3, <2>5, <2>6, <2>7, <2>8 DEF Unfinished, PollQueued, OnePoll, AnswerOK
<1>9. StopTimesAgree
  BY <1>1, <1>4 DEF StopTimesAgree, NewFilter, Init
<1>10. \A w \in Writers : FilterOK(w)
  <2> SUFFICES ASSUME NEW w \in Writers PROVE FilterOK(w)
    OBVIOUS
  <2>1. /\ filters[w].Received = 0 /\ filters[w].Transmitted = 0
        /\ filters[w].Discarded = 0 /\ filters[w].IsDone = FALSE
        /\ filters[w].BufferedMessage = NoMessage
    BY <1>1 DEF NewFilter
  <2>2. One(HasBuffered(filters[w])) = 0
    BY <2>1 DEF HasBuffered, NoMessage, One
  <2>3. sent[w] = << >> /\ live = Writers
    BY DEF Init
  <2> QED BY <2>1, <2>2, <2>3 DEF FilterOK, Balanced
<1> QED BY <1>6, <1>7, <1>8, <1>9, <1>10 DEF StructInv, TypeInv

\* A step of another thread that only sends a task, other than a poll.
LEMMA SendStep ==
  ASSUME StructInv, NEW t \in Threads, NEW task \in Tasks, task # Poll,
         \/ executor' = sendWork(executor, t, task)
         \/ executor' = sendLowPriorityWork(executor, t, task),
         UNCHANGED <<members, answer, HasFinished, sent, next, log, now, paused, asked,
                     mark>>,
         phase' \in {"running", "joining", "destroyed"},
         stopping' \in {"no", "half", "done"}, calls' \in 0..MaxCalls
  PROVE  StructInv'
<1>0. /\ MembersOK /\ OthersOK /\ LogOK /\ AnswerOK
      /\ executor \in Executors(Threads, Tasks)
      /\ PollQueued(executor, NoPollTask) /\ OnePoll
  BY DEF StructInv, TypeInv, Unfinished
<1>1. NoPollTask \in BOOLEAN /\ NoPollTask' = NoPollTask /\ OnePoll' /\ AnswerOK'
  BY <1>0 DEF OthersOK, NoPollTask, OnePoll, AnswerOK
<1>2. executor' \in Executors(Threads, Tasks) /\ PollQueued(executor', NoPollTask)
  BY <1>0, <1>1, SendFacts, SendKeepsPoll
<1>3. MembersOK' /\ LogOK'
  BY <1>0 DEF MembersOK, LogOK, members
<1>4. OthersOK'
  BY <1>0 DEF OthersOK
<1>5. StopTimesAgree'
  BY DEF StructInv, StopTimesAgree, members
<1>6. \A w \in Writers : FilterOK(w)'
  BY DEF StructInv, FilterOK, members
<1>7. Unfinished'
  BY <1>1, <1>2 DEF Unfinished
<1> QED BY <1>1, <1>2, <1>3, <1>4, <1>5, <1>6, <1>7 DEF StructInv, TypeInv

\* The worker thread, whatever task it takes.
LEMMA TaskStep ==
  ASSUME StructInv, takeTask, UNCHANGED outside
  PROVE  StructInv'
<1>0. /\ TypeOK /\ MembersOK /\ OthersOK /\ LogOK /\ AnswerOK /\ TypeInv
      /\ PollQueued(executor, HasFinished) /\ answer = NoAnswer
  <2>1. answer = NoAnswer
    BY DEF takeTask
  <2> QED BY <2>1, TypeParts, BetweenPolls DEF StructInv, TypeInv
<1>1. PICK slot \in Runnable(executor) :
        LET task == Task(executor, slot)
            ex   == Dequeue(executor, slot)
        IN  \/ task = Poll /\ pollForMessage(ex) /\ UNCHANGED phase
            \/ /\ task.do = "setStopTime" /\ applyStopTime(ex, task.stop)
               /\ UNCHANGED phase
            \/ task = Halt /\ applyForceStop(ex) /\ UNCHANGED phase
            \/ /\ task = Exit
               /\ executor' = StopThread(ex)
               /\ UNCHANGED <<members, answer, HasFinished, phase, sent, next, asked,
                              finish, mark>>
  BY DEF takeTask
<1> DEFINE task == Task(executor, slot)
           ex == Dequeue(executor, slot)
<1>2. /\ ex \in Executors(Threads, Tasks) /\ task \in Tasks
      /\ task # Poll => PollQueued(ex, HasFinished)
  BY <1>0, TakeFacts
<1>a. ASSUME UNCHANGED <<answer, HasFinished, log>>
      PROVE  /\ AnswerOK' /\ OnePoll'
             /\ PollQueued(executor', HasFinished) => Unfinished'
  <2>1. AnswerOK' /\ OnePoll'
    BY <1>0, <1>a DEF AnswerOK, OnePoll
  <2>2. NoPollTask' <=> HasFinished
    BY <1>0, <1>a DEF NoPollTask
  <2> QED BY <2>1, <2>2 DEF Unfinished, PollQueued
<1>3. CASE task = Poll /\ pollForMessage(ex) /\ UNCHANGED phase
  BY <1>0, <1>3, PollStep
<1> HIDE DEF task, ex
<1>4. CASE task.do = "setStopTime" /\ applyStopTime(ex, task.stop) /\ UNCHANGED phase
  <2> DEFINE t == task.stop
  <2>1. t \in StopTimes /\ task # Poll
    BY <1>2, <1>4, TaskFacts
  <2>2. t \in Int /\ t \in AllStops
    BY <2>1, PartitionAssumption DEF AllStops
  <2> HIDE DEF t
  <2>3. /\ StopTime' = t /\ tester' = SetTesterStop(tester, t)
        /\ filters' = StopForFilters(t) /\ asked' = t /\ executor' = ex
        /\ UNCHANGED <<live, CurrentOffset, metrics, answer, HasFinished, sent, next, finish,
                       mark>>
    BY <1>4 DEF applyStopTime, t
  <2>4. tester' \in TesterType /\ tester'.StopTime = t
    BY <1>0, <2>2, <2>3, TesterFacts DEF MembersOK
  <2>5. \A w \in Writers :
          Typed(w)' /\ FilterOK(w)' /\ (w \in live => filters'[w].Stop = t)
    BY <1>0, <2>1, <2>3, StopOne DEF StructInv
  <2>6. filters' \in [Writers -> FilterSet]
    <3>1. \A w \in Writers : filters'[w] \in FilterSet
      BY <2>5 DEF Typed
    <3>2. filters' = [w \in Writers |-> filters'[w]]
      BY <2>3 DEF StopForFilters
    <3> QED BY <3>1, <3>2
  <2>7. MembersOK' /\ OthersOK' /\ LogOK'
    BY <1>0, <1>4, <2>2, <2>3, <2>4, <2>6 DEF MembersOK, OthersOK, LogOK, outside
  <2>8. StopTimesAgree'
    BY <1>0, <2>3, <2>4, <2>5 DEF StopTimesAgree, MembersOK
  <2>9. executor' \in Executors(Threads, Tasks) /\ Unfinished' /\ OnePoll' /\ AnswerOK'
    BY <1>2, <1>a, <2>1, <2>3 DEF outside
  <2> QED BY <2>5, <2>7, <2>8, <2>9 DEF StructInv, TypeInv
<1>5. CASE task = Halt /\ applyForceStop(ex) /\ UNCHANGED phase
  <2>1. /\ tester' = ForceStop(tester) /\ executor' = ex
        /\ UNCHANGED <<filters, live, StopTime, CurrentOffset, metrics, answer, HasFinished,
                       sent, next, asked, finish, mark>>
    BY <1>5 DEF applyForceStop
  <2>2. tester' \in TesterType /\ tester'.StopTime = tester.StopTime
    BY <1>0, <2>1, TesterFacts DEF MembersOK
  <2>3. MembersOK' /\ OthersOK' /\ LogOK'
    BY <1>0, <1>5, <2>1, <2>2 DEF MembersOK, OthersOK, LogOK, outside
  <2>4. StopTimesAgree'
    BY <2>1, <2>2 DEF StructInv, StopTimesAgree
  <2>5. executor' \in Executors(Threads, Tasks) /\ Unfinished' /\ OnePoll' /\ AnswerOK'
    BY <1>2, <1>5, <1>a, <2>1, TaskFacts DEF outside
  <2>6. \A w \in Writers : FilterOK(w)'
    BY <2>1 DEF StructInv, FilterOK
  <2> QED BY <2>3, <2>4, <2>5, <2>6 DEF StructInv, TypeInv
<1>6. CASE /\ task = Exit /\ executor' = StopThread(ex)
           /\ UNCHANGED <<members, answer, HasFinished, phase, sent, next, asked, finish,
                          mark>>
  <2>1. /\ executor' \in Executors(Threads, Tasks)
        /\ executor'.high = ex.high /\ executor'.low = ex.low
    BY <1>2, <1>6 DEF StopThread, Executors
  <2>2. Unfinished' /\ OnePoll' /\ AnswerOK'
    BY <1>2, <1>6, <1>a, <2>1, TaskFacts DEF PollQueued, outside
  <2>3. MembersOK' /\ OthersOK' /\ LogOK'
    BY <1>0, <1>6 DEF MembersOK, OthersOK, LogOK, outside, members
  <2>4. StopTimesAgree'
    BY <1>6 DEF StructInv, StopTimesAgree, members
  <2>5. \A w \in Writers : FilterOK(w)'
    BY <1>6 DEF StructInv, FilterOK, members
  <2> QED BY <2>1, <2>2, <2>3, <2>4, <2>5 DEF StructInv, TypeInv
<1> QED BY <1>1, <1>3, <1>4, <1>5, <1>6 DEF task, ex

\* The worker thread.
LEMMA WorkStep == StructInv /\ Work => StructInv'
BY TaskStep, AnswerStep DEF Work

\* The destructor: it stops the thread, and then the filters go.
LEMMA DestroyStep == StructInv /\ Destroy => StructInv'
<1> SUFFICES ASSUME StructInv, Destroy PROVE StructInv'
  OBVIOUS
<1>0. /\ MembersOK /\ OthersOK /\ LogOK /\ AnswerOK
      /\ executor \in Executors(Threads, Tasks)
  BY DEF StructInv, TypeInv
<1>u. UNCHANGED <<StopTime, tester, CurrentOffset, metrics, answer, HasFinished, next, log,
                  now, paused, stopping, calls, asked, finish, mark>>
  BY DEF Destroy, outside
<1>1. CASE /\ phase' = "joining" /\ executor' = sendWork(executor, "topic", Exit)
           /\ UNCHANGED <<filters, live, sent>>
  <2>1. "topic" \in Threads /\ Exit \in Tasks /\ Exit # Poll
    BY TaskFacts DEF Threads
  <2>2. stopping' \in {"no", "half", "done"} /\ calls' \in 0..MaxCalls
    BY <1>0, <1>u DEF OthersOK
  <2>3. UNCHANGED members
    BY <1>1, <1>u DEF members
  <2> QED BY <1>1, <1>u, <2>1, <2>2, <2>3, SendStep
<1>2. CASE /\ phase' = "destroyed" /\ UNCHANGED executor /\ live' = {}
           /\ filters' = [w \in Writers |->
                            IF w \in live THEN AfterFlush(filters[w]) ELSE filters[w]]
           /\ sent' = [w \in Writers |->
                         IF w \in live THEN sent[w] \o BufferedSeq(filters[w])
                         ELSE sent[w]]
  <2>1. ASSUME NEW w \in Writers PROVE Typed(w)' /\ FilterOK(w)'
    <3>1. Typed(w) /\ FilterOK(w)
      BY <1>0 DEF MembersOK, OthersOK, Typed, StructInv
    <3>2. CASE w \in live
      BY <1>2, <3>1, <3>2, FlushOne
    <3>3. CASE w \notin live
      BY <1>2, <3>1, <3>3 DEF Typed, FilterOK
    <3> QED BY <3>2, <3>3
  <2>2. \A w \in Writers : filters'[w] \in FilterSet /\ sent'[w] \in Seq(KafkaMessages)
    BY <2>1 DEF Typed
  <2>3. /\ filters' = [w \in Writers |-> filters'[w]]
        /\ sent' = [w \in Writers |-> sent'[w]]
    BY <1>2
  <2>4. filters' \in [Writers -> FilterSet] /\ sent' \in [Writers -> Seq(KafkaMessages)]
    BY <2>2, <2>3
  <2>5. MembersOK' /\ OthersOK' /\ LogOK'
    BY <1>0, <1>2, <1>u, <2>4 DEF MembersOK, OthersOK, LogOK
  <2>6. StopTimesAgree'
    BY <1>2, <1>u DEF StructInv, StopTimesAgree
  <2>7. executor' \in Executors(Threads, Tasks) /\ Unfinished' /\ OnePoll' /\ AnswerOK'
    BY <1>0, <1>2, <1>u DEF StructInv, Unfinished, NoPollTask, OnePoll, AnswerOK
  <2> QED BY <2>1, <2>5, <2>6, <2>7 DEF StructInv, TypeInv
<1> QED BY <1>1, <1>2 DEF Destroy

\* A message the broker appends is one of KafkaMessages.
LEMMA ProduceFacts ==
  ASSUME TypeInv, Produce
  PROVE  \E m \in KafkaMessages :
           log' = Append(log, m) /\ \E k \in Kinds : m.kafkaTime = k.kafkaTime
<1> DEFINE last == IF log = << >> THEN -1 ELSE log[Len(log)].offset
<1>0. log \in Seq(KafkaMessages) /\ now \in Nat
  BY PartitionAssumption DEF TypeInv, LogOK
<1>1. last \in Int /\ last >= -1
  <2>1. CASE log = << >>
    BY <2>1
  <2>2. CASE log # << >>
    <3>1. log[Len(log)] \in KafkaMessages
      BY <1>0, <2>2, EmptySeq
    <3>2. log[Len(log)].offset \in Nat
      BY <3>1, MessageFacts
    <3> QED BY <2>2, <3>2
  <2> QED BY <2>1, <2>2
<1>2. PICK k \in Kinds :
        log' = Append(log, [id |-> Len(log) + 1, src |-> k.src, ts |-> k.ts,
                            valid |-> k.valid, kafkaTime |-> k.kafkaTime,
                            offset |-> last + 1 + k.skip])
  BY DEF Produce
<1>3. /\ k.src \in Sources /\ k.ts \in TimeStamps /\ k.valid \in BOOLEAN
      /\ k.kafkaTime \in Int /\ k.skip \in Nat
  <2>1. k \in [src : Sources, ts : TimeStamps, valid : BOOLEAN, kafkaTime : Int,
               skip : Nat]
    BY PartitionAssumption
  <2> QED BY <2>1
<1> HIDE DEF last
<1>4. last + 1 + k.skip \in Nat /\ Len(log) + 1 \in Nat
  BY <1>0, <1>1, <1>3
<1> DEFINE m == [id |-> Len(log) + 1, src |-> k.src, ts |-> k.ts, valid |-> k.valid,
                 kafkaTime |-> k.kafkaTime, offset |-> last + 1 + k.skip]
<1>5. m \in KafkaMessages /\ m.kafkaTime = k.kafkaTime
  BY <1>0, <1>3, <1>4 DEF KafkaMessages
<1> QED BY <1>2, <1>5

\* Kafka, the clock and the throttling of the writer.
LEMMA EnvironmentStep == StructInv /\ (Produce \/ Tick \/ Pause) => StructInv'
<1> SUFFICES ASSUME StructInv, Produce \/ Tick \/ Pause PROVE StructInv'
  OBVIOUS
<1>0. /\ MembersOK /\ OthersOK /\ LogOK /\ AnswerOK
      /\ executor \in Executors(Threads, Tasks) /\ TypeInv /\ MaxTime \in Nat
  BY PartitionAssumption DEF StructInv, TypeInv
<1>1. UNCHANGED <<filters, live, StopTime, CurrentOffset, metrics, answer, HasFinished,
                  executor, phase, sent, next, stopping, calls, asked, mark>>
  BY DEF Produce, Tick, Pause, members
<1>2. LogOK' /\ tester' \in TesterType /\ tester'.StopTime = tester.StopTime
      /\ paused' \in BOOLEAN
  <2>1. CASE Produce
    <3>1. PICK m \in KafkaMessages : log' = Append(log, m)
      BY <1>0, <2>1, ProduceFacts
    <3>2. log' \in Seq(KafkaMessages) /\ Len(log') = Len(log) + 1
      BY <1>0, <3>1 DEF LogOK
    <3>3. LogOK'
      BY <1>0, <1>1, <2>1, <3>2 DEF LogOK, Produce
    <3> QED BY <1>0, <2>1, <3>3 DEF Produce, MembersOK, OthersOK, members
  <2>2. CASE Tick
    <3>1. tester' = Older(tester) /\ tester \in TesterType
      BY <1>0, <2>2 DEF Tick, MembersOK
    <3>2. tester' \in TesterType /\ tester'.StopTime = tester.StopTime
      BY <3>1, TesterFacts
    <3>3. now' \in 0..MaxTime
      BY <1>0, <2>2 DEF Tick, LogOK
    <3> QED BY <1>0, <1>1, <2>2, <3>2, <3>3 DEF Tick, LogOK, OthersOK
  <2>3. CASE Pause
    <3>1. paused' \in BOOLEAN
      BY <2>3, PartitionAssumption DEF Pause
    <3> QED BY <1>0, <1>1, <2>3, <3>1 DEF Pause, LogOK, MembersOK, members
  <2> QED BY <2>1, <2>2, <2>3
<1>3. MembersOK' /\ OthersOK'
  BY <1>0, <1>1, <1>2 DEF MembersOK, OthersOK
<1>4. StopTimesAgree'
  BY <1>1, <1>2 DEF StructInv, StopTimesAgree
<1>5. (\A w \in Writers : FilterOK(w)') /\ Unfinished' /\ OnePoll'
  BY <1>1 DEF StructInv, FilterOK, Unfinished, NoPollTask, OnePoll
<1>6. AnswerOK'
  <2>1. Len(log) \in Nat /\ Len(log') \in Nat /\ Len(log) <= Len(log')
    <3>1. CASE Produce
      <4>1. PICK m \in KafkaMessages : log' = Append(log, m)
        BY <1>0, <3>1, ProduceFacts
      <4> QED BY <1>0, <4>1 DEF LogOK
    <3>2. CASE UNCHANGED log
      BY <1>0, <3>2 DEF LogOK
    <3> QED BY <3>1, <3>2 DEF Tick, Pause
  <2>2. \A n \in 0..Len(log) : n \in 0..Len(log')
    BY <2>1
  <2> QED BY <1>0, <1>1, <2>2 DEF AnswerOK
<1> QED BY <1>0, <1>1, <1>2, <1>3, <1>4, <1>5, <1>6 DEF StructInv, TypeInv

\* The induction step.
LEMMA StructNext == StructInv /\ [Next]_vars => StructInv'
<1> SUFFICES ASSUME StructInv, [Next]_vars PROVE StructInv'
  OBVIOUS
<1>0. OthersOK
  BY DEF StructInv, TypeInv
<1>1. CASE Work
  BY <1>1, WorkStep
<1>2. CASE setStopTime
  <2>1. PICK t \in StopTimes : executor' = sendWork(executor, "topic", NewStop(t))
    BY <1>2 DEF setStopTime
  <2>2. "topic" \in Threads /\ NewStop(t) \in Tasks /\ NewStop(t) # Poll
    BY TaskFacts DEF Threads
  <2>3. calls' \in 0..MaxCalls
    BY <1>0, <1>2, PartitionAssumption DEF setStopTime, OthersOK
  <2>4. phase' \in {"running", "joining", "destroyed"}
        /\ stopping' \in {"no", "half", "done"}
    BY <1>0, <1>2 DEF setStopTime, OthersOK
  <2>5. UNCHANGED <<members, answer, HasFinished, sent, next, log, now, paused, asked, mark>>
    BY <1>2 DEF setStopTime
  <2> QED BY <2>1, <2>2, <2>3, <2>4, <2>5, SendStep
<1>3. CASE stop
  <2>1. \/ executor' = sendWork(executor, "main", Halt)
        \/ executor' = sendLowPriorityWork(executor, "main", Halt)
    BY <1>3 DEF stop
  <2>2. "main" \in Threads /\ Halt \in Tasks /\ Halt # Poll
    BY TaskFacts DEF Threads
  <2>3. /\ phase' \in {"running", "joining", "destroyed"}
        /\ stopping' \in {"no", "half", "done"} /\ calls' \in 0..MaxCalls
    BY <1>0, <1>3 DEF stop, OthersOK
  <2>4. UNCHANGED <<members, answer, HasFinished, sent, next, log, now, paused, asked, mark>>
    BY <1>3 DEF stop
  <2> QED BY <2>1, <2>2, <2>3, <2>4, SendStep
<1>4. CASE Destroy
  BY <1>4, DestroyStep
<1>5. CASE Produce \/ Tick \/ Pause
  BY <1>5, EnvironmentStep
<1>6. CASE UNCHANGED vars
  <2>1. UNCHANGED <<members, answer, HasFinished, executor, phase, sent, next, outside,
                    asked, mark>>
    BY <1>6 DEF vars
  <2>2. MembersOK' /\ OthersOK' /\ LogOK' /\ AnswerOK'
    BY <2>1 DEF StructInv, TypeInv, MembersOK, OthersOK, LogOK, AnswerOK, members, outside
  <2>3. StopTimesAgree'
    BY <2>1 DEF StructInv, StopTimesAgree, members
  <2>4. (\A w \in Writers : FilterOK(w)') /\ Unfinished' /\ OnePoll'
    BY <2>1 DEF StructInv, FilterOK, members, Unfinished, NoPollTask, OnePoll
  <2> QED BY <2>1, <2>2, <2>3, <2>4 DEF StructInv, TypeInv
<1> QED BY <1>1, <1>2, <1>3, <1>4, <1>5, <1>6 DEF Next

(* Between any two steps of its threads the partition holds together: types,
   one polling task, queued or running, until it has finished, and one stop
   time in Partition, PartitionFilter and the filters that are left. *)
THEOREM StructureCorrect == Spec => []StructureOK
<1>1. StructInv => StructureOK
  <2> SUFFICES ASSUME StructInv PROVE StructureOK
    OBVIOUS
  <2>1. TypeOK /\ StopTimesAgree /\ HasFinished \in BOOLEAN
    BY TypeParts DEF StructInv, TypeInv, OthersOK
  <2>n. (~HasFinished /\ answer = NoAnswer) = ~NoPollTask /\ NoPollTask \in BOOLEAN
    BY <2>1 DEF NoPollTask
  <2>2. executor \in Executors(Threads, Tasks) /\ PollQueued(executor, NoPollTask)
    BY DEF StructInv, TypeInv, Unfinished
  <2>3. CASE NoPollTask = TRUE
    <3>1. Queued(executor, Poll) = {}
      BY <2>2, <2>3, QueuedCount DEF PollQueued
    <3> QED BY <2>1, <2>n, <2>3, <3>1, FS_EmptySet DEF StructureOK, OnePollTask, One
  <2>4. CASE NoPollTask = FALSE
    <3>1. Cardinality(Queued(executor, Poll)) = 1
      BY <2>2, <2>4, QueuedCount DEF PollQueued
    <3> QED BY <2>1, <2>n, <2>4, <3>1 DEF StructureOK, OnePollTask, One
  <2> QED BY <2>n, <2>3, <2>4
<1> QED BY <1>1, StructInit, StructNext, PTL DEF Spec
-----------------------------------------------------------------------------
(* Steps that poll and steps that do not. *)

Polls ==
  /\ HasFinished = FALSE
  /\ \/ answer = NoAnswer /\ \E ex \in Executors(Threads, Tasks) : pollForMessage(ex)
     \/ shouldStopBasedOnPollStatus
  /\ UNCHANGED <<log, now, asked, StopTime>>

\* A step of any other kind: what it leaves alone.
Keeps ==
  /\ UNCHANGED <<next, answer, finish, HasFinished>>
  /\ answer # NoAnswer => tester'.ForceStop = tester.ForceStop
  /\ \A w \in live' : w \in live /\ filters'[w].Received = filters[w].Received
  /\ \/ UNCHANGED log
     \/ \E m \in KafkaMessages :
          log' = Append(log, m) /\ \E k \in Kinds : m.kafkaTime = k.kafkaTime
  /\ \/ UNCHANGED <<StopTime, asked>>
     \/ StopTime' \in StopTimes /\ asked' = StopTime'

\* Every step polls, before the partition has finished, or leaves alone what
\* polling uses.
LEMMA StepKinds == StructInv /\ [Next]_vars => Polls \/ Keeps
<1> SUFFICES ASSUME StructInv, [Next]_vars PROVE Polls \/ Keeps
  OBVIOUS
<1>0. TypeOK /\ MembersOK /\ OthersOK /\ LogOK /\ TypeInv
  BY TypeParts DEF StructInv, TypeInv
<1>s. ASSUME UNCHANGED <<members, answer, HasFinished, next, log, asked, finish>>
      PROVE  Keeps
  BY <1>s DEF Keeps, members
<1>a. CASE shouldStopBasedOnPollStatus /\ UNCHANGED outside
  <2>1. HasFinished = FALSE /\ UNCHANGED <<asked, StopTime>>
    BY <1>0, <1>a DEF shouldStopBasedOnPollStatus, StructInv, OnePoll, OthersOK
  <2> QED BY <1>a, <2>1 DEF Polls, outside
<1>1. CASE takeTask /\ UNCHANGED outside
  <2>a. answer = NoAnswer
    BY <1>1 DEF takeTask
  <2>1. PICK slot \in Runnable(executor) :
          LET task == Task(executor, slot)
              ex   == Dequeue(executor, slot)
          IN  \/ task = Poll /\ pollForMessage(ex) /\ UNCHANGED phase
              \/ /\ task.do = "setStopTime" /\ applyStopTime(ex, task.stop)
                 /\ UNCHANGED phase
              \/ task = Halt /\ applyForceStop(ex) /\ UNCHANGED phase
              \/ /\ task = Exit
                 /\ executor' = StopThread(ex)
                 /\ UNCHANGED <<members, answer, HasFinished, phase, sent, next, asked,
                                finish, mark>>
    BY <1>1 DEF takeTask
  <2> DEFINE task == Task(executor, slot)
             ex == Dequeue(executor, slot)
  <2>2. /\ ex \in Executors(Threads, Tasks) /\ task \in Tasks
        /\ task = Poll => ~HasFinished
    BY <1>0, <2>a, BetweenPolls, TakeFacts
  <2>o. UNCHANGED outside
    BY <1>1
  <2> HIDE DEF task, ex
  <2>3. CASE task = Poll /\ pollForMessage(ex) /\ UNCHANGED phase
    <3>1. HasFinished = FALSE
      BY <1>0, <2>2, <2>3 DEF OthersOK
    <3>2. UNCHANGED <<StopTime, asked>>
      BY <2>3 DEF pollForMessage, pollStopped, pollPaused, pollNoMessage, pollMessage,
                  members
    <3> QED BY <2>a, <2>2, <2>3, <2>o, <3>1, <3>2 DEF Polls, outside
  <2>4. CASE task.do = "setStopTime" /\ applyStopTime(ex, task.stop)
    <3> DEFINE t == task.stop
    <3>1. t \in StopTimes
      BY <2>2, <2>4, TaskFacts
    <3> HIDE DEF t
    <3>2. /\ StopTime' = t /\ filters' = StopForFilters(t) /\ asked' = t
          /\ UNCHANGED <<live, answer, HasFinished, sent, next, finish>>
      BY <2>4 DEF applyStopTime, t
    <3>3. \A w \in live : w \in Writers /\ filters'[w].Received = filters[w].Received
      BY <1>0, <3>1, <3>2, StopOne DEF StructInv, MembersOK
    <3> QED BY <2>a, <2>o, <3>1, <3>2, <3>3 DEF Keeps, outside
  <2>5. CASE task = Halt /\ applyForceStop(ex)
    BY <2>a, <2>5, <2>o DEF Keeps, applyForceStop, outside
  <2>6. CASE UNCHANGED <<members, answer, HasFinished, phase, sent, next, asked, finish, mark>>
    BY <1>s, <2>6, <2>o DEF outside
  <2> QED BY <2>1, <2>3, <2>4, <2>5, <2>6 DEF task, ex
<1>2. CASE setStopTime \/ stop \/ Pause
  BY <1>s, <1>2 DEF setStopTime, stop, Pause
<1>3. CASE Destroy
  <2>1. /\ UNCHANGED <<StopTime, tester, answer, next, HasFinished, log, asked, finish>>
        /\ live' = {} \/ UNCHANGED <<filters, live>>
    BY <1>3 DEF Destroy, outside
  <2> QED BY <2>1 DEF Keeps
<1>4. CASE Produce
  <2>1. \E m \in KafkaMessages :
          log' = Append(log, m) /\ \E k \in Kinds : m.kafkaTime = k.kafkaTime
    BY <1>0, <1>4, ProduceFacts
  <2>2. UNCHANGED <<members, answer, HasFinished, next, asked, finish>>
    BY <1>4 DEF Produce
  <2> QED BY <2>1, <2>2 DEF Keeps, members
<1>5. CASE Tick
  <2>1. UNCHANGED <<filters, live, StopTime, answer, HasFinished, next, log, asked, finish>>
    BY <1>5 DEF Tick
  <2>2. tester'.ForceStop = tester.ForceStop
    BY <1>0, <1>5 DEF Tick, Older, MembersOK, TesterType
  <2> QED BY <2>1, <2>2 DEF Keeps
<1>6. CASE UNCHANGED vars
  BY <1>s, <1>6 DEF vars, outside
<1> QED BY <1>a, <1>1, <1>2, <1>3, <1>4, <1>5, <1>6 DEF Next, Work

-----------------------------------------------------------------------------
(* No message is lost on the way through the filters. *)

\* The messages of a filter's source among the first n.
SeenIn(messages, n, w) == {i \in 1..n : Takes(w, messages[i])}

\* One more message is one more for the filters that take it.
LEMMA SeenGrows ==
  ASSUME NEW messages, NEW n \in Nat, NEW w
  PROVE  Cardinality(SeenIn(messages, n + 1, w))
           = Cardinality(SeenIn(messages, n, w)) + One(Takes(w, messages[n + 1]))
<1> DEFINE old == SeenIn(messages, n, w)
           new == SeenIn(messages, n + 1, w)
<1>1. IsFiniteSet(old) /\ n + 1 \notin old
  <2>1. IsFiniteSet(1..n)
    BY FS_Interval
  <2>2. old \in SUBSET (1..n) /\ n + 1 \notin 1..n
    BY DEF SeenIn
  <2> QED BY <2>1, <2>2, FS_Subset
<1>2. 1..(n + 1) = (1..n) \union {n + 1}
  OBVIOUS
<1>3. Cardinality(old) \in Nat
  BY <1>1, FS_CardinalityType
<1>4. CASE Takes(w, messages[n + 1])
  <2>1. new = old \union {n + 1}
    BY <1>2, <1>4 DEF SeenIn
  <2>2. Cardinality(old \union {n + 1}) = Cardinality(old) + 1
    <3> HIDE DEF old
    <3> QED BY <1>1, FS_AddElement
  <2> QED BY <1>4, <2>1, <2>2 DEF One
<1>5. CASE ~Takes(w, messages[n + 1])
  <2>1. new = old
    BY <1>2, <1>5 DEF SeenIn
  <2> QED BY <1>3, <1>5, <2>1 DEF One
<1> QED BY <1>4, <1>5

\* FiltersSeeTheirSource in the terms of these proofs.
LEMMA SeenMeaning ==
  FiltersSeeTheirSource
    <=> \A w \in live : filters[w].Received = Cardinality(SeenIn(log, next - 1, w))
<1>1. \A w : {i \in 1..(next - 1) : log[i].valid /\ log[i].src = SourceOf[w]}
               = SeenIn(log, next - 1, w)
  BY DEF SeenIn, Takes
<1> QED BY <1>1 DEF FiltersSeeTheirSource

SeenInv ==
  \A w \in live : filters[w].Received = Cardinality(SeenIn(log, next - 1, w))

\* Each message that is read reaches the filters of its source; nothing else
\* changes what they have received.
LEMMA SeenNext == StructInv /\ SeenInv /\ [Next]_vars => SeenInv'
<1> SUFFICES ASSUME StructInv, SeenInv, [Next]_vars PROVE SeenInv'
  OBVIOUS
<1>0. /\ TypeOK /\ log \in Seq(KafkaMessages) /\ next \in 1..(Len(log) + 1)
      /\ live \subseteq Writers /\ Len(log) \in Nat
  BY TypeParts DEF StructInv, TypeInv, LogOK, MembersOK
<1>1. CASE Polls
  <2>1. UNCHANGED log
    BY <1>1 DEF Polls
  <2>2. CASE \E ex \in Executors(Threads, Tasks) : pollMessage(ex)
    <3>1. next <= Len(log) /\ next' = next + 1 /\ processMessage(log[next])
      BY <2>2 DEF pollMessage
    <3>2. log[next] \in KafkaMessages /\ next - 1 \in Nat /\ (next - 1) + 1 = next
          /\ next' - 1 = next
      BY <1>0, <3>1
    <3>3. ASSUME NEW w \in live'
          PROVE  filters'[w].Received = Cardinality(SeenIn(log, next, w))
      <4>1. w \in Writers
        BY <1>0, <3>1, <3>3 DEF processMessage
      <4>2. w \in live
            /\ filters'[w].Received = filters[w].Received + One(Takes(w, log[next]))
        BY <1>0, <3>1, <3>2, <3>3, <4>1, ProcessOne DEF StructInv
      <4>3. Cardinality(SeenIn(log, (next - 1) + 1, w))
              = Cardinality(SeenIn(log, next - 1, w)) + One(Takes(w, log[(next - 1) + 1]))
        BY <3>2, SeenGrows
      <4> QED BY <3>2, <4>2, <4>3 DEF SeenInv
    <3> QED BY <2>1, <3>2, <3>3 DEF SeenInv
  <2>3. CASE UNCHANGED <<filters, live, next>>
    BY <2>1, <2>3 DEF SeenInv
  <2> QED BY <1>1, <2>2, <2>3 DEF Polls, pollForMessage, pollStopped, pollPaused,
                                  pollNoMessage, shouldStopBasedOnPollStatus, members
<1>2. CASE Keeps
  <2>1. \A i \in 1..(next - 1) : log'[i] = log[i]
    BY <1>0, <1>2 DEF Keeps
  <2>2. \A w : SeenIn(log', next - 1, w) = SeenIn(log, next - 1, w)
    BY <2>1 DEF SeenIn
  <2> QED BY <1>2, <2>2 DEF Keeps, SeenInv
<1> QED BY <1>1, <1>2, StepKinds

(* No message is lost between the partition and the destinations of its
   filters: a filter that is left has received every valid message of its
   source that was read, and one that is gone, whichever order they go in,
   has passed on or counted as discarded all it received. *)
THEOREM NothingLostCorrect == Spec => []FiltersLoseNothing
<1>1. Init => SeenInv
  <2> SUFFICES ASSUME Init, NEW w \in live
               PROVE  filters[w].Received = Cardinality(SeenIn(log, next - 1, w))
    BY DEF SeenInv
  <2>1. next - 1 = 0 /\ 1..0 = {} /\ w \in Writers
    BY DEF Init
  <2>2. SeenIn(log, next - 1, w) = {}
    BY <2>1 DEF SeenIn
  <2>3. filters[w].Received = 0
    BY <2>1 DEF Init, NewFilter
  <2> QED BY <2>2, <2>3, FS_EmptySet
<1>2. StructInv /\ SeenInv => FiltersLoseNothing
  <2>1. StructInv => NothingLeftBehind
    BY DEF StructInv, NothingLeftBehind, FilterOK
  <2>2. SeenInv => FiltersSeeTheirSource
    BY SeenMeaning DEF SeenInv
  <2> QED BY <2>1, <2>2 DEF FiltersLoseNothing
<1> QED BY <1>1, <1>2, SeenNext, StructInit, StructNext, PTL DEF Spec

-----------------------------------------------------------------------------
(* When it finishes, and with what unread. *)

(* The clock, the Kafka timestamps and the stop times of setStopTime stay clear
   of time_point::max() by the leeway; the stop time of the constructor, which
   is often time_point::max() itself, need not. *)
Horizon ==
  /\ MaxTime + StopLeeway <= TimeMax
  /\ \A k \in Kinds : k.kafkaTime + StopLeeway <= TimeMax
  /\ \A t \in InitialStops : t <= TimeMax
  /\ \A t \in StopTimes : t + StopLeeway <= TimeMax

\* The stop time in use is the one asked for, or one the constructor reduced.
StopKept ==
  \/ StopTime = asked /\ asked + StopLeeway <= TimeMax
  \/ StopTime = asked - StopLeeway /\ TimeMax - asked <= StopLeeway /\ asked <= TimeMax

LogTimes == \A i \in 1..Len(log) : log[i].kafkaTime + StopLeeway <= TimeMax

\* Nothing was left to read when poll() reported the end of the partition, and
\* no task has run since that could have asked for a stop.
EndFound ==
  /\ answer.status = "EndOfPartition" => next > answer.seen
  /\ answer # NoAnswer => ~tester.ForceStop

FinishTimes ==
  /\ HasFinished = FALSE => finish.cause = "none"
  /\ finish.cause = "late" =>
       /\ next - 1 \in 1..Len(log) /\ finish.stop \in Int
       /\ log[next - 1].kafkaTime > finish.stop + StopLeeway
  /\ finish.cause \in {"EndOfPartition", "TimedOut"} =>
       finish.at > finish.stop + StopLeeway
  /\ finish.cause = "EndOfPartition" => next > finish.seen /\ finish.seen \in Nat

TimeInv == StopKept /\ LogTimes /\ EndFound /\ FinishTimes

\* Whatever is later than the deadline is later than the stop time asked for
\* and the leeway: the reduced deadline is never reached.
LEMMA DeadlinePassed ==
  ASSUME StructInv, StopKept, NEW t \in Int, t + StopLeeway <= TimeMax,
         t > Deadline(StopTime)
  PROVE  t > asked + StopLeeway
<1>1. asked \in Int /\ StopLeeway \in Nat /\ TimeMax \in Nat
  <2>1. \A x \in AllStops : x \in Int
    BY PartitionAssumption DEF AllStops
  <2> QED BY <2>1, PartitionFilterAssumption DEF StructInv, TypeInv, OthersOK
<1>2. CASE StopTime = asked /\ asked + StopLeeway <= TimeMax
  BY <1>1, <1>2 DEF Deadline, Wrapped
<1>3. CASE StopTime = asked - StopLeeway /\ TimeMax - asked <= StopLeeway /\ asked <= TimeMax
  <2>1. Deadline(StopTime) = asked
    BY <1>1, <1>3 DEF Deadline, Wrapped
  <2> QED BY <1>1, <1>3, <2>1
<1> QED BY <1>2, <1>3 DEF StopKept

\* What the inductive invariant says of a partition that has finished.
LEMMA TimesMean ==
  ASSUME StructInv, TimeInv
  PROVE  NotFinishedEarly /\ CompleteUpToStop
<1>0. /\ log \in Seq(KafkaMessages) /\ next \in 1..(Len(log) + 1) /\ Len(log) \in Nat
      /\ StopLeeway \in Nat /\ FinishTimes
  BY PartitionFilterAssumption DEF StructInv, TypeInv, LogOK, TimeInv
<1>1. NotFinishedEarly
  BY <1>0 DEF FinishTimes, NotFinishedEarly
<1>2. ASSUME NEW i \in next..Len(log), finish.cause = "EndOfPartition"
      PROVE  i > finish.seen
  BY <1>0, <1>2 DEF FinishTimes
<1>3. ASSUME NEW i \in next..Len(log), finish.cause = "late",
             ~(log[i].kafkaTime > finish.stop)
      PROVE  OutOfOrder(i)
  <2> DEFINE j == next - 1
  <2>1. /\ j \in 1..Len(log) /\ j \in 1..(next - 1) /\ finish.stop \in Int
        /\ log[j].kafkaTime > finish.stop + StopLeeway
    BY <1>0, <1>3 DEF FinishTimes
  <2>2. log[i] \in KafkaMessages /\ log[j] \in KafkaMessages
    BY <1>0, <2>1
  <2>3. log[i].kafkaTime \in Int /\ log[j].kafkaTime \in Int
    BY <2>2, MessageFacts
  <2>4. log[j].kafkaTime > log[i].kafkaTime + StopLeeway
    BY <1>0, <1>3, <2>1, <2>3
  <2> QED BY <2>1, <2>4 DEF OutOfOrder
<1> QED BY <1>1, <1>2, <1>3 DEF CompleteUpToStop

\* A poll that finishes for one of the three reasons finishes late enough, and
\* has read what it should.
LEMMA PollTimes ==
  ASSUME Horizon, StructInv, TimeInv, Polls
  PROVE  TimeInv'
<1>0. /\ log \in Seq(KafkaMessages) /\ next \in 1..(Len(log) + 1) /\ Len(log) \in Nat
      /\ now \in 0..MaxTime /\ asked \in Int /\ tester.StopTime = StopTime
      /\ StopLeeway \in Nat /\ AnswerOK /\ TimeMax \in Nat /\ MaxTime \in Nat
  <2>1. \A x \in AllStops : x \in Int
    BY PartitionAssumption DEF AllStops
  <2> QED BY <2>1, PartitionAssumption, PartitionFilterAssumption
          DEF StructInv, TypeInv, OthersOK, LogOK, StopTimesAgree
<1>1. HasFinished = FALSE /\ UNCHANGED <<log, now, asked, StopTime>>
  BY DEF Polls
<1>2. /\ StopKept' /\ LogTimes' /\ StopKept /\ LogTimes /\ finish.cause = "none"
      /\ EndFound
  BY <1>1 DEF TimeInv, StopKept, LogTimes, FinishTimes
<1>n. answer' = NoAnswer => EndFound'
  BY DEF EndFound, NoAnswer
<1>3. ASSUME UNCHANGED finish PROVE FinishTimes'
  BY <1>2, <1>3 DEF FinishTimes
<1>4. ASSUME NEW cause, Finish(cause),
             cause \in {"EndOfPartition", "TimedOut"} => now > asked + StopLeeway,
             cause = "EndOfPartition" => next' > answer.seen /\ answer.seen \in Nat,
             cause = "late" => /\ next' - 1 \in 1..Len(log)
                               /\ log[next' - 1].kafkaTime > asked + StopLeeway
      PROVE  FinishTimes'
  <2>1. /\ finish'.cause = cause /\ finish'.at = now /\ finish'.stop = asked
        /\ finish'.seen = answer.seen /\ HasFinished' = TRUE
    BY <1>4 DEF Finish
  <2> QED BY <1>0, <1>1, <1>4, <2>1 DEF FinishTimes
<1>5. CASE \E ex \in Executors(Threads, Tasks) :
             pollStopped(ex) \/ pollPaused(ex)
  <2>1. answer' = answer /\ next' = next
    BY <1>5 DEF pollStopped, pollPaused
  <2>2. FinishTimes'
    BY <1>3, <1>4, <1>5 DEF pollStopped, pollPaused, GoOn
  <2>3. tester' = tester
    BY <1>5 DEF pollStopped, pollPaused, members
  <2> QED BY <1>2, <2>1, <2>2, <2>3 DEF TimeInv, EndFound
<1>6. CASE \E ex \in Executors(Threads, Tasks) : pollNoMessage(ex)
  <2>1. PICK status \in {"EndOfPartition", "TimedOut", "Error"} :
          /\ status = "EndOfPartition" => next > Len(log)
          /\ answer' = [status |-> status, seen |-> Len(log)]
          /\ UNCHANGED <<next, finish, tester>> /\ ~tester.ForceStop
    BY <1>6 DEF pollNoMessage, members
  <2>2. EndFound'
    BY <2>1 DEF EndFound
  <2> QED BY <1>2, <1>3, <2>1, <2>2 DEF TimeInv
<1>7. CASE /\ answer = NoAnswer
           /\ \E ex \in Executors(Threads, Tasks) : pollMessage(ex)
  <2> DEFINE m == log[next]
  <2>1. /\ next <= Len(log) /\ next' = next + 1 /\ answer' = answer
        /\ UNCHANGED finish \/ Finish("filters") \/ (IsLate(m) /\ Finish("late"))
    BY <1>7 DEF pollMessage, GoOn
  <2>2. m.kafkaTime \in Int /\ m.kafkaTime + StopLeeway <= TimeMax
    <3>1. m \in KafkaMessages /\ next \in 1..Len(log)
      BY <1>0, <2>1
    <3> QED BY <1>2, <3>1, MessageFacts DEF LogTimes
  <2>3. next' - 1 = next /\ next \in 1..Len(log)
    BY <1>0, <2>1
  <2>4. IsLate(m) => m.kafkaTime > asked + StopLeeway
    <3> HIDE DEF m
    <3> QED BY <1>2, <2>2, DeadlinePassed DEF IsLate
  <2>5. FinishTimes'
    BY <1>3, <1>4, <2>1, <2>3, <2>4
  <2> QED BY <1>2, <1>7, <1>n, <2>1, <2>5 DEF TimeInv
<1>8. CASE shouldStopBasedOnPollStatus
  <2>1. /\ answer # NoAnswer /\ answer' = NoAnswer /\ next' = next
        /\ \/ ShouldStop(tester, answer.status, now) /\ Finish(answer.status)
           \/ UNCHANGED finish
    BY <1>8 DEF shouldStopBasedOnPollStatus, GoOn
  <2>2. /\ answer.seen \in Nat
        /\ answer.status \in Statuses
    BY <1>0, <2>1 DEF AnswerOK
  <2>3. CASE ShouldStop(tester, answer.status, now) /\ Finish(answer.status)
    <3>1. /\ now \in Int /\ now + StopLeeway <= TimeMax
          /\ answer.status \in {"EndOfPartition", "TimedOut"} => now > Deadline(StopTime)
      BY <1>0, <1>2, <2>1, <2>3 DEF ShouldStop, EndFound, Horizon
    <3>2. answer.status \in {"EndOfPartition", "TimedOut"} => now > asked + StopLeeway
      BY <1>2, <3>1, DeadlinePassed
    <3>3. FinishTimes'
      BY <1>2, <1>4, <2>1, <2>2, <2>3, <3>2 DEF EndFound, Statuses
    <3> QED BY <1>2, <1>n, <2>1, <3>3 DEF TimeInv
  <2>4. CASE UNCHANGED finish
    BY <1>2, <1>3, <1>n, <2>1, <2>4 DEF TimeInv
  <2> QED BY <2>1, <2>3, <2>4
<1> QED BY <1>5, <1>6, <1>7, <1>8 DEF Polls, pollForMessage

\* Steps that do not poll: messages are appended, and a partition that has
\* finished reads no more.
LEMMA KeepTimes ==
  ASSUME Horizon, StructInv, TimeInv, Keeps
  PROVE  TimeInv'
<1>0. log \in Seq(KafkaMessages) /\ Len(log) \in Nat /\ next \in 1..(Len(log) + 1)
  BY DEF StructInv, TypeInv, LogOK
<1>1. UNCHANGED <<next, answer, finish, HasFinished>>
  BY DEF Keeps
<1>2. StopKept'
  <2>1. CASE UNCHANGED <<StopTime, asked>>
    BY <2>1 DEF TimeInv, StopKept
  <2>2. CASE StopTime' \in StopTimes /\ asked' = StopTime'
    BY <2>2 DEF StopKept, Horizon
  <2> QED BY <2>1, <2>2 DEF Keeps
<1>3. EndFound'
  BY <1>1 DEF TimeInv, EndFound, Keeps
<1>4. LogTimes' /\ FinishTimes'
  <2>1. CASE UNCHANGED log
    BY <1>1, <2>1 DEF TimeInv, LogTimes, FinishTimes
  <2>2. CASE \E m \in KafkaMessages :
               log' = Append(log, m) /\ \E k \in Kinds : m.kafkaTime = k.kafkaTime
    <3>1. PICK m \in KafkaMessages :
            log' = Append(log, m) /\ m.kafkaTime + StopLeeway <= TimeMax
      BY <2>2 DEF Horizon
    <3>2. /\ Len(log') = Len(log) + 1 /\ log'[Len(log) + 1] = m
          /\ \A i \in 1..Len(log) : log'[i] = log[i] /\ i \in 1..Len(log')
      BY <1>0, <3>1
    <3>3. \A i \in 1..Len(log') : i \in 1..Len(log) \/ i = Len(log) + 1
      BY <1>0, <3>2
    <3>4. LogTimes'
      BY <3>1, <3>2, <3>3 DEF TimeInv, LogTimes
    <3>5. FinishTimes'
      BY <1>1, <3>2 DEF TimeInv, FinishTimes
    <3> QED BY <3>4, <3>5
  <2> QED BY <2>1, <2>2 DEF Keeps
<1> QED BY <1>2, <1>3, <1>4 DEF TimeInv

\* The induction for both theorems below.
LEMMA TimesCorrect == ASSUME Horizon PROVE Spec => [](StructInv /\ TimeInv)
<1>1. Init => TimeInv
  <2> SUFFICES ASSUME Init PROVE TimeInv
    OBVIOUS
  <2>1. PICK stopTime \in InitialStops :
          StopTime = ReducedStop(stopTime) /\ asked = stopTime
    BY DEF Init
  <2>2. stopTime \in Int /\ stopTime <= TimeMax /\ StopLeeway \in Nat /\ TimeMax \in Nat
    BY PartitionAssumption, PartitionFilterAssumption DEF Horizon
  <2>3. StopKept
    BY <2>1, <2>2 DEF StopKept, ReducedStop
  <2>4. LogTimes /\ EndFound
    BY DEF Init, LogTimes, EndFound, NoAnswer
  <2>5. finish.cause = "none"
    BY DEF Init, NotFinished
  <2> QED BY <2>3, <2>4, <2>5 DEF TimeInv, FinishTimes
<1>2. StructInv /\ TimeInv /\ [Next]_vars => TimeInv'
  BY StepKinds, PollTimes, KeepTimes
<1> QED BY <1>1, <1>2, StructInit, StructNext, PTL DEF Spec

(* A partition that nobody stopped and whose polls do not fail finishes only
   when the clock, or the Kafka timestamp of the message it read last, is past
   its stop time and the leeway, whatever timestamps the producers give, however
   long ago poll() returned, and although the constructor reduces stop times
   close to time_point::max() (Partition.cpp:25): under Horizon the reduced
   deadline is never reached. *)
THEOREM NotEarlyCorrect == ASSUME Horizon PROVE Spec => []NotFinishedEarly
<1>1. StructInv /\ TimeInv => NotFinishedEarly
  BY TimesMean
<1> QED BY <1>1, TimesCorrect, PTL

(* When it finishes at the end of the partition, all that had arrived when the
   end was found has been read; when it finishes at a late message, a message
   for the time up to the stop time is missed only if it is out of order by more
   than the leeway; and it stays so whatever arrives later. *)
THEOREM CompleteCorrect == ASSUME Horizon PROVE Spec => []CompleteUpToStop
<1>1. StructInv /\ TimeInv => CompleteUpToStop
  BY TimesMean
<1> QED BY <1>1, TimesCorrect, PTL
=============================================================================
