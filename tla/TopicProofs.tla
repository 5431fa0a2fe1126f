----------------------------- MODULE TopicProofs -----------------------------
(***************************************************************************)
(* Topic for any partitions, offsets, stop times and faults, and any       *)
(* interleaving of its executor with the owner's thread and the            *)
(* partitions: no partition is lost, all have the topic's stop time, the   *)
(* topic implements StreamContract, and offsets that are found skip        *)
(* nothing.                                                                *)
(***************************************************************************)
EXTENDS Topic, CommonLemmas

Owners == {"owner", "self"}
Pointers == Parts \union {Null}
Offsets == Nat \union {OffsetEnd}
Finds == [offset : Offsets, known : Nat]
OffsetLists == [1..Len(PartitionIDs) -> Finds]
Stops == InitialStops \union StopTimes
States == {"none", "running", "finished", "gone"}

Tasks ==
  {InitMetadata, Check, Exit} \union {GetPartitions(b) : b \in BOOLEAN}
    \union {GetOffsets(b) : b \in BOOLEAN} \union {CreateStreams(o) : o \in OffsetLists}
    \union {NewStop(t) : t \in StopTimes}

Places ==
  {Free} \union {Asking(what) : what \in {"getPartitions", "getOffsets"}}
    \union {Creating(o, i) : o \in OffsetLists, i \in 1..(Len(PartitionIDs) + 1)}
    \union {Erasing(left) : left \in Seq(Pointers)}

Members ==
  [HasError : BOOLEAN, IsDone : BOOLEAN, StopConsumeTime : Stops,
   CurrentMetadataTimeOut : MinMetadataTimeout..MaxMetadataTimeout]

Partitions ==
  [state : States, stop : Nat, told : BOOLEAN, held : BOOLEAN,
   found : Finds, position : Offsets]

\* TypeOK part by part, with the members it leaves out.
MembersOK ==
  /\ topic \in Members /\ ConsumerThreads \in Seq(Pointers)
  /\ executor \in Executors(Owners, Tasks) /\ busy \in Places

PartitionsOK == partition \in [Parts -> Partitions] /\ sent \in Nat

OutsideOK ==
  /\ phase \in {"running", "joining", "destroyed", "crashed"} /\ now \in 0..MaxTime
  /\ walk \in Seq(Pointers) /\ log \in [Parts -> Seq(Nat)]

TypeInv == MembersOK /\ PartitionsOK /\ OutsideOK

\* The parts imply TypeOK.
LEMMA TypeParts == TypeInv => TypeOK
BY DEF TypeInv, TypeOK, MembersOK, PartitionsOK, OutsideOK, Members, Pointers, Partitions,
       States, Stops, Offsets, Finds

-----------------------------------------------------------------------------
(* The constants, the tasks and the records. *)

\* Every partition is created in its turn.
LEMMA ListFacts ==
  /\ Len(PartitionIDs) \in Nat /\ DOMAIN PartitionIDs = 1..Len(PartitionIDs)
  /\ \A i \in 1..Len(PartitionIDs) : PartitionIDs[i] \in Parts
  /\ Null \notin Parts /\ OffsetEnd \in Int /\ OffsetEnd \notin Nat
  /\ \A t \in Stops : t \in Nat
<1>1. PartitionIDs \in Seq(Parts)
  BY TopicAssumption
<1>2. DOMAIN PartitionIDs = 1..Len(PartitionIDs) /\ Len(PartitionIDs) \in Nat
  BY <1>1
<1>3. \A i \in 1..Len(PartitionIDs) : PartitionIDs[i] \in Parts
  BY <1>2 DEF Parts, Range
<1> QED BY <1>2, <1>3, TopicAssumption DEF Stops

\* What each task is.
LEMMA TaskFacts ==
  /\ InitMetadata \in Tasks /\ Check \in Tasks /\ Exit \in Tasks
  /\ GetPartitions(TRUE) \in Tasks /\ GetPartitions(FALSE) \in Tasks
  /\ GetOffsets(TRUE) \in Tasks /\ GetOffsets(FALSE) \in Tasks
  /\ \A o \in OffsetLists : CreateStreams(o) \in Tasks /\ CreateStreams(o).do = "createStreams"
  /\ \A t \in StopTimes : NewStop(t) \in Tasks /\ NewStop(t).do = "setStopTime"
  /\ InitMetadata.do = "initMetadataCalls" /\ Check.do = "checkIfDone" /\ Exit.do = "exit"
  /\ \A b : GetPartitions(b).do = "getPartitions" /\ GetOffsets(b).do = "getOffsets"
  /\ \A task \in Tasks :
       /\ task.do = "createStreams" => task.offsets \in OffsetLists
       /\ task.do = "setStopTime" => task.stop \in StopTimes
<1>1. /\ GetPartitions(TRUE) \in Tasks /\ GetPartitions(FALSE) \in Tasks
      /\ GetOffsets(TRUE) \in Tasks /\ GetOffsets(FALSE) \in Tasks
  BY DEF Tasks
<1>2. \A o \in OffsetLists : CreateStreams(o) \in Tasks /\ CreateStreams(o).do = "createStreams"
  BY DEF Tasks, CreateStreams
<1>3. \A t \in StopTimes : NewStop(t) \in Tasks /\ NewStop(t).do = "setStopTime"
  BY DEF Tasks, NewStop
<1>4. \A b : GetPartitions(b).do = "getPartitions" /\ GetOffsets(b).do = "getOffsets"
  BY DEF GetPartitions, GetOffsets
<1>5. \A task \in Tasks :
        /\ task.do = "createStreams" => task.offsets \in OffsetLists
        /\ task.do = "setStopTime" => task.stop \in StopTimes
  BY DEF Tasks, InitMetadata, Check, Exit, GetPartitions, GetOffsets, CreateStreams, NewStop
<1> QED BY <1>1, <1>2, <1>3, <1>4, <1>5 DEF Tasks, InitMetadata, Check, Exit

\* Where the executor may be.
LEMMA PlaceFacts ==
  /\ Free \in Places /\ Free.do = "nothing"
  /\ \A what \in {"getPartitions", "getOffsets"} :
       Asking(what) \in Places /\ Asking(what).do = "asking"
  /\ \A o \in OffsetLists, i \in 1..(Len(PartitionIDs) + 1) :
       Creating(o, i) \in Places /\ Creating(o, i).do = "creating"
         /\ Creating(o, i).offsets = o /\ Creating(o, i).next = i
  /\ \A left \in Seq(Pointers) :
       Erasing(left) \in Places /\ Erasing(left).do = "erasing" /\ Erasing(left).left = left
  /\ \A b \in Places :
       /\ b.do = "nothing" => b = Free
       /\ b.do = "creating" => b.offsets \in OffsetLists /\ b.next \in 1..(Len(PartitionIDs) + 1)
       /\ b.do = "erasing" => b.left \in Seq(Pointers)
<1>1. \A b \in Places :
       /\ b.do = "nothing" => b = Free
       /\ b.do = "creating" => b.offsets \in OffsetLists /\ b.next \in 1..(Len(PartitionIDs) + 1)
       /\ b.do = "erasing" => b.left \in Seq(Pointers)
  BY DEF Places, Free, Asking, Creating, Erasing
<1>2. \A what \in {"getPartitions", "getOffsets"} :
        Asking(what) \in Places /\ Asking(what).do = "asking"
  BY DEF Places, Asking
<1>3. \A o \in OffsetLists, i \in 1..(Len(PartitionIDs) + 1) :
        Creating(o, i) \in Places /\ Creating(o, i).do = "creating"
          /\ Creating(o, i).offsets = o /\ Creating(o, i).next = i
  BY DEF Places, Creating
<1>4. \A left \in Seq(Pointers) :
        Erasing(left) \in Places /\ Erasing(left).do = "erasing" /\ Erasing(left).left = left
  BY DEF Places, Erasing
<1> QED BY <1>1, <1>2, <1>3, <1>4 DEF Places, Free

\* A vector has finitely many elements.
LEMMA FiniteRange ==
  ASSUME NEW D, NEW q \in Seq(D)
  PROVE  /\ IsFiniteSet(Range(q))
         /\ \A x : x \in Range(q) <=> Contains(q, x)
         /\ (q = << >>) <=> (\A x : ~Contains(q, x))
<1>1. DOMAIN q = 1..Len(q) /\ Len(q) \in Nat
  OBVIOUS
<1>2. q \in Surjection(1..Len(q), Range(q))
  <2>1. q \in [1..Len(q) -> Range(q)]
    BY <1>1 DEF Range
  <2> QED BY <1>1, <2>1 DEF Surjection, Range
<1>3. IsFiniteSet(1..Len(q))
  BY <1>1, FS_Interval
<1>4. IsFiniteSet(Range(q))
  BY <1>2, <1>3, FS_Surjection
<1>5. \A x : x \in Range(q) <=> Contains(q, x)
  BY <1>1 DEF Range, Contains
<1>6. (q = << >>) <=> (\A x : ~Contains(q, x))
  <2>1. CASE q = << >>
    BY <2>1 DEF Contains
  <2>2. CASE q # << >>
    <3>1. 1 \in 1..Len(q)
      BY <1>1, <2>2, EmptySeq
    <3> QED BY <2>2, <3>1 DEF Contains
  <2> QED BY <2>1, <2>2
<1> QED BY <1>4, <1>5, <1>6

\* What the destructors of some partitions pass on to the writer thread.
LEMMA FlushFacts ==
  ASSUME TypeInv, NEW ps, IsFiniteSet(ps)
  PROVE  Flushed(ps) \in Nat /\ Flushed(ps) >= sent /\ (ps = {} => Flushed(ps) = sent)
<1> DEFINE h == {p \in ps : partition[p].held}
<1>1. Cardinality(h) \in Nat
  <2>1. h \in SUBSET ps
    OBVIOUS
  <2>2. IsFiniteSet(h)
    BY <2>1, FS_Subset
  <2> QED BY <2>2, FS_CardinalityType
<1>2. ps = {} => Cardinality(h) = 0
  BY FS_EmptySet
<1>3. sent \in Nat /\ Flushed(ps) = sent + Cardinality(h)
  BY DEF Flushed, TypeInv, PartitionsOK
<1> HIDE DEF h
<1> QED BY <1>1, <1>2, <1>3

\* And what it makes of the partitions.
LEMMA DestroyedFacts ==
  ASSUME TypeInv, NEW ps
  PROVE  /\ Destroyed(ps) \in [Parts -> Partitions]
         /\ \A p \in Parts :
              /\ Destroyed(ps)[p].state = IF p \in ps THEN "gone" ELSE partition[p].state
              /\ Destroyed(ps)[p].stop = partition[p].stop
              /\ Destroyed(ps)[p].found = partition[p].found
              /\ Destroyed(ps)[p].position = partition[p].position
<1>0. partition \in [Parts -> Partitions]
  BY DEF TypeInv, PartitionsOK
<1>1. ASSUME NEW r \in Partitions
      PROVE  LET n == [r EXCEPT !.state = "gone", !.held = FALSE]
             IN  n \in Partitions /\ n.state = "gone" /\ n.stop = r.stop
                 /\ n.found = r.found /\ n.position = r.position
  BY DEF Partitions, States
<1>2. \A p \in Parts : partition[p] \in Partitions
  BY <1>0
<1>3. \A p \in Parts :
        Destroyed(ps)[p] = IF p \in ps THEN [partition[p] EXCEPT !.state = "gone", !.held = FALSE]
                           ELSE partition[p]
  BY DEF Destroyed
<1>4. \A p \in Parts : Destroyed(ps)[p] \in Partitions
  BY <1>1, <1>2, <1>3
<1>5. Destroyed(ps) \in [Parts -> Partitions]
  <2>1. Destroyed(ps) = [p \in Parts |-> Destroyed(ps)[p]]
    BY DEF Destroyed
  <2> QED BY <1>4, <2>1
<1> QED BY <1>1, <1>2, <1>3, <1>5
-----------------------------------------------------------------------------
(* checkIfDone: what remove_if leaves, the partitions that stay, and those it
   overwrites. *)

Left == Kept(ConsumerThreads, NotFinished)
Shifted ==
  [i \in DOMAIN ConsumerThreads |->
     IF i <= Len(Left) THEN Left[i]
     ELSE IF hasFinished(ConsumerThreads[i]) THEN ConsumerThreads[i] ELSE Null]
Over == {p \in Range(ConsumerThreads) : ~Contains(Shifted, p)}

\* The partitions that stay were in the vector and are in what is left of it.
LEMMA CheckFacts ==
  ASSUME TypeInv
  PROVE  /\ Left \in Seq(Pointers) /\ Shifted \in Seq(Pointers) /\ IsFiniteSet(Over)
         /\ \A x : Contains(Left, x) => Contains(Shifted, x) /\ Contains(ConsumerThreads, x)
         /\ \A x : Contains(Shifted, x) => x = Null \/ Contains(ConsumerThreads, x)
         /\ \A x : Contains(ConsumerThreads, x) => Contains(Shifted, x) \/ x \in Over
         /\ ConsumerThreads = << >> => Left = << >> /\ Shifted = << >> /\ Over = {}
<1> DEFINE L == Len(ConsumerThreads)
           k == Len(Left)
<1>0. /\ ConsumerThreads \in Seq(Pointers) /\ L \in Nat /\ DOMAIN ConsumerThreads = 1..L
      /\ Null \in Pointers /\ \A i \in 1..L : ConsumerThreads[i] \in Pointers
  BY DEF TypeInv, MembersOK, Pointers
<1>1. Left \in Seq(Pointers) /\ HasThose(Left, L, ConsumerThreads, NotFinished)
  BY <1>0, KeptRange DEF Left
<1>2. k \in 0..L
  BY <1>0, KeptRange DEF Left
<1>3. \A i \in 1..k : Left[i] \in Pointers
  BY <1>1
<1>4. \A x : Contains(Left, x) <=> x \in NotFinished /\ Contains(ConsumerThreads, x)
  BY <1>1 DEF HasThose, Contains
<1> HIDE DEF L, k
<1>5. Shifted = [i \in 1..L |-> IF i <= k THEN Left[i]
                                ELSE IF hasFinished(ConsumerThreads[i]) THEN ConsumerThreads[i]
                                ELSE Null]
  BY <1>0 DEF Shifted, k
<1>6. \A i \in 1..L : Shifted[i] = IF i <= k THEN Left[i]
                                ELSE IF hasFinished(ConsumerThreads[i]) THEN ConsumerThreads[i]
                                ELSE Null
  BY <1>5
<1>7. \A i \in 1..L : i <= k <=> i \in 1..k
  BY <1>0, <1>2
<1>8. \A i \in 1..k : i \in 1..L
  BY <1>0, <1>2
<1>9. \A i \in 1..L : Shifted[i] \in Pointers
  BY <1>0, <1>3, <1>6, <1>7
<1>10. Shifted \in Seq(Pointers) /\ Len(Shifted) = L
  <2>1. Shifted \in [1..L -> Pointers]
    BY <1>5, <1>9
  <2> QED BY <1>0, <2>1
<1>11. ASSUME NEW x, Contains(Left, x) PROVE Contains(Shifted, x)
  <2>1. PICK i \in 1..k : Left[i] = x
    BY <1>11 DEF Contains, k
  <2>2. i \in 1..L /\ Shifted[i] = x
    BY <1>6, <1>7, <1>8, <2>1
  <2> QED BY <1>10, <2>2 DEF Contains
<1>12. ASSUME NEW x, Contains(Shifted, x) PROVE x = Null \/ Contains(ConsumerThreads, x)
  <2>1. PICK i \in 1..L : Shifted[i] = x
    BY <1>10, <1>12 DEF Contains
  <2>2. CASE i <= k
    <3>1. i \in 1..k /\ Left[i] = x
      BY <1>6, <1>7, <2>1, <2>2
    <3>2. Contains(Left, x)
      BY <3>1 DEF Contains, k
    <3> QED BY <1>4, <3>2
  <2>3. CASE ~(i <= k)
    <3>1. x = Null \/ ConsumerThreads[i] = x
      BY <1>6, <2>1, <2>3
    <3> QED BY <3>1 DEF Contains, L
  <2> QED BY <2>2, <2>3
<1>13. /\ IsFiniteSet(Range(ConsumerThreads))
       /\ \A x : x \in Range(ConsumerThreads) <=> Contains(ConsumerThreads, x)
       /\ ConsumerThreads = << >> => \A x : ~Contains(ConsumerThreads, x)
       /\ (\A x : ~Contains(Left, x)) => Left = << >>
  BY <1>0, <1>1, FiniteRange
<1>14. IsFiniteSet(Over)
  <2>1. Over \in SUBSET Range(ConsumerThreads)
    BY DEF Over
  <2> QED BY <1>13, <2>1, FS_Subset
<1>15. \A x : Contains(ConsumerThreads, x) => Contains(Shifted, x) \/ x \in Over
  BY <1>13 DEF Over
<1>16. ASSUME ConsumerThreads = << >> PROVE Left = << >> /\ Shifted = << >> /\ Over = {}
  <2>1. Left = << >>
    BY <1>4, <1>13, <1>16
  <2>2. L = 0
    BY <1>16 DEF L
  <2>3. Shifted = << >>
    BY <1>10, <2>2, EmptySeq
  <2>4. Over = {}
    BY <1>13, <1>16 DEF Over
  <2> QED BY <2>1, <2>3, <2>4
<1> QED BY <1>1, <1>4, <1>10, <1>11, <1>12, <1>14, <1>15, <1>16

\* The task is made of these.
LEMMA CheckSteps ==
  ASSUME NEW ex, beginCheckIfDone(ex)
  PROVE  /\ executor' = ex /\ ConsumerThreads' = Shifted /\ busy' = Erasing(Left)
         /\ partition' = Destroyed(Over) /\ sent' = Flushed(Over) /\ UNCHANGED topic
BY DEF beginCheckIfDone, Left, Shifted, Over

\* The task that is taken.
LEMMA TakenTask ==
  ASSUME TypeInv, NEW slot \in Runnable(executor)
  PROVE  /\ Dequeue(executor, slot) \in Executors(Owners, Tasks)
         /\ Task(executor, slot) \in Tasks
         /\ executor.RunThread /\ Dequeue(executor, slot).RunThread
<1>1. executor \in Executors(Owners, Tasks)
  BY DEF TypeInv, MembersOK
<1> QED BY <1>1, RunnableFacts

\* And one that is sent.
LEMMA SentTask ==
  ASSUME NEW ex \in Executors(Owners, Tasks), NEW t \in Owners, NEW task \in Tasks
  PROVE  /\ sendWork(ex, t, task) \in Executors(Owners, Tasks)
         /\ sendLowPriorityWork(ex, t, task) \in Executors(Owners, Tasks)
         /\ sendWork(ex, t, task).RunThread = ex.RunThread
         /\ sendLowPriorityWork(ex, t, task).RunThread = ex.RunThread
BY SendFacts

\* The members of the topic that the actions assign.
LEMMA MemberFacts ==
  ASSUME NEW m \in Members
  PROVE  /\ [m EXCEPT !.HasError = TRUE] \in Members
         /\ [m EXCEPT !.CurrentMetadataTimeOut = MinMetadataTimeout] \in Members
         /\ [m EXCEPT !.CurrentMetadataTimeOut = LongerTimeOut(@)] \in Members
         /\ \A b \in BOOLEAN : [m EXCEPT !.IsDone = b] \in Members
         /\ \A t \in Stops : [m EXCEPT !.StopConsumeTime = t] \in Members
<1>1. LongerTimeOut(m.CurrentMetadataTimeOut) \in MinMetadataTimeout..MaxMetadataTimeout
  BY TopicAssumption DEF Members, LongerTimeOut
<1>2. MinMetadataTimeout \in MinMetadataTimeout..MaxMetadataTimeout
  BY TopicAssumption
<1>3. ASSUME NEW v \in MinMetadataTimeout..MaxMetadataTimeout
      PROVE  [m EXCEPT !.CurrentMetadataTimeOut = v] \in Members
  BY DEF Members
<1>4. [m EXCEPT !.HasError = TRUE] \in Members
  BY DEF Members
<1>5. \A b \in BOOLEAN : [m EXCEPT !.IsDone = b] \in Members
  BY DEF Members
<1>6. \A t \in Stops : [m EXCEPT !.StopConsumeTime = t] \in Members
  BY DEF Members
<1> QED BY <1>1, <1>2, <1>3, <1>4, <1>5, <1>6
-----------------------------------------------------------------------------
(* Types. *)

\* The offset that offsetsForTimes finds is the first of a message in time.
LEMMA OffsetFacts ==
  ASSUME TypeInv, NEW p \in Parts
  PROVE  LET o == getOffsetForTime(p)
         IN  \/ /\ o = OffsetEnd
                /\ \A i \in 1..Len(log[p]) : ~(log[p][i] >= OffsetTime)
             \/ /\ o \in Nat /\ o < Len(log[p])
                /\ \A i \in 1..Len(log[p]) : log[p][i] >= OffsetTime => i > o
<1> DEFINE I == {i \in 1..Len(log[p]) : log[p][i] >= OffsetTime}
           first == IF I # {} THEN Min(I) ELSE 0
<1>0. log[p] \in Seq(Nat) /\ Len(log[p]) \in Nat
  BY DEF TypeInv, OutsideOK
<1>1. getOffsetForTime(p) = IF first = 0 THEN OffsetEnd ELSE first - 1
  BY DEF getOffsetForTime, SelectInSeq
<1>2. CASE I = {}
  BY <1>1, <1>2
<1>3. CASE I # {}
  <2>1. I \subseteq Nat
    BY <1>0
  <2>2. \E x \in I : \A y \in I : x <= y
    BY <1>3, <2>1, LeastNat
  <2> HIDE DEF I
  <2>3. Min(I) \in I /\ \A y \in I : Min(I) <= y
    BY <2>2 DEF Min
  <2>4. first = Min(I)
    BY <1>3
  <2> HIDE DEF first
  <2>5. first \in 1..Len(log[p])
    BY <2>3, <2>4 DEF I
  <2>6. \A i \in 1..Len(log[p]) : log[p][i] >= OffsetTime => first <= i
    BY <2>3, <2>4 DEF I
  <2>7. getOffsetForTime(p) = first - 1
    BY <1>0, <1>1, <2>5
  <2> QED BY <1>0, <2>5, <2>6, <2>7
<1> QED BY <1>2, <1>3

\* A list of such offsets.
LEMMA ListOfOffsets ==
  ASSUME TypeInv
  PROVE  [i \in DOMAIN PartitionIDs |-> Found(PartitionIDs[i])] \in OffsetLists
<1>1. ASSUME NEW i \in 1..Len(PartitionIDs)
      PROVE  Found(PartitionIDs[i]) \in Finds
  <2>1. PartitionIDs[i] \in Parts
    BY ListFacts
  <2>2. getOffsetForTime(PartitionIDs[i]) \in Offsets /\ Len(log[PartitionIDs[i]]) \in Nat
    BY <2>1, OffsetFacts DEF Offsets, TypeInv, OutsideOK
  <2> QED BY <2>2 DEF Found, Finds
<1> QED BY <1>1, ListFacts DEF OffsetLists

\* The state of one partition, as the actions change it.
Created(r, t, f) ==
  [r EXCEPT !.state = "running", !.stop = t, !.found = f, !.position = f.offset]
WithStop(r, t) == [r EXCEPT !.stop = t]
WithPosition(r, o) == [r EXCEPT !.position = o]
Told(r) == [r EXCEPT !.told = TRUE]
Holding(r) == [r EXCEPT !.held = TRUE]
Finished(r) == [r EXCEPT !.state = "finished"]

\* Its fields but told and held, which matter to no property here.
SameAs(n, r) ==
  n.state = r.state /\ n.stop = r.stop /\ n.found = r.found /\ n.position = r.position

\* The records that the actions assign.
LEMMA RecordFacts ==
  ASSUME NEW r \in Partitions, NEW t \in Nat, NEW o \in Offsets, NEW f \in Finds
  PROVE  /\ Created(r, t, f) \in Partitions /\ Created(r, t, f).state = "running"
         /\ Created(r, t, f).stop = t /\ Created(r, t, f).found = f
         /\ Created(r, t, f).position = f.offset
         /\ WithStop(r, t) \in Partitions /\ WithStop(r, t).stop = t
         /\ WithStop(r, t).state = r.state /\ WithStop(r, t).found = r.found
         /\ WithStop(r, t).position = r.position
         /\ WithPosition(r, o) \in Partitions /\ WithPosition(r, o).position = o
         /\ WithPosition(r, o).state = r.state /\ WithPosition(r, o).stop = r.stop
         /\ WithPosition(r, o).found = r.found
<1>1. /\ Created(r, t, f) \in Partitions /\ Created(r, t, f).state = "running"
      /\ Created(r, t, f).stop = t /\ Created(r, t, f).found = f
      /\ Created(r, t, f).position = f.offset
  <2>1. f.offset \in Offsets
    BY DEF Finds
  <2> QED BY <2>1 DEF Partitions, States, Created
<1>2. /\ WithStop(r, t) \in Partitions /\ WithStop(r, t).stop = t
      /\ WithStop(r, t).state = r.state /\ WithStop(r, t).found = r.found
      /\ WithStop(r, t).position = r.position
  BY DEF Partitions, WithStop
<1>3. /\ WithPosition(r, o) \in Partitions /\ WithPosition(r, o).position = o
      /\ WithPosition(r, o).state = r.state /\ WithPosition(r, o).stop = r.stop
      /\ WithPosition(r, o).found = r.found
  BY DEF Partitions, WithPosition
<1> QED BY <1>1, <1>2, <1>3

\* Those without a parameter.
LEMMA FlagFacts ==
  ASSUME NEW r \in Partitions
  PROVE  /\ Told(r) \in Partitions /\ SameAs(Told(r), r)
         /\ Holding(r) \in Partitions /\ SameAs(Holding(r), r)
         /\ Finished(r) \in Partitions /\ Finished(r).state = "finished"
         /\ Finished(r).stop = r.stop /\ Finished(r).found = r.found
         /\ Finished(r).position = r.position
<1>1. Told(r) \in Partitions /\ SameAs(Told(r), r)
  BY DEF Partitions, Told, SameAs
<1>2. Holding(r) \in Partitions /\ SameAs(Holding(r), r)
  BY DEF Partitions, Holding, SameAs
<1>3. /\ Finished(r) \in Partitions /\ Finished(r).state = "finished"
      /\ Finished(r).stop = r.stop /\ Finished(r).found = r.found
      /\ Finished(r).position = r.position
  BY DEF Partitions, States, Finished
<1> QED BY <1>1, <1>2, <1>3

Same(p) == SameAs(partition'[p], partition[p])

\* A partition is created.
LEMMA CreateFacts ==
  ASSUME TypeInv, createStream, busy.next <= Len(PartitionIDs)
  PROVE  /\ busy.next \in 1..Len(PartitionIDs) /\ busy.offsets \in OffsetLists
         /\ PartitionIDs[busy.next] \in Parts
         /\ partition' \in [Parts -> Partitions]
         /\ \A p \in Parts : p # PartitionIDs[busy.next] => Same(p)
         /\ LET n == partition'[PartitionIDs[busy.next]]
            IN  /\ n.state = "running" /\ n.stop = topic.StopConsumeTime
                /\ n.found = busy.offsets[busy.next]
                /\ n.position = busy.offsets[busy.next].offset
         /\ ConsumerThreads' = Append(ConsumerThreads, PartitionIDs[busy.next])
         /\ busy' = Creating(busy.offsets, busy.next + 1) /\ busy' \in Places
         /\ UNCHANGED <<topic, executor, sent, phase>>
<1> DEFINE p == PartitionIDs[busy.next]
           t == topic.StopConsumeTime
           o == busy.offsets[busy.next]
<1>0. busy \in Places /\ busy.do = "creating" /\ topic \in Members
      /\ partition \in [Parts -> Partitions]
  BY DEF TypeInv, MembersOK, PartitionsOK, createStream
<1>1. busy.offsets \in OffsetLists /\ busy.next \in 1..(Len(PartitionIDs) + 1)
  BY <1>0, PlaceFacts
<1>2. busy.next \in 1..Len(PartitionIDs) /\ busy.next + 1 \in 1..(Len(PartitionIDs) + 1)
  BY <1>1, ListFacts
<1>3. o \in Finds /\ t \in Nat /\ p \in Parts /\ partition[p] \in Partitions
  BY <1>0, <1>1, <1>2, ListFacts DEF OffsetLists, Members
<1>4. /\ partition' = [partition EXCEPT ![p] =
                         [@ EXCEPT !.state = "running", !.stop = t, !.found = o,
                                   !.position = o.offset]]
      /\ ConsumerThreads' = Append(ConsumerThreads, p)
      /\ busy' = Creating(busy.offsets, busy.next + 1)
      /\ UNCHANGED <<topic, executor, sent, phase>>
  BY DEF createStream, Stored
<1>5. busy' \in Places
  BY <1>1, <1>2, <1>4, PlaceFacts
<1> DEFINE n == Created(partition[p], t, o)
<1>6. n \in Partitions /\ n.state = "running" /\ n.stop = t /\ n.found = o
      /\ n.position = o.offset
  <2>1. OffsetEnd \in Offsets
    BY DEF Offsets
  <2> HIDE DEF p, t, o
  <2> QED BY <1>3, <2>1, RecordFacts
<1>7. partition' = [partition EXCEPT ![p] = n]
  BY <1>4 DEF Created
<1> HIDE DEF n, p, t, o
<1>8. partition' \in [Parts -> Partitions] /\ partition'[p] = n
      /\ \A r \in Parts : r # p => Same(r)
  BY <1>0, <1>3, <1>6, <1>7 DEF Same, SameAs
<1> QED BY <1>1, <1>2, <1>3, <1>4, <1>5, <1>6, <1>8 DEF p, t, o
\* The task of setStopTime.
LEMMA ApplyFacts ==
  ASSUME TypeInv, NEW ex, NEW t \in StopTimes, applyStopTime(ex, t)
  PROVE  /\ topic' \in Members /\ topic'.StopConsumeTime = t
         /\ topic'.HasError = topic.HasError /\ topic'.IsDone = topic.IsDone
         /\ partition' \in [Parts -> Partitions]
         /\ \A p \in Parts :
              /\ partition'[p].state = partition[p].state
              /\ partition'[p].found = partition[p].found
              /\ partition'[p].position = partition[p].position
              /\ Contains(ConsumerThreads, p) => partition'[p].stop = t
         /\ executor' = ex /\ UNCHANGED <<ConsumerThreads, busy, sent>>
<1>0. topic \in Members /\ partition \in [Parts -> Partitions] /\ t \in Stops /\ t \in Nat
  BY ListFacts DEF TypeInv, MembersOK, PartitionsOK, Stops
<1>1. topic' = [topic EXCEPT !.StopConsumeTime = t]
  BY DEF applyStopTime, WithStopTime
<1>2. /\ topic' \in Members /\ topic'.StopConsumeTime = t
      /\ topic'.HasError = topic.HasError /\ topic'.IsDone = topic.IsDone
  BY <1>0, <1>1 DEF Members
<1>3. partition' = [p \in Parts |-> IF Contains(ConsumerThreads, p) THEN WithStop(partition[p], t)
                                    ELSE partition[p]]
  BY DEF applyStopTime, WithStop
<1>4. OffsetEnd \in Offsets /\ [offset |-> OffsetEnd, known |-> 0] \in Finds
  BY DEF Offsets, Finds
<1>5. ASSUME NEW p \in Parts
      PROVE  /\ partition'[p] \in Partitions
             /\ partition'[p].state = partition[p].state
             /\ partition'[p].found = partition[p].found
             /\ partition'[p].position = partition[p].position
             /\ Contains(ConsumerThreads, p) => partition'[p].stop = t
  <2> DEFINE n == WithStop(partition[p], t)
  <2>1. /\ n \in Partitions /\ n.stop = t /\ n.state = partition[p].state
        /\ n.found = partition[p].found /\ n.position = partition[p].position
    BY <1>0, <1>4, RecordFacts
  <2>2. partition'[p] = IF Contains(ConsumerThreads, p) THEN n ELSE partition[p]
    BY <1>3
  <2> HIDE DEF n
  <2> QED BY <1>0, <2>1, <2>2
<1>6. partition' \in [Parts -> Partitions]
  <2>1. partition' = [p \in Parts |-> partition'[p]]
    BY <1>3
  <2> QED BY <1>5, <2>1
<1> QED BY <1>2, <1>5, <1>6 DEF applyStopTime

\* The end of stop(): only the flags of partitions change.
LEMMA EndStopFacts ==
  ASSUME TypeInv, endStop
  PROVE  /\ partition' \in [Parts -> Partitions] /\ \A p \in Parts : Same(p)
         /\ phase' \in {phase, "crashed"} /\ phase # "crashed"
         /\ walk' = NoWalk /\ UNCHANGED <<members, executor, sent, changes, log, now>>
<1>0. partition \in [Parts -> Partitions]
  BY DEF TypeInv, PartitionsOK
<1>1. CASE UNCHANGED partition
  BY <1>0, <1>1 DEF endStop, Same, SameAs, Alive
<1>2. CASE partition' = [p \in Parts |-> IF Contains(walk, p) THEN Told(partition[p])
                                         ELSE partition[p]]
  <2>1. ASSUME NEW p \in Parts PROVE partition'[p] \in Partitions /\ Same(p)
    <3> DEFINE n == Told(partition[p])
    <3>1. n \in Partitions /\ SameAs(n, partition[p])
      BY <1>0, FlagFacts
    <3>2. partition'[p] = IF Contains(walk, p) THEN n ELSE partition[p]
      BY <1>2
    <3>3. SameAs(partition[p], partition[p])
      BY DEF SameAs
    <3> HIDE DEF n
    <3> QED BY <1>0, <3>1, <3>2, <3>3 DEF Same
  <2>2. partition' \in [Parts -> Partitions]
    <3>1. partition' = [p \in Parts |-> partition'[p]]
      BY <1>2
    <3> QED BY <2>1, <3>1
  <2> QED BY <2>1, <2>2 DEF endStop, Alive
<1> QED BY <1>1, <1>2 DEF endStop, Told
\* The steps of a partition's own thread.
LEMMA AttachFacts ==
  ASSUME TypeInv, Attach
  PROVE  /\ partition' \in [Parts -> Partitions] /\ phase # "crashed"
         /\ \A p \in Parts :
              /\ partition'[p].state = partition[p].state
              /\ partition'[p].stop = partition[p].stop
              /\ partition'[p].found = partition[p].found
              /\ \/ partition'[p].position = partition[p].position
                 \/ partition[p].position = OffsetEnd /\ partition[p].state = "running"
         /\ UNCHANGED <<members, executor, sent, outside>>
<1>0. partition \in [Parts -> Partitions] /\ log \in [Parts -> Seq(Nat)]
  BY DEF TypeInv, PartitionsOK, OutsideOK
<1>1. PICK p \in Parts :
        /\ partition[p].state = "running" /\ partition[p].position = OffsetEnd
        /\ partition' = [partition EXCEPT ![p].position = Len(log[p])]
  BY DEF Attach
<1>2. Len(log[p]) \in Offsets
  BY <1>0 DEF Offsets
<1> DEFINE n == WithPosition(partition[p], Len(log[p]))
<1>3. /\ n \in Partitions /\ n.state = partition[p].state /\ n.stop = partition[p].stop
      /\ n.found = partition[p].found
  <2>1. 0 \in Nat /\ partition[p] \in Partitions
        /\ [offset |-> OffsetEnd, known |-> 0] \in Finds
    BY <1>0 DEF Finds, Offsets
  <2> QED BY <1>2, <2>1, RecordFacts
<1>4. partition' = [partition EXCEPT ![p] = n]
  BY <1>1 DEF WithPosition
<1> HIDE DEF n
<1> QED BY <1>0, <1>1, <1>3, <1>4 DEF Attach, Alive

\* A message is queued or kept back.
LEMMA ReadFacts ==
  ASSUME TypeInv, ReadMessage
  PROVE  /\ partition' \in [Parts -> Partitions] /\ \A p \in Parts : Same(p)
         /\ (sent' = sent \/ sent' = sent + 1) /\ phase # "crashed"
         /\ \E p \in Parts : partition[p].state = "running"
         /\ UNCHANGED <<members, executor, outside>>
<1>0. partition \in [Parts -> Partitions]
  BY DEF TypeInv, PartitionsOK
<1>1. PICK p \in Parts :
        /\ partition[p].state = "running"
        /\ \/ sent' = sent + 1 /\ UNCHANGED partition
           \/ partition' = [partition EXCEPT ![p].held = TRUE] /\ UNCHANGED sent
  BY DEF ReadMessage
<1>2. CASE sent' = sent + 1 /\ UNCHANGED partition
  BY <1>0, <1>1, <1>2 DEF ReadMessage, Same, SameAs, Alive
<1>3. CASE partition' = [partition EXCEPT ![p].held = TRUE] /\ UNCHANGED sent
  <2> DEFINE n == Holding(partition[p])
  <2>1. n \in Partitions /\ SameAs(n, partition[p])
    BY <1>0, FlagFacts
  <2>2. partition' = [partition EXCEPT ![p] = n]
    BY <1>3 DEF Holding
  <2> HIDE DEF n
  <2>3. partition' \in [Parts -> Partitions] /\ \A r \in Parts : Same(r)
    BY <1>0, <2>1, <2>2 DEF Same, SameAs
  <2> QED BY <1>1, <1>3, <2>3 DEF ReadMessage, Alive
<1> QED BY <1>1, <1>2, <1>3

\* A partition finishes.
LEMMA FinishFacts ==
  ASSUME TypeInv, NEW p \in Parts, Finish(p)
  PROVE  /\ partition' \in [Parts -> Partitions] /\ phase # "crashed"
         /\ partition[p].state = "running" /\ partition'[p].state = "finished"
         /\ \A r \in Parts : r # p => partition'[r].state = partition[r].state
         /\ \A r \in Parts :
              /\ partition'[r].stop = partition[r].stop
              /\ partition'[r].found = partition[r].found
              /\ partition'[r].position = partition[r].position
         /\ UNCHANGED <<members, executor, sent, outside>>
<1>0. partition \in [Parts -> Partitions]
  BY DEF TypeInv, PartitionsOK
<1> DEFINE n == Finished(partition[p])
<1>1. /\ n \in Partitions /\ n.state = "finished" /\ n.stop = partition[p].stop
      /\ n.found = partition[p].found /\ n.position = partition[p].position
  BY <1>0, FlagFacts
<1>2. partition' = [partition EXCEPT ![p] = n] /\ partition[p].state = "running"
  BY DEF Finish, Finished
<1> HIDE DEF n
<1>3. /\ partition' \in [Parts -> Partitions]
      /\ \A r \in Parts : r # p => partition'[r] = partition[r]
      /\ partition'[p] = n
  BY <1>0, <1>1, <1>2
<1> QED BY <1>1, <1>2, <1>3 DEF Finish, Alive

\* What goes with the vector, or with the end of it, when it is erased.
Erased == Range(ConsumerThreads) \ ({Null} \union Range(busy.left))
Rest == Range(ConsumerThreads) \ {Null}

\* They are finitely many.
LEMMA ErasedFacts ==
  ASSUME TypeInv
  PROVE  /\ IsFiniteSet(Erased) /\ IsFiniteSet(Rest)
         /\ ConsumerThreads = << >> => Erased = {} /\ Rest = {}
         /\ \A p \in Parts : Contains(ConsumerThreads, p) => p \in Rest
         /\ busy.do = "erasing" =>
              \A p \in Parts : Contains(ConsumerThreads, p) => p \in Erased \/ Contains(busy.left, p)
<1>1. ConsumerThreads \in Seq(Pointers) /\ busy \in Places
  BY DEF TypeInv, MembersOK
<1>2. /\ IsFiniteSet(Range(ConsumerThreads))
      /\ \A x : x \in Range(ConsumerThreads) <=> Contains(ConsumerThreads, x)
      /\ (ConsumerThreads = << >>) <=> (\A x : ~Contains(ConsumerThreads, x))
  BY <1>1, FiniteRange
<1>3. Erased \in SUBSET Range(ConsumerThreads) /\ Rest \in SUBSET Range(ConsumerThreads)
  BY DEF Erased, Rest
<1>4. IsFiniteSet(Erased) /\ IsFiniteSet(Rest)
  BY <1>2, <1>3, FS_Subset
<1>5. busy.do = "erasing" => \A x : x \in Range(busy.left) <=> Contains(busy.left, x)
  <2>1. busy.do = "erasing" => busy.left \in Seq(Pointers)
    BY <1>1, PlaceFacts
  <2> QED BY <2>1, FiniteRange
<1> QED BY <1>2, <1>4, <1>5, ListFacts DEF Erased, Rest

\* The rest of checkIfDone is made of these.
LEMMA EraseSteps ==
  ASSUME TypeInv, erase
  PROVE  /\ busy.do = "erasing" /\ busy.left \in Seq(Pointers)
         /\ partition' = Destroyed(Erased) /\ sent' = Flushed(Erased)
         /\ ConsumerThreads' = busy.left /\ busy' = Free
         /\ executor' = sendLowPriorityWork(executor, "self", Check)
         /\ topic' \in Members /\ topic'.HasError = topic.HasError
         /\ topic'.StopConsumeTime = topic.StopConsumeTime
         /\ topic'.IsDone = (topic.IsDone \/ busy.left = << >>)
         /\ UNCHANGED phase
<1>1. busy \in Places /\ topic \in Members /\ busy.do = "erasing"
  BY DEF TypeInv, MembersOK, erase
<1>2. busy.left \in Seq(Pointers)
  BY <1>1, PlaceFacts
<1> DEFINE d == topic.IsDone \/ busy.left = << >>
<1>3. topic' = [topic EXCEPT !.IsDone = d] /\ d \in BOOLEAN
  BY <1>1 DEF erase, AllGone, Members
<1> HIDE DEF d
<1>4. /\ topic' \in Members /\ topic'.HasError = topic.HasError
      /\ topic'.StopConsumeTime = topic.StopConsumeTime /\ topic'.IsDone = d
  BY <1>1, <1>3 DEF Members
<1> QED BY <1>1, <1>2, <1>4 DEF erase, Erased, d
\* A member that only the timeout of metadata calls is another of.
SameTopic ==
  /\ topic' \in Members /\ topic'.StopConsumeTime = topic.StopConsumeTime
  /\ topic'.HasError = topic.HasError /\ topic'.IsDone = topic.IsDone

\* An answer of the broker, or none.
LEMMA QueryFacts ==
  ASSUME TypeInv, NEW then, NEW again, queryAnswered(then) \/ queryFails(again)
  PROVE  \/ SameTopic /\ executor' = sendWork(executor, "self", then)
         \/ SameTopic /\ executor' = sendLowPriorityWork(executor, "self", again)
         \/ /\ topic' \in Members /\ topic'.StopConsumeTime = topic.StopConsumeTime
            /\ topic'.HasError /\ topic'.IsDone = topic.IsDone /\ UNCHANGED executor
<1>0. topic \in Members
  BY DEF TypeInv, MembersOK
<1>1. CASE queryAnswered(then)
  BY <1>0, <1>1 DEF queryAnswered, SameTopic
<1>2. CASE queryFails(again)
  <2>1. CASE topic' = [topic EXCEPT !.HasError = TRUE] /\ UNCHANGED executor
    BY <1>0, <2>1 DEF Members
  <2>2. CASE /\ topic' = [topic EXCEPT !.CurrentMetadataTimeOut = LongerTimeOut(@)]
             /\ executor' = sendLowPriorityWork(executor, "self", again)
    <3> DEFINE v == LongerTimeOut(topic.CurrentMetadataTimeOut)
    <3>1. topic' = [topic EXCEPT !.CurrentMetadataTimeOut = v]
      BY <2>2
    <3>2. topic' \in Members
      BY <1>0, <2>2, MemberFacts
    <3> HIDE DEF v
    <3>3. /\ topic'.StopConsumeTime = topic.StopConsumeTime
          /\ topic'.HasError = topic.HasError /\ topic'.IsDone = topic.IsDone
      BY <1>0, <3>1 DEF Members
    <3> QED BY <2>2, <3>2, <3>3 DEF SameTopic
  <2> QED BY <1>2, <2>1, <2>2 DEF queryFails
<1> QED BY <1>1, <1>2

\* A task that asks the broker or creates the partitions begins.
LEMMA BeginFacts ==
  ASSUME TypeInv, NEW ex
  PROVE  /\ \A task : beginQuery(ex, task) => SameTopic /\ busy' = Asking(task.do)
         /\ \A o : beginCreateStreams(ex, o) => SameTopic /\ busy' = Creating(o, 1)
<1>0. topic \in Members
  BY DEF TypeInv, MembersOK
<1> DEFINE m == [topic EXCEPT !.CurrentMetadataTimeOut = MinMetadataTimeout]
<1>1. m \in Members
  BY <1>0, MemberFacts
<1>2. /\ m.StopConsumeTime = topic.StopConsumeTime
      /\ m.HasError = topic.HasError /\ m.IsDone = topic.IsDone
  BY <1>0 DEF Members
<1>3. \A task : beginQuery(ex, task) => topic' \in {topic, m} /\ busy' = Asking(task.do)
  BY DEF beginQuery
<1>4. \A o : beginCreateStreams(ex, o) => topic' = m /\ busy' = Creating(o, 1)
  BY DEF beginCreateStreams
<1> HIDE DEF m
<1> QED BY <1>0, <1>1, <1>2, <1>3, <1>4 DEF SameTopic

\* The types hold at the beginning.
LEMMA TypeInit == Init => TypeInv
<1> SUFFICES ASSUME Init PROVE TypeInv
  OBVIOUS
<1>1. PICK t \in InitialStops :
        topic = [HasError |-> FALSE, IsDone |-> FALSE, StopConsumeTime |-> t,
                 CurrentMetadataTimeOut |-> MinMetadataTimeout]
  BY DEF Init
<1>2. topic \in Members
  BY <1>1, TopicAssumption DEF Members, Stops
<1>3. executor \in Executors(Owners, Tasks)
  <2>1. NewExecutor(Owners) \in Executors(Owners, Tasks)
    BY NewExecutorFacts
  <2>2. "owner" \in Owners /\ InitMetadata \in Tasks
    BY TaskFacts DEF Owners
  <2>3. executor = sendWork(NewExecutor(Owners), "owner", InitMetadata)
    BY DEF Init, Owners
  <2> QED BY <2>1, <2>2, <2>3, SentTask
<1>4. ConsumerThreads \in Seq(Pointers) /\ busy \in Places /\ walk \in Seq(Pointers)
  BY PlaceFacts DEF Init, NoWalk, Pointers
<1>5. NoPartition \in Partitions
  BY DEF NoPartition, Partitions, States, Offsets, Finds
<1>6. partition \in [Parts -> Partitions]
  BY <1>5 DEF Init
<1>7. log \in [Parts -> Seq(Nat)] /\ now \in 0..MaxTime
  BY TopicAssumption DEF Init
<1> QED BY <1>2, <1>3, <1>4, <1>6, <1>7 DEF Init, TypeInv, MembersOK, PartitionsOK, OutsideOK

\* A task of the executor leaves them.
LEMMA TypeTask ==
  ASSUME TypeInv, ExecutorTask
  PROVE  MembersOK' /\ PartitionsOK'
<1> USE DEF MembersOK, PartitionsOK
<1>0. /\ topic \in Members /\ ConsumerThreads \in Seq(Pointers)
      /\ busy \in Places /\ partition \in [Parts -> Partitions] /\ sent \in Nat
  BY DEF TypeInv
<1>1. PICK slot \in Runnable(executor) :
        LET task == Task(executor, slot)
            ex   == Dequeue(executor, slot)
        IN  \/ task = InitMetadata /\ initMetadataCalls(ex)
            \/ task.do \in {"getPartitions", "getOffsets"} /\ beginQuery(ex, task)
            \/ task.do = "createStreams" /\ beginCreateStreams(ex, task.offsets)
            \/ task = Check /\ beginCheckIfDone(ex)
            \/ task.do = "setStopTime" /\ applyStopTime(ex, task.stop)
            \/ task = Exit /\ runExit(ex)
  BY DEF ExecutorTask
<1> DEFINE task == Task(executor, slot)
           ex == Dequeue(executor, slot)
<1>2. task \in Tasks /\ ex \in Executors(Owners, Tasks)
  BY TakenTask
<1> HIDE DEF task, ex
<1>3. CASE initMetadataCalls(ex)
  <2>1. executor' \in Executors(Owners, Tasks)
    BY <1>2, <1>3, SentTask, TaskFacts DEF initMetadataCalls, Owners
  <2> QED BY <1>0, <1>3, <2>1 DEF initMetadataCalls, members
<1>4. CASE task.do \in {"getPartitions", "getOffsets"} /\ beginQuery(ex, task)
  <2>1. SameTopic /\ busy' = Asking(task.do)
    BY <1>4, BeginFacts
  <2>2. busy' \in Places
    BY <1>4, <2>1, PlaceFacts
  <2> QED BY <1>0, <1>2, <1>4, <2>1, <2>2 DEF beginQuery, SameTopic
<1>5. CASE task.do = "createStreams" /\ beginCreateStreams(ex, task.offsets)
  <2>1. SameTopic /\ busy' = Creating(task.offsets, 1)
    BY <1>5, BeginFacts
  <2>2. task.offsets \in OffsetLists /\ 1 \in 1..(Len(PartitionIDs) + 1)
    BY <1>2, <1>5, TaskFacts, ListFacts
  <2>3. busy' \in Places
    BY <2>1, <2>2, PlaceFacts
  <2> QED BY <1>0, <1>2, <1>5, <2>1, <2>3 DEF beginCreateStreams, SameTopic
<1>6. CASE beginCheckIfDone(ex)
  <2>1. /\ executor' = ex /\ ConsumerThreads' = Shifted /\ busy' = Erasing(Left)
        /\ partition' = Destroyed(Over) /\ sent' = Flushed(Over) /\ UNCHANGED topic
    BY <1>6, CheckSteps
  <2>2. Left \in Seq(Pointers) /\ Shifted \in Seq(Pointers) /\ IsFiniteSet(Over)
    BY CheckFacts
  <2>3. Flushed(Over) \in Nat
    BY <2>2, FlushFacts
  <2>4. Destroyed(Over) \in [Parts -> Partitions]
    BY DestroyedFacts
  <2>5. Erasing(Left) \in Places
    BY <2>2, PlaceFacts
  <2> QED BY <1>0, <1>2, <2>1, <2>2, <2>3, <2>4, <2>5
<1>7. CASE task.do = "setStopTime" /\ applyStopTime(ex, task.stop)
  <2>1. task.stop \in StopTimes
    BY <1>2, <1>7, TaskFacts
  <2>2. /\ topic' \in Members /\ partition' \in [Parts -> Partitions]
        /\ executor' = ex /\ UNCHANGED <<ConsumerThreads, busy, sent>>
    BY <1>7, <2>1, ApplyFacts
  <2> QED BY <1>0, <1>2, <2>2
<1>8. CASE runExit(ex)
  <2>1. StopThread(ex) \in Executors(Owners, Tasks)
    BY <1>2 DEF StopThread, Executors
  <2> QED BY <1>0, <1>8, <2>1 DEF runExit, members
<1> QED BY <1>1, <1>3, <1>4, <1>5, <1>6, <1>7, <1>8 DEF task, ex
\* Every step leaves the types.
LEMMA TypeNext == TypeInv /\ [Next]_vars => TypeInv'
<1> SUFFICES ASSUME TypeInv, [Next]_vars PROVE TypeInv'
  OBVIOUS
<1> USE DEF MembersOK, PartitionsOK, OutsideOK
<1>0. /\ topic \in Members /\ ConsumerThreads \in Seq(Pointers)
      /\ busy \in Places /\ partition \in [Parts -> Partitions] /\ sent \in Nat
      /\ executor \in Executors(Owners, Tasks)
      /\ phase \in {"running", "joining", "destroyed", "crashed"} /\ now \in 0..MaxTime
      /\ walk \in Seq(Pointers) /\ log \in [Parts -> Seq(Nat)]
  BY DEF TypeInv
<1>1. NoWalk \in Seq(Pointers) /\ "owner" \in Owners /\ "self" \in Owners
  BY DEF NoWalk, Pointers, Owners
<1>2. CASE Executor
  <2>0. OutsideOK'
    BY <1>0, <1>2 DEF Executor, ExecutorTask, getPartitionsForTopic, getOffsetsForPartitions,
                      createStream, createStreamThrows, erase
  <2>1. CASE ExecutorTask
    BY <2>0, <2>1, TypeTask DEF TypeInv
  <2>2. CASE getPartitionsForTopic \/ getOffsetsForPartitions
    <3>1. PICK then \in Tasks, again \in Tasks : queryAnswered(then) \/ queryFails(again)
      <4>1. CASE getPartitionsForTopic
        BY <4>1, TaskFacts DEF getPartitionsForTopic
      <4>2. CASE getOffsetsForPartitions
        BY <4>2, TaskFacts, ListOfOffsets DEF getOffsetsForPartitions
      <4> QED BY <2>2, <4>1, <4>2
    <3>2. topic' \in Members /\ executor' \in Executors(Owners, Tasks)
      <4>1. /\ sendWork(executor, "self", then) \in Executors(Owners, Tasks)
            /\ sendLowPriorityWork(executor, "self", again) \in Executors(Owners, Tasks)
        BY <1>0, <1>1, SentTask
      <4> QED BY <1>0, <3>1, <4>1, QueryFacts DEF SameTopic
    <3>3. busy' \in Places
      BY <2>2, PlaceFacts DEF getPartitionsForTopic, getOffsetsForPartitions
    <3> QED BY <1>0, <2>0, <2>2, <3>2, <3>3
            DEF TypeInv, getPartitionsForTopic, getOffsetsForPartitions
  <2>3. CASE createStream
    <3>1. CASE busy.next <= Len(PartitionIDs)
      <4>1. /\ PartitionIDs[busy.next] \in Pointers /\ partition' \in [Parts -> Partitions]
            /\ ConsumerThreads' = Append(ConsumerThreads, PartitionIDs[busy.next])
            /\ busy' \in Places /\ UNCHANGED <<topic, executor, sent, phase>>
        BY <2>3, <3>1, CreateFacts DEF Pointers
      <4>2. ConsumerThreads' \in Seq(Pointers)
        BY <1>0, <4>1
      <4> QED BY <1>0, <2>0, <4>1, <4>2 DEF TypeInv
    <3>2. CASE ~(busy.next <= Len(PartitionIDs))
      <4>1. sendLowPriorityWork(executor, "self", Check) \in Executors(Owners, Tasks)
        BY <1>0, <1>1, SentTask, TaskFacts
      <4> QED BY <1>0, <2>0, <2>3, <3>2, <4>1, PlaceFacts DEF TypeInv, createStream
    <3> QED BY <3>1, <3>2
  <2>4. CASE createStreamThrows
    BY <1>0, <2>0, <2>4 DEF TypeInv, createStreamThrows, members
  <2>5. CASE erase
    <3>1. /\ busy.left \in Seq(Pointers) /\ partition' = Destroyed(Erased)
          /\ sent' = Flushed(Erased) /\ ConsumerThreads' = busy.left /\ busy' = Free
          /\ executor' = sendLowPriorityWork(executor, "self", Check) /\ topic' \in Members
      BY <2>5, EraseSteps
    <3>2. executor' \in Executors(Owners, Tasks)
      BY <1>0, <1>1, <3>1, SentTask, TaskFacts
    <3>3. partition' \in [Parts -> Partitions] /\ sent' \in Nat
      BY <3>1, ErasedFacts, DestroyedFacts, FlushFacts
    <3> QED BY <2>0, <3>1, <3>2, <3>3, PlaceFacts DEF TypeInv
  <2> QED BY <1>2, <2>1, <2>2, <2>3, <2>4, <2>5 DEF Executor
<1>3. CASE setStopTime
  <2>1. executor' \in Executors(Owners, Tasks)
    BY <1>0, <1>1, <1>3, SentTask, TaskFacts DEF setStopTime
  <2> QED BY <1>0, <1>3, <2>1 DEF TypeInv, setStopTime, members
<1>4. CASE beginStop
  BY <1>0, <1>4 DEF TypeInv, beginStop, members
<1>5. CASE endStop
  BY <1>0, <1>1, <1>5, EndStopFacts DEF TypeInv, members
<1>6. CASE Destroy
  <2>0. OutsideOK' /\ topic' \in Members /\ busy' \in Places
    BY <1>0, <1>6 DEF Destroy
  <2>1. CASE executor' = sendWork(executor, "owner", Exit)
             /\ UNCHANGED <<ConsumerThreads, partition, sent>>
    <3>1. executor' \in Executors(Owners, Tasks)
      BY <1>0, <1>1, <2>1, SentTask, TaskFacts
    <3> QED BY <1>0, <2>0, <2>1, <3>1 DEF TypeInv
  <2>2. CASE /\ partition' = Destroyed(Rest) /\ sent' = Flushed(Rest)
             /\ ConsumerThreads' = << >> /\ UNCHANGED executor
    <3>1. partition' \in [Parts -> Partitions] /\ sent' \in Nat
      BY <2>2, ErasedFacts, DestroyedFacts, FlushFacts
    <3>2. ConsumerThreads' \in Seq(Pointers)
      BY <2>2
    <3> QED BY <1>0, <2>0, <2>2, <3>1, <3>2 DEF TypeInv
  <2> QED BY <1>6, <2>1, <2>2 DEF Destroy, Rest
<1>7. CASE Attach
  BY <1>0, <1>7, AttachFacts DEF TypeInv, members, outside
<1>8. CASE ReadMessage
  BY <1>0, <1>8, ReadFacts DEF TypeInv, members, outside
<1>9. CASE \E p \in Parts : Finish(p)
  BY <1>0, <1>9, FinishFacts DEF TypeInv, members, outside
<1>10. CASE Produce
  <2>1. PICK p \in Parts, t \in Stamps : log' = [log EXCEPT ![p] = Append(@, t)]
    BY <1>10 DEF Produce
  <2>2. log' \in [Parts -> Seq(Nat)]
    BY <1>0, <2>1, TopicAssumption
  <2> QED BY <1>0, <1>10, <2>2 DEF TypeInv, Produce, members
<1>11. CASE Tick
  <2>1. now' \in 0..MaxTime
    BY <1>0, <1>11, TopicAssumption DEF Tick
  <2> QED BY <1>0, <1>11, <2>1 DEF TypeInv, Tick, members
<1>12. CASE UNCHANGED vars
  BY <1>0, <1>12 DEF TypeInv, vars, members, outside
<1> QED BY <1>2, <1>3, <1>4, <1>5, <1>6, <1>7, <1>8, <1>9, <1>10, <1>11, <1>12 DEF Next
-----------------------------------------------------------------------------
(* The vector of partitions. *)

\* The executor has ended only when it was free, the destructor only after it.
Ended ==
  /\ ~executor.RunThread => busy = Free
  /\ phase = "destroyed" => ~executor.RunThread /\ ConsumerThreads = << >> /\ walk = NoWalk

\* What is to stay in the vector is in it while checkIfDone is under way.
StaysIn == busy.do = "erasing" =>
             \A x : Contains(busy.left, x) => Contains(ConsumerThreads, x)

SameStop ==
  \A p \in Parts : Contains(ConsumerThreads, p) => partition[p].stop = topic.StopConsumeTime

StructInv == Ended /\ StaysIn /\ NoPartitionIsLost /\ SameStop

\* SameStop is PartitionsStopTogether.
LEMMA SameStopFacts == TypeInv /\ SameStop => PartitionsStopTogether
<1> SUFFICES ASSUME TypeInv, SameStop, NEW i \in DOMAIN ConsumerThreads,
                    ConsumerThreads[i] # Null
             PROVE  partition[ConsumerThreads[i]].stop = topic.StopConsumeTime
  BY DEF PartitionsStopTogether
<1>1. i \in 1..Len(ConsumerThreads) /\ ConsumerThreads[i] \in Parts
  BY DEF TypeInv, MembersOK, Pointers
<1> QED BY <1>1 DEF SameStop, Contains

\* At the beginning there are no partitions.
LEMMA StructInit == Init => StructInv
<1> SUFFICES ASSUME Init PROVE StructInv
  OBVIOUS
<1>1. Ended
  BY DEF Init, Ended
<1>2. StaysIn
  BY PlaceFacts DEF Init, StaysIn
<1>3. \A p \in Parts : partition[p].state = "none"
  BY DEF Init, NoPartition
<1>4. \A x : ~Contains(ConsumerThreads, x)
  BY DEF Init, Contains
<1> QED BY <1>1, <1>2, <1>3, <1>4 DEF StructInv, NoPartitionIsLost, SameStop

\* A task of the executor leaves the vector sound.
LEMMA StructTask ==
  ASSUME TypeInv, StructInv, ExecutorTask, UNCHANGED walk
  PROVE  StructInv'
<1>0. /\ topic \in Members /\ ConsumerThreads \in Seq(Pointers)
      /\ busy = Free /\ busy.do = "nothing" /\ UNCHANGED phase
  BY PlaceFacts DEF TypeInv, MembersOK, ExecutorTask
<1>1. PICK slot \in Runnable(executor) :
        LET task == Task(executor, slot)
            ex   == Dequeue(executor, slot)
        IN  \/ task = InitMetadata /\ initMetadataCalls(ex)
            \/ task.do \in {"getPartitions", "getOffsets"} /\ beginQuery(ex, task)
            \/ task.do = "createStreams" /\ beginCreateStreams(ex, task.offsets)
            \/ task = Check /\ beginCheckIfDone(ex)
            \/ task.do = "setStopTime" /\ applyStopTime(ex, task.stop)
            \/ task = Exit /\ runExit(ex)
  BY DEF ExecutorTask
<1> DEFINE task == Task(executor, slot)
           ex == Dequeue(executor, slot)
<1>2. /\ task \in Tasks /\ ex \in Executors(Owners, Tasks)
      /\ executor.RunThread /\ ex.RunThread
  BY TakenTask
<1> HIDE DEF task, ex
<1>d. phase # "destroyed"
  BY <1>2 DEF StructInv, Ended
<1>3. CASE initMetadataCalls(ex)
  BY <1>0, <1>d, <1>3, <1>2
     DEF initMetadataCalls, StructInv, Ended, StaysIn, NoPartitionIsLost, SameStop, members
<1>4. CASE \/ task.do \in {"getPartitions", "getOffsets"} /\ beginQuery(ex, task)
           \/ task.do = "createStreams" /\ beginCreateStreams(ex, task.offsets)
  <2>1. topic'.StopConsumeTime = topic.StopConsumeTime
    BY <1>4, BeginFacts DEF SameTopic
  <2>2. busy'.do # "erasing"
    <3>1. CASE task.do \in {"getPartitions", "getOffsets"} /\ beginQuery(ex, task)
      BY <3>1, BeginFacts, PlaceFacts
    <3>2. CASE task.do = "createStreams" /\ beginCreateStreams(ex, task.offsets)
      <4>1. busy' = Creating(task.offsets, 1)
        BY <3>2, BeginFacts
      <4>2. task.offsets \in OffsetLists /\ 1 \in 1..(Len(PartitionIDs) + 1)
        BY <1>2, <3>2, TaskFacts, ListFacts
      <4> QED BY <4>1, <4>2, PlaceFacts
    <3> QED BY <1>4, <3>1, <3>2
  <2>3. executor' = ex /\ UNCHANGED <<ConsumerThreads, partition>>
    BY <1>4 DEF beginQuery, beginCreateStreams
  <2> QED BY <1>0, <1>2, <1>d, <2>1, <2>2, <2>3
          DEF StructInv, Ended, StaysIn, NoPartitionIsLost, SameStop
<1>5. CASE beginCheckIfDone(ex)
  <2>1. /\ executor' = ex /\ ConsumerThreads' = Shifted /\ busy' = Erasing(Left)
        /\ partition' = Destroyed(Over) /\ UNCHANGED topic
    BY <1>5, CheckSteps
  <2>2. /\ Left \in Seq(Pointers)
        /\ \A x : Contains(Left, x) => Contains(Shifted, x)
        /\ \A x : Contains(Shifted, x) => x = Null \/ Contains(ConsumerThreads, x)
        /\ \A x : Contains(ConsumerThreads, x) => Contains(Shifted, x) \/ x \in Over
    BY CheckFacts
  <2>3. \A p \in Parts :
          /\ Destroyed(Over)[p].state = IF p \in Over THEN "gone" ELSE partition[p].state
          /\ Destroyed(Over)[p].stop = partition[p].stop
    BY DestroyedFacts
  <2>4. StaysIn'
    BY <2>1, <2>2, PlaceFacts DEF StaysIn
  <2>5. NoPartitionIsLost'
    BY <2>1, <2>2, <2>3 DEF NoPartitionIsLost, StructInv
  <2>6. SameStop'
    BY <2>1, <2>2, <2>3, ListFacts DEF SameStop, StructInv
  <2> QED BY <1>0, <1>2, <1>d, <2>1, <2>4, <2>5, <2>6 DEF StructInv, Ended
<1>6. CASE task.do = "setStopTime" /\ applyStopTime(ex, task.stop)
  <2>1. task.stop \in StopTimes
    BY <1>2, <1>6, TaskFacts
  <2>2. /\ topic'.StopConsumeTime = task.stop
        /\ \A p \in Parts :
             /\ partition'[p].state = partition[p].state
             /\ Contains(ConsumerThreads, p) => partition'[p].stop = task.stop
        /\ executor' = ex /\ UNCHANGED <<ConsumerThreads, busy, sent>>
    BY <1>6, <2>1, ApplyFacts
  <2> QED BY <1>0, <1>2, <1>d, <2>2 DEF StructInv, Ended, StaysIn, NoPartitionIsLost, SameStop
<1>7. CASE runExit(ex)
  BY <1>0, <1>d, <1>7 DEF runExit, StructInv, Ended, StaysIn, NoPartitionIsLost, SameStop, members
<1> QED BY <1>1, <1>3, <1>4, <1>5, <1>6, <1>7 DEF task, ex
\* Every step leaves the vector sound.
LEMMA StructNext == TypeInv /\ StructInv /\ [Next]_vars => StructInv'
<1> SUFFICES ASSUME TypeInv, StructInv, [Next]_vars PROVE StructInv'
  OBVIOUS
<1>0. /\ topic \in Members /\ ConsumerThreads \in Seq(Pointers)
      /\ executor \in Executors(Owners, Tasks) /\ busy \in Places
      /\ partition \in [Parts -> Partitions]
  BY DEF TypeInv, MembersOK, PartitionsOK
<1>1. "owner" \in Owners /\ "self" \in Owners
  BY DEF Owners
<1>f. Free.do = "nothing" /\ \A x : ~Contains(<< >>, x)
  BY PlaceFacts DEF Contains
<1> USE DEF StructInv, Ended, StaysIn, NoPartitionIsLost, SameStop
<1>2. CASE Executor
  <2>0. UNCHANGED walk /\ phase # "crashed"
    BY <1>2 DEF Executor, Alive
  <2>1. CASE ExecutorTask
    BY <2>0, <2>1, StructTask
  <2>2. CASE getPartitionsForTopic \/ getOffsetsForPartitions
    <3>0. busy # Free /\ busy' = Free /\ UNCHANGED <<ConsumerThreads, partition, phase>>
      BY <2>2, PlaceFacts DEF getPartitionsForTopic, getOffsetsForPartitions
    <3>1. PICK then \in Tasks, again \in Tasks : queryAnswered(then) \/ queryFails(again)
      <4>1. CASE getPartitionsForTopic
        BY <4>1, TaskFacts DEF getPartitionsForTopic
      <4>2. CASE getOffsetsForPartitions
        BY <4>2, TaskFacts, ListOfOffsets DEF getOffsetsForPartitions
      <4> QED BY <2>2, <4>1, <4>2
    <3>2. topic'.StopConsumeTime = topic.StopConsumeTime
      BY <3>1, QueryFacts DEF SameTopic
    <3> QED BY <1>f, <2>0, <3>0, <3>2
  <2>3. CASE createStream
    <3>0. busy.do = "creating" /\ phase # "destroyed"
      BY <1>f, <2>3 DEF createStream
    <3>1. CASE busy.next <= Len(PartitionIDs)
      <4> DEFINE p == PartitionIDs[busy.next]
      <4>1. /\ p \in Parts /\ \A r \in Parts : r # p => Same(r)
            /\ partition'[p].state = "running" /\ partition'[p].stop = topic.StopConsumeTime
            /\ ConsumerThreads' = Append(ConsumerThreads, p)
            /\ UNCHANGED <<topic, executor, phase>>
            /\ busy' = Creating(busy.offsets, busy.next + 1)
            /\ busy.offsets \in OffsetLists /\ busy.next \in 1..Len(PartitionIDs)
        BY <2>3, <3>1, CreateFacts
      <4>2. busy'.do = "creating"
        <5>1. busy.next + 1 \in 1..(Len(PartitionIDs) + 1)
          BY <4>1, ListFacts
        <5> QED BY <4>1, <5>1, PlaceFacts
      <4>3. \A x : Contains(ConsumerThreads', x) <=> Contains(ConsumerThreads, x) \/ x = p
        BY <1>0, <4>1 DEF Contains, Pointers
      <4> HIDE DEF p
      <4> QED BY <1>f, <2>0, <3>0, <4>1, <4>2, <4>3 DEF Same, SameAs
    <3>2. CASE ~(busy.next <= Len(PartitionIDs))
      <4>1. busy' = Free /\ UNCHANGED <<topic, phase, ConsumerThreads, partition>>
        BY <2>3, <3>2 DEF createStream
      <4> QED BY <1>f, <2>0, <3>0, <4>1
    <3> QED BY <3>1, <3>2
  <2>4. CASE createStreamThrows
    BY <2>0, <2>4 DEF createStreamThrows, members
  <2>5. CASE erase
    <3>1. /\ busy.do = "erasing" /\ partition' = Destroyed(Erased)
          /\ ConsumerThreads' = busy.left /\ busy' = Free
          /\ topic'.StopConsumeTime = topic.StopConsumeTime /\ UNCHANGED phase
      BY <2>5, EraseSteps
    <3>2. phase # "destroyed"
      BY <1>f, <3>1
    <3>3. \A p \in Parts : Contains(ConsumerThreads, p) => p \in Erased \/ Contains(busy.left, p)
      BY <3>1, ErasedFacts
    <3>4. \A p \in Parts :
            /\ Destroyed(Erased)[p].state = IF p \in Erased THEN "gone" ELSE partition[p].state
            /\ Destroyed(Erased)[p].stop = partition[p].stop
      BY DestroyedFacts
    <3>5. NoPartitionIsLost'
      BY <3>1, <3>3, <3>4
    <3>6. SameStop'
      BY <3>1, <3>4
    <3> QED BY <1>f, <3>1, <3>2, <3>5, <3>6
  <2> QED BY <1>2, <2>1, <2>2, <2>3, <2>4, <2>5 DEF Executor
<1>3. CASE setStopTime
  <2>1. PICK t \in StopTimes : executor' = sendWork(executor, "owner", NewStop(t))
    BY <1>3 DEF setStopTime
  <2>2. NewStop(t) \in Tasks
    BY TaskFacts
  <2>3. executor'.RunThread = executor.RunThread
    BY <1>0, <1>1, <2>1, <2>2, SentTask
  <2> QED BY <1>3, <2>3 DEF setStopTime, members
<1>4. CASE beginStop
  BY <1>4 DEF beginStop, members
<1>5. CASE endStop
  BY <1>5, EndStopFacts DEF members, Same, SameAs
<1>6. CASE Destroy
  <2>1. CASE /\ phase = "running" /\ phase' = "joining"
             /\ executor' = sendWork(executor, "owner", Exit)
             /\ UNCHANGED <<ConsumerThreads, partition, sent>>
    <3>1. executor'.RunThread = executor.RunThread
      BY <1>0, <1>1, <2>1, SentTask, TaskFacts
    <3> QED BY <1>6, <2>1, <3>1 DEF Destroy
  <2>2. CASE /\ ~executor.RunThread /\ phase' = "destroyed" /\ partition' = Destroyed(Rest)
             /\ ConsumerThreads' = << >> /\ UNCHANGED executor
    <3>1. \A p \in Parts : Contains(ConsumerThreads, p) => p \in Rest
      BY ErasedFacts
    <3>2. \A p \in Parts :
            Destroyed(Rest)[p].state = IF p \in Rest THEN "gone" ELSE partition[p].state
      BY DestroyedFacts
    <3>3. busy = Free /\ UNCHANGED busy /\ walk' = NoWalk
      BY <1>6, <2>2 DEF Destroy
    <3> QED BY <1>f, <2>2, <3>1, <3>2, <3>3
  <2> QED BY <1>6, <2>1, <2>2 DEF Destroy, Rest
<1>7. CASE Attach
  BY <1>7, AttachFacts DEF members, outside
<1>8. CASE ReadMessage
  BY <1>8, ReadFacts DEF members, outside, Same, SameAs
<1>9. CASE \E p \in Parts : Finish(p)
  BY <1>9, FinishFacts DEF members, outside
<1>10. CASE Produce
  BY <1>10 DEF Produce, members
<1>11. CASE Tick
  BY <1>11 DEF Tick, members
<1>12. CASE UNCHANGED vars
  BY <1>12 DEF vars, members, outside
<1> QED BY <1>2, <1>3, <1>4, <1>5, <1>6, <1>7, <1>8, <1>9, <1>10, <1>11, <1>12 DEF Next

(* The vector of partitions is sound whatever the executor, the owner's thread
   and the partitions do: no partition that runs is lost from it, also not in
   the middle of remove_if and erase, and all have the topic's stop time. *)
THEOREM StructureCorrect == Spec => []StructureOK
<1>1. Init => TypeInv /\ StructInv
  BY TypeInit, StructInit
<1>2. TypeInv /\ StructInv /\ [Next]_vars => (TypeInv /\ StructInv)'
  BY TypeNext, StructNext
<1>3. TypeInv /\ StructInv => StructureOK
  BY TypeParts, SameStopFacts DEF StructInv, StructureOK
<1> QED BY <1>1, <1>2, <1>3, PTL DEF Spec
-----------------------------------------------------------------------------
(* The contract of a stream. The tasks of the topic follow one another, each
   queued by the one before it: of these Line tasks at most one waits, and none
   while one is under way. *)

Line == {x \in Tasks : x.do \notin {"setStopTime", "exit"}}

Untouched ==
  /\ ConsumerThreads = << >> /\ sent = 0 /\ ~topic.IsDone
  /\ \A p \in Parts : partition[p].state = "none"

\* Metadata calls are made; nothing exists yet that could queue a message.
Asks ==
  /\ ~topic.HasError /\ Untouched
  /\ \/ busy = Free /\ \E x \in Line : x # Check /\ OneOf(executor, Line, x)
     \/ busy.do = "asking" /\ NoneOf(executor, Line)

Creates ==
  /\ ~topic.HasError /\ ~topic.IsDone
  /\ busy.do = "creating" /\ NoneOf(executor, Line)

\* The partitions are watched, for good: a topic that is done has none.
Watches ==
  /\ ~topic.HasError /\ (topic.IsDone => ConsumerThreads = << >>)
  /\ \/ busy = Free /\ OneOf(executor, Line, Check)
     \/ /\ busy.do = "erasing" /\ NoneOf(executor, Line)
        /\ topic.IsDone => busy.left = << >>

\* The metadata calls were given up, and no task follows.
Fails == topic.HasError /\ Untouched /\ busy = Free /\ NoneOf(executor, Line)

Stage == Asks \/ Creates \/ Watches \/ Fails

\* A step as StreamContract allows it.
ContractStep ==
  \/ status' = status /\ sent' = sent
  \/ status = "reading" /\ status' = status /\ sent' > sent
  \/ status = "reading" /\ status' = "done" /\ sent' >= sent
  \/ status = "reading" /\ sent = 0 /\ status' = "failed" /\ sent' = sent
  \/ /\ status # "gone" /\ status' = "gone" /\ sent' >= sent
     /\ status # "reading" => sent' = sent

LineKept ==
  /\ NoneOf(executor, Line) => NoneOf(executor', Line)
  /\ \A x \in Line : OneOf(executor, Line, x) => OneOf(executor', Line, x)

\* The tasks of the line.
LEMMA LineFacts ==
  /\ InitMetadata \in Line /\ Check \in Line
  /\ GetPartitions(TRUE) \in Line /\ GetPartitions(FALSE) \in Line
  /\ GetOffsets(TRUE) \in Line /\ GetOffsets(FALSE) \in Line
  /\ InitMetadata # Check /\ \A b : GetPartitions(b) # Check /\ GetOffsets(b) # Check
  /\ \A o \in OffsetLists : CreateStreams(o) \in Line /\ CreateStreams(o) # Check
  /\ Exit \notin Line /\ \A t \in StopTimes : NewStop(t) \notin Line
  /\ \A x \in Tasks : x.do \notin {"setStopTime", "exit"} <=> x \in Line
<1>1. /\ InitMetadata.do = "initMetadataCalls" /\ Check.do = "checkIfDone" /\ Exit.do = "exit"
      /\ \A b : GetPartitions(b).do = "getPartitions" /\ GetOffsets(b).do = "getOffsets"
      /\ \A o \in OffsetLists : CreateStreams(o).do = "createStreams"
      /\ \A t \in StopTimes : NewStop(t).do = "setStopTime"
  BY TaskFacts
<1>2. \A x \in Tasks : x.do \notin {"setStopTime", "exit"} <=> x \in Line
  BY DEF Line
<1>3. /\ InitMetadata \in Line /\ Check \in Line
      /\ GetPartitions(TRUE) \in Line /\ GetPartitions(FALSE) \in Line
      /\ GetOffsets(TRUE) \in Line /\ GetOffsets(FALSE) \in Line
  BY <1>1, <1>2, TaskFacts
<1>4. InitMetadata # Check /\ \A b : GetPartitions(b) # Check /\ GetOffsets(b) # Check
  BY <1>1
<1>5. \A o \in OffsetLists : CreateStreams(o) \in Line /\ CreateStreams(o) # Check
  BY <1>1, <1>2, TaskFacts
<1>6. Exit \notin Line /\ \A t \in StopTimes : NewStop(t) \notin Line
  BY <1>1, <1>2, TaskFacts
<1> QED BY <1>2, <1>3, <1>4, <1>5, <1>6

\* Steps of others leave the stage.
LEMMA StageKept ==
  ASSUME Stage, UNCHANGED <<ConsumerThreads, busy, sent>>, LineKept,
         topic'.HasError = topic.HasError, topic'.IsDone = topic.IsDone,
         \A p \in Parts : partition[p].state = "none" => partition'[p].state = "none",
         phase' = "destroyed" <=> phase = "destroyed"
  PROVE  Stage' /\ ContractStep
<1>1. status' = status
  BY DEF status
<1>2. Untouched => Untouched'
  BY DEF Untouched
<1>3. Stage'
  BY <1>2, LineFacts DEF Stage, Asks, Creates, Watches, Fails, LineKept
<1> QED BY <1>1, <1>3 DEF ContractStep
\* A task of the executor follows the line, and StreamContract.
LEMMA StageTask ==
  ASSUME TypeInv, StructInv, Stage, ExecutorTask
  PROVE  Stage' /\ ContractStep
<1>0. /\ executor \in Executors(Owners, Tasks) /\ topic \in Members /\ sent \in Nat
      /\ busy = Free /\ Free.do = "nothing" /\ UNCHANGED phase
      /\ "owner" \in Owners /\ "self" \in Owners
  BY PlaceFacts DEF TypeInv, MembersOK, PartitionsOK, ExecutorTask, Owners
<1>1. PICK slot \in Runnable(executor) :
        LET task == Task(executor, slot)
            ex   == Dequeue(executor, slot)
        IN  \/ task = InitMetadata /\ initMetadataCalls(ex)
            \/ task.do \in {"getPartitions", "getOffsets"} /\ beginQuery(ex, task)
            \/ task.do = "createStreams" /\ beginCreateStreams(ex, task.offsets)
            \/ task = Check /\ beginCheckIfDone(ex)
            \/ task.do = "setStopTime" /\ applyStopTime(ex, task.stop)
            \/ task = Exit /\ runExit(ex)
  BY DEF ExecutorTask
<1> DEFINE task == Task(executor, slot)
           ex == Dequeue(executor, slot)
<1>2. /\ task \in Tasks /\ ex \in Executors(Owners, Tasks) /\ executor.RunThread
      /\ NoneOf(executor, Line) => task \notin Line /\ NoneOf(ex, Line)
      /\ \A x : OneOf(executor, Line, x) /\ task \in Line => task = x /\ NoneOf(ex, Line)
      /\ \A x : OneOf(executor, Line, x) /\ task \notin Line => OneOf(ex, Line, x)
  BY <1>0, TakenTask, TakeLine
<1> HIDE DEF task, ex
<1>3. phase # "destroyed"
  BY <1>2 DEF StructInv, Ended
<1>4. task \in Line /\ task # Check => Asks /\ NoneOf(ex, Line)
  BY <1>0, <1>2 DEF Stage, Asks, Creates, Watches, Fails
<1>5. task = Check => Watches /\ NoneOf(ex, Line)
  BY <1>0, <1>2, LineFacts DEF Stage, Asks, Creates, Watches, Fails
<1>6. CASE task = InitMetadata /\ initMetadataCalls(ex)
  <2>1. executor' = sendWork(ex, "self", GetPartitions(FALSE))
        /\ UNCHANGED <<members, partition, sent>>
    BY <1>6 DEF initMetadataCalls
  <2>2. OneOf(executor', Line, GetPartitions(FALSE))
    BY <1>0, <1>2, <1>4, <1>6, <2>1, LineFacts, TaskFacts, SendLine
  <2>3. Asks'
    BY <1>0, <1>4, <1>6, <2>1, <2>2, LineFacts DEF Asks, Untouched, members
  <2> QED BY <1>0, <2>1, <2>3 DEF Stage, ContractStep, status, members
<1>7. CASE task.do \in {"getPartitions", "getOffsets"} /\ beginQuery(ex, task)
  <2>0. task \in Line /\ task # Check
    BY <1>2, <1>7, LineFacts, TaskFacts
  <2>1. SameTopic /\ busy' = Asking(task.do) /\ executor' = ex
        /\ UNCHANGED <<ConsumerThreads, partition, sent>>
    BY <1>7, BeginFacts DEF beginQuery
  <2>2. busy'.do = "asking"
    BY <1>7, <2>1, PlaceFacts
  <2>3. Asks'
    BY <1>4, <2>0, <2>1, <2>2 DEF Asks, Untouched, SameTopic
  <2> QED BY <1>0, <2>1, <2>3 DEF Stage, ContractStep, status, SameTopic
<1>8. CASE task.do = "createStreams" /\ beginCreateStreams(ex, task.offsets)
  <2>0. task \in Line /\ task # Check
    BY <1>2, <1>8, LineFacts, TaskFacts
  <2>1. SameTopic /\ busy' = Creating(task.offsets, 1) /\ executor' = ex
        /\ UNCHANGED <<ConsumerThreads, partition, sent>>
    BY <1>8, BeginFacts DEF beginCreateStreams
  <2>2. busy'.do = "creating"
    <3>1. task.offsets \in OffsetLists /\ 1 \in 1..(Len(PartitionIDs) + 1)
      BY <1>2, <1>8, TaskFacts, ListFacts
    <3> QED BY <2>1, <3>1, PlaceFacts
  <2>3. Creates'
    BY <1>4, <2>0, <2>1, <2>2 DEF Asks, Creates, Untouched, SameTopic
  <2> QED BY <1>0, <2>1, <2>3 DEF Stage, ContractStep, status, SameTopic
<1>9. CASE task = Check /\ beginCheckIfDone(ex)
  <2>1. /\ executor' = ex /\ ConsumerThreads' = Shifted /\ busy' = Erasing(Left)
        /\ sent' = Flushed(Over) /\ UNCHANGED topic
    BY <1>9, CheckSteps
  <2>2. /\ Left \in Seq(Pointers) /\ IsFiniteSet(Over)
        /\ ConsumerThreads = << >> => Left = << >> /\ Shifted = << >> /\ Over = {}
    BY CheckFacts
  <2>3. busy'.do = "erasing" /\ busy'.left = Left
    BY <2>1, <2>2, PlaceFacts
  <2>4. sent' \in Nat /\ sent' >= sent /\ (ConsumerThreads = << >> => sent' = sent)
    BY <2>1, <2>2, FlushFacts
  <2>5. Watches'
    BY <1>5, <1>9, <2>1, <2>2, <2>3 DEF Watches
  <2>6. ~topic.HasError /\ (topic.IsDone => sent' = sent)
    BY <1>5, <1>9, <2>4 DEF Watches
  <2>7. status' = status /\ (status = "reading" \/ sent' = sent)
    BY <1>0, <1>3, <2>1, <2>6 DEF status
  <2>8. ContractStep
    BY <1>0, <2>4, <2>7 DEF ContractStep
  <2> QED BY <2>5, <2>8 DEF Stage
<1>10. CASE task.do = "setStopTime" /\ applyStopTime(ex, task.stop)
  <2>1. task \notin Line /\ task.stop \in StopTimes
    BY <1>2, <1>10, LineFacts, TaskFacts
  <2>2. /\ topic'.HasError = topic.HasError /\ topic'.IsDone = topic.IsDone
        /\ \A p \in Parts : partition'[p].state = partition[p].state
        /\ executor' = ex /\ UNCHANGED <<ConsumerThreads, busy, sent>>
    BY <1>10, <2>1, ApplyFacts
  <2>3. LineKept
    BY <1>2, <2>1, <2>2 DEF LineKept
  <2> QED BY <1>0, <2>2, <2>3, StageKept
<1>11. CASE task = Exit /\ runExit(ex)
  <2>1. task \notin Line
    BY <1>11, LineFacts
  <2>2. executor' = StopThread(ex) /\ UNCHANGED <<members, partition, sent>>
    BY <1>11 DEF runExit
  <2>3. /\ NoneOf(ex, Line) => NoneOf(executor', Line)
        /\ \A x : OneOf(ex, Line, x) => OneOf(executor', Line, x)
    BY <1>2, <2>2, NewLine
  <2>4. LineKept
    BY <1>2, <2>1, <2>3 DEF LineKept
  <2> QED BY <1>0, <2>2, <2>4, StageKept DEF members
<1> QED BY <1>1, <1>6, <1>7, <1>8, <1>9, <1>10, <1>11 DEF task, ex
\* A new topic is about to ask for its metadata.
LEMMA StageInit == Init => Stage
<1> SUFFICES ASSUME Init PROVE Asks
  BY DEF Stage
<1>1. NoneOf(NewExecutor(Owners), Line) /\ NewExecutor(Owners) \in Executors(Owners, Tasks)
  BY NewLine, NewExecutorFacts
<1>2. executor = sendWork(NewExecutor(Owners), "owner", InitMetadata)
  BY DEF Init, Owners
<1>3. "owner" \in Owners /\ InitMetadata \in Tasks /\ InitMetadata \in Line
  BY TaskFacts, LineFacts DEF Owners
<1>4. OneOf(executor, Line, InitMetadata)
  BY <1>1, <1>2, <1>3, SendLine
<1>5. ~topic.HasError /\ Untouched
  BY DEF Init, Untouched, NoPartition
<1> QED BY <1>3, <1>4, <1>5, LineFacts DEF Asks, Init

\* An answer of the broker, or none.
LEMMA StageAnswer ==
  ASSUME TypeInv, StructInv, Stage, getPartitionsForTopic \/ getOffsetsForPartitions
  PROVE  Stage' /\ ContractStep
<1>0. /\ executor \in Executors(Owners, Tasks) /\ "self" \in Owners
      /\ busy.do = "asking" /\ busy' = Free /\ UNCHANGED <<ConsumerThreads, partition, sent, phase>>
  BY PlaceFacts DEF TypeInv, MembersOK, getPartitionsForTopic, getOffsetsForPartitions, Owners
<1>1. Asks /\ NoneOf(executor, Line)
  BY <1>0, PlaceFacts DEF Stage, Asks, Creates, Watches, Fails
<1>2. PICK then \in Line, again \in Line :
        then # Check /\ again # Check /\ (queryAnswered(then) \/ queryFails(again))
  <2>1. CASE getPartitionsForTopic
    BY <2>1, LineFacts DEF getPartitionsForTopic
  <2>2. CASE getOffsetsForPartitions
    BY <2>2, LineFacts, ListOfOffsets DEF getOffsetsForPartitions
  <2> QED BY <2>1, <2>2
<1>3. then \in Tasks /\ again \in Tasks
  BY DEF Line
<1>4. CASE SameTopic /\ executor' = sendWork(executor, "self", then)
  <2>1. OneOf(executor', Line, then)
    BY <1>0, <1>1, <1>3, <1>4, SendLine
  <2>2. Asks'
    BY <1>0, <1>1, <1>2, <1>4, <2>1 DEF Asks, Untouched, SameTopic
  <2> QED BY <1>0, <1>4, <2>2 DEF Stage, ContractStep, status, SameTopic
<1>5. CASE SameTopic /\ executor' = sendLowPriorityWork(executor, "self", again)
  <2>1. OneOf(executor', Line, again)
    BY <1>0, <1>1, <1>3, <1>5, SendLine
  <2>2. Asks'
    BY <1>0, <1>1, <1>2, <1>5, <2>1 DEF Asks, Untouched, SameTopic
  <2> QED BY <1>0, <1>5, <2>2 DEF Stage, ContractStep, status, SameTopic
<1>6. CASE topic'.HasError /\ topic'.IsDone = topic.IsDone /\ UNCHANGED executor
  <2>1. Fails'
    BY <1>0, <1>1, <1>6 DEF Asks, Fails, Untouched
  <2>2. sent = 0 /\ ~topic.HasError /\ ~topic.IsDone
    BY <1>1 DEF Asks, Untouched
  <2>3. ContractStep
    BY <1>0, <1>6, <2>2 DEF ContractStep, status
  <2> QED BY <2>1, <2>3 DEF Stage
<1> QED BY <1>2, <1>4, <1>5, <1>6, QueryFacts

\* The other steps of the executor.
LEMMA StageExecutor ==
  ASSUME TypeInv, StructInv, Stage, createStream \/ erase
  PROVE  Stage' /\ ContractStep
<1>0. executor \in Executors(Owners, Tasks) /\ "self" \in Owners /\ sent \in Nat
  BY DEF TypeInv, MembersOK, PartitionsOK, Owners
<1>1. CASE createStream
  <2>0. busy.do = "creating" /\ UNCHANGED <<topic, sent, phase>>
    BY <1>1 DEF createStream
  <2>1. Creates
    BY <2>0, PlaceFacts DEF Stage, Asks, Creates, Watches, Fails
  <2>2. ContractStep
    BY <2>0 DEF ContractStep, status
  <2>3. CASE busy.next <= Len(PartitionIDs)
    <3>1. /\ busy' = Creating(busy.offsets, busy.next + 1) /\ UNCHANGED executor
          /\ busy.offsets \in OffsetLists /\ busy.next \in 1..Len(PartitionIDs)
      BY <1>1, <2>3, CreateFacts
    <3>2. busy'.do = "creating"
      <4>1. busy.next + 1 \in 1..(Len(PartitionIDs) + 1)
        BY <3>1, ListFacts
      <4> QED BY <3>1, <4>1, PlaceFacts
    <3> QED BY <2>0, <2>1, <2>2, <3>1, <3>2 DEF Stage, Creates
  <2>4. CASE ~(busy.next <= Len(PartitionIDs))
    <3>1. executor' = sendLowPriorityWork(executor, "self", Check) /\ busy' = Free
      BY <1>1, <2>4 DEF createStream
    <3>2. OneOf(executor', Line, Check)
      BY <1>0, <2>1, <3>1, LineFacts, TaskFacts, SendLine DEF Creates
    <3>3. Watches'
      BY <2>0, <2>1, <3>1, <3>2 DEF Watches, Creates
    <3> QED BY <2>2, <3>3 DEF Stage
  <2> QED BY <2>3, <2>4
<1>2. CASE erase
  <2>1. /\ busy.do = "erasing" /\ sent' = Flushed(Erased)
        /\ ConsumerThreads' = busy.left /\ busy' = Free
        /\ executor' = sendLowPriorityWork(executor, "self", Check)
        /\ topic'.HasError = topic.HasError
        /\ topic'.IsDone = (topic.IsDone \/ busy.left = << >>) /\ UNCHANGED phase
    BY <1>2, EraseSteps
  <2>2. Watches /\ NoneOf(executor, Line) /\ (topic.IsDone => busy.left = << >>)
    BY <2>1, PlaceFacts DEF Stage, Asks, Creates, Watches, Fails
  <2>3. OneOf(executor', Line, Check)
    BY <1>0, <2>1, <2>2, LineFacts, TaskFacts, SendLine
  <2>4. Watches'
    BY <2>1, <2>2, <2>3 DEF Watches
  <2>5. sent' \in Nat /\ sent' >= sent /\ (topic.IsDone => sent' = sent)
    BY <2>1, <2>2, ErasedFacts, FlushFacts DEF Watches
  <2>6. phase # "destroyed"
    BY <2>1, PlaceFacts DEF StructInv, Ended
  <2>7. /\ status = (IF topic.IsDone THEN "done" ELSE "reading")
        /\ status' = (IF topic.IsDone \/ busy.left = << >> THEN "done" ELSE "reading")
    BY <2>1, <2>2, <2>6 DEF status, Watches
  <2>8. ContractStep
    BY <1>0, <2>5, <2>7 DEF ContractStep
  <2> QED BY <2>4, <2>8 DEF Stage
<1> QED BY <1>1, <1>2
\* A partition that reads does so for a stream that is not done.
LEMMA StageRead ==
  ASSUME TypeInv, StructInv, Stage, ReadMessage
  PROVE  Stage' /\ ContractStep
<1>1. /\ \A p \in Parts : Same(p) /\ (sent' = sent \/ sent' = sent + 1)
      /\ \E p \in Parts : partition[p].state = "running"
      /\ UNCHANGED <<topic, ConsumerThreads, busy, executor, phase>>
  BY ReadFacts DEF members, outside
<1>2. sent \in Nat /\ (sent' = sent \/ sent' > sent)
  BY <1>1 DEF TypeInv, PartitionsOK
<1>3. ~Untouched /\ ConsumerThreads # << >>
  BY <1>1 DEF Untouched, StructInv, NoPartitionIsLost, Contains
<1>4. Creates \/ Watches
  BY <1>3 DEF Stage, Asks, Fails
<1>5. status = "reading" /\ status' = status
  BY <1>1, <1>3, <1>4 DEF status, Creates, Watches, StructInv, Ended
<1>6. Creates' \/ Watches'
  BY <1>1, <1>4 DEF Creates, Watches
<1> QED BY <1>2, <1>5, <1>6 DEF Stage, ContractStep

\* The destructor passes on what a stream still has that is not done.
LEMMA StageDestroy ==
  ASSUME TypeInv, StructInv, Stage, Destroy
  PROVE  Stage' /\ ContractStep
<1>0. /\ executor \in Executors(Owners, Tasks) /\ "owner" \in Owners /\ sent \in Nat
      /\ UNCHANGED <<topic, busy>>
  BY DEF TypeInv, MembersOK, PartitionsOK, Owners, Destroy
<1>1. CASE /\ phase = "running" /\ phase' = "joining"
           /\ executor' = sendWork(executor, "owner", Exit)
           /\ UNCHANGED <<ConsumerThreads, partition, sent>>
  <2>1. LineKept
    BY <1>0, <1>1, LineFacts, TaskFacts, SendLine DEF LineKept
  <2> QED BY <1>0, <1>1, <2>1, StageKept
<1>2. CASE /\ phase = "joining" /\ ~executor.RunThread /\ phase' = "destroyed"
           /\ partition' = Destroyed(Rest) /\ sent' = Flushed(Rest)
           /\ ConsumerThreads' = << >> /\ UNCHANGED executor
  <2>1. busy = Free /\ Free.do = "nothing"
    BY <1>2, PlaceFacts DEF StructInv, Ended
  <2>2. IsFiniteSet(Rest) /\ (ConsumerThreads = << >> => Rest = {})
    BY ErasedFacts
  <2>3. sent' \in Nat /\ sent' >= sent /\ (ConsumerThreads = << >> => sent' = sent)
    BY <1>2, <2>2, FlushFacts
  <2>4. \A p \in Parts :
          Destroyed(Rest)[p].state = IF p \in Rest THEN "gone" ELSE partition[p].state
    BY DestroyedFacts
  <2>5. Untouched => Untouched'
    BY <1>0, <1>2, <2>2, <2>3, <2>4 DEF Untouched
  <2>6. Stage'
    BY <1>0, <1>2, <2>1, <2>5 DEF Stage, Asks, Creates, Watches, Fails
  <2>7. topic.HasError \/ topic.IsDone => sent' = sent
    BY <2>1, <2>3 DEF Stage, Asks, Creates, Watches, Fails, Untouched
  <2>8. status # "gone" /\ status' = "gone" /\ (status # "reading" => sent' = sent)
    BY <1>2, <2>7 DEF status
  <2> QED BY <1>0, <2>3, <2>6, <2>8 DEF ContractStep
<1> QED BY <1>1, <1>2 DEF Destroy, Rest

\* Every step stays in the line and follows StreamContract.
LEMMA StageNext == TypeInv /\ StructInv /\ Stage /\ [Next]_vars => Stage' /\ ContractStep
<1> SUFFICES ASSUME TypeInv, StructInv, Stage, [Next]_vars PROVE Stage' /\ ContractStep
  OBVIOUS
<1>0. executor \in Executors(Owners, Tasks) /\ "owner" \in Owners
  BY DEF TypeInv, MembersOK, Owners
<1>1. UNCHANGED executor => LineKept
  BY DEF LineKept
<1>2. CASE Executor
  <2>1. CASE createStreamThrows
    <3>1. phase # "destroyed" /\ phase' = "crashed"
      BY <2>1, PlaceFacts DEF createStreamThrows, StructInv, Ended
    <3> QED BY <1>1, <2>1, <3>1, StageKept DEF createStreamThrows, members
  <2> QED BY <1>2, <2>1, StageTask, StageAnswer, StageExecutor DEF Executor
<1>3. CASE setStopTime
  <2>1. PICK t \in StopTimes : executor' = sendWork(executor, "owner", NewStop(t))
    BY <1>3 DEF setStopTime
  <2>2. NewStop(t) \in Tasks /\ NewStop(t) \notin Line
    BY TaskFacts, LineFacts
  <2>3. LineKept
    BY <1>0, <2>1, <2>2, SendLine DEF LineKept
  <2> QED BY <1>3, <2>3, StageKept DEF setStopTime, members
<1>4. CASE beginStop \/ Produce \/ Tick
  BY <1>1, <1>4, StageKept DEF beginStop, Produce, Tick, members
<1>5. CASE endStop
  <2>1. phase # "destroyed"
    BY <1>5 DEF endStop, StructInv, Ended
  <2>2. /\ \A p \in Parts : Same(p) /\ phase' \in {phase, "crashed"}
        /\ UNCHANGED <<topic, ConsumerThreads, busy, executor, sent>>
    BY <1>5, EndStopFacts DEF members
  <2>3. phase' # "destroyed"
    <3>1. phase' \in {phase, "crashed"}
      BY <1>5, EndStopFacts
    <3> QED BY <2>1, <3>1
  <2> QED BY <1>1, <2>1, <2>2, <2>3, StageKept DEF Same, SameAs
<1>6. CASE Destroy
  BY <1>6, StageDestroy
<1>7. CASE Attach
  BY <1>1, <1>7, AttachFacts, StageKept DEF members, outside
<1>8. CASE ReadMessage
  BY <1>8, StageRead
<1>9. CASE \E p \in Parts : Finish(p)
  <2>1. /\ UNCHANGED <<topic, ConsumerThreads, busy, executor, sent, phase>>
        /\ \A p \in Parts : partition[p].state = "none" => partition'[p].state = "none"
    BY <1>9, FinishFacts DEF members, outside
  <2> QED BY <1>1, <2>1, StageKept
<1>10. CASE UNCHANGED vars
  BY <1>1, <1>10, StageKept DEF vars, members, outside
<1> QED BY <1>2, <1>3, <1>4, <1>5, <1>6, <1>7, <1>8, <1>9, <1>10 DEF Next

(* Topic implements StreamContract: with all its tasks, partitions and calls
   from outside, isDone() means that nothing more is queued, not even by
   destructors, an error that nothing was, and both are for good. *)
THEOREM FollowsContract == Spec => ImplementsContract
<1>1. Init => Contract!Init
  <2> SUFFICES ASSUME Init PROVE Contract!Init
    OBVIOUS
  <2>1. status = "reading" /\ sent = 0
    BY DEF Init, status
  <2> QED BY <2>1 DEF Contract!Init
<1>2. Init => TypeInv /\ StructInv /\ Stage
  BY TypeInit, StructInit, StageInit
<1>3. TypeInv /\ StructInv /\ Stage /\ [Next]_vars => (TypeInv /\ StructInv /\ Stage)'
  BY TypeNext, StructNext, StageNext
<1>4. TypeInv /\ StructInv /\ Stage /\ [Next]_vars =>
        [Contract!Next]_<<[s \in {"this"} |-> status], [s \in {"this"} |-> sent]>>
  <2> SUFFICES ASSUME TypeInv, StructInv, Stage, [Next]_vars, NEW s \in {"this"}
               PROVE  \/ Contract!Begin(s) \/ Contract!Queue(s) \/ Contract!Done(s)
                      \/ Contract!Fail(s) \/ Contract!Destroy(s)
                      \/ (Contract!SameStatus(s) /\ Contract!SameQueued(s))
    BY DEF Contract!Next
  <2>1. ContractStep
    BY StageNext
  <2>2. status # "none"
    BY DEF status
  <2> QED BY <2>1, <2>2
          DEF ContractStep, Contract!Begin, Contract!Queue, Contract!Done, Contract!Fail,
              Contract!Destroy, Contract!SameStatus, Contract!SameQueued, Contract!Becomes
<1> QED BY <1>1, <1>2, <1>3, <1>4, PTL DEF Spec, ImplementsContract, Contract!Spec
-----------------------------------------------------------------------------
(* The offsets. They are found by one task, used by a later one, while messages
   arrive: the partitions grow, but no offset comes to skip a message. *)

\* What an answer f of the broker may skip: nothing, or, if it is OFFSET_END,
\* nothing that was there.
Skips(f) == IF f.offset = OffsetEnd THEN f.known ELSE f.offset

\* Nothing in time is among it.
FitAt(p, f) ==
  /\ Skips(f) \in Nat /\ Skips(f) <= Len(log[p])
  /\ \A j \in 1..Len(log[p]) : log[p][j] >= OffsetTime => j > Skips(f)

Fit(offsets) == \A i \in 1..Len(PartitionIDs) : FitAt(PartitionIDs[i], offsets[i])

FitTasks == {x \in Tasks : x.do = "createStreams" => Fit(x.offsets)}

\* The offsets that wait, that are used, and that were used.
OffsetsFit ==
  /\ executor \in Executors(Owners, FitTasks)
  /\ busy.do = "creating" => Fit(busy.offsets)
  /\ \A p \in Parts :
       partition[p].state # "none" =>
         /\ partition[p].found.offset # OffsetEnd =>
              partition[p].position = partition[p].found.offset
         /\ FitAt(p, partition[p].found)

Present == \A p \in Parts : Contains(ConsumerThreads, p) => partition[p].state # "none"

OffsetInv == OffsetsFit /\ Present

\* The invariant implies the property.
LEMMA OffsetMeans == TypeInv /\ OffsetInv => NoKnownMessageSkipped
<1> SUFFICES ASSUME TypeInv, OffsetInv, NEW p \in Parts,
                    partition[p].state # "none",
                    NEW i \in DOMAIN log[p], log[p][i] >= Start - StartLeeway
             PROVE  \/ i > partition[p].position
                    \/ /\ partition[p].found.offset = OffsetEnd
                       /\ i > partition[p].found.known
  BY DEF NoKnownMessageSkipped
<1>1. i \in 1..Len(log[p])
  BY DEF TypeInv, OutsideOK
<1>2. /\ FitAt(p, partition[p].found)
      /\ partition[p].found.offset # OffsetEnd =>
           partition[p].position = partition[p].found.offset
  BY DEF OffsetInv, OffsetsFit
<1>3. i > Skips(partition[p].found)
  BY <1>1, <1>2 DEF FitAt, OffsetTime
<1> QED BY <1>2, <1>3 DEF Skips

\* The tasks other than createStreams need no offsets.
LEMMA FitFacts ==
  /\ \A x \in FitTasks : x \in Tasks
  /\ \A x \in Tasks : x.do # "createStreams" => x \in FitTasks
  /\ \A x \in FitTasks : x.do = "createStreams" => Fit(x.offsets)
  /\ \A o \in OffsetLists : Fit(o) => CreateStreams(o) \in FitTasks
<1>1. \A o \in OffsetLists : CreateStreams(o) \in Tasks /\ CreateStreams(o).offsets = o
  BY TaskFacts DEF CreateStreams
<1> QED BY <1>1 DEF FitTasks

\* An offset that was just found fits.
LEMMA FoundFits ==
  ASSUME TypeInv
  PROVE  Fit([i \in DOMAIN PartitionIDs |-> Found(PartitionIDs[i])])
<1> DEFINE found == [i \in DOMAIN PartitionIDs |-> Found(PartitionIDs[i])]
<1> SUFFICES ASSUME NEW i \in 1..Len(PartitionIDs) PROVE FitAt(PartitionIDs[i], found[i])
  BY DEF Fit
<1>1. PartitionIDs[i] \in Parts /\ found[i] = Found(PartitionIDs[i])
  BY ListFacts
<1> DEFINE p == PartitionIDs[i]
           o == getOffsetForTime(p)
<1>2. \/ o = OffsetEnd /\ \A j \in 1..Len(log[p]) : ~(log[p][j] >= OffsetTime)
      \/ /\ o \in Nat /\ o < Len(log[p])
         /\ \A j \in 1..Len(log[p]) : log[p][j] >= OffsetTime => j > o
  BY <1>1, OffsetFacts
<1>3. Len(log[p]) \in Nat
  BY <1>1 DEF TypeInv, OutsideOK
<1>4. found[i].offset = o /\ found[i].known = Len(log[p])
  BY <1>1 DEF Found
<1>5. Skips(found[i]) = IF o = OffsetEnd THEN Len(log[p]) ELSE o
  BY <1>4 DEF Skips
<1> HIDE DEF o, p
<1>6. FitAt(p, found[i])
  BY <1>2, <1>3, <1>5, ListFacts DEF FitAt
<1> QED BY <1>6 DEF p

\* While no message arrives everything that fits does so.
LEMMA FitKept ==
  ASSUME UNCHANGED log
  PROVE  /\ \A p, o : FitAt(p, o)' <=> FitAt(p, o)
         /\ FitTasks' = FitTasks
<1>1. \A p, o : FitAt(p, o)' <=> FitAt(p, o)
  BY DEF FitAt, Skips
<1>2. \A offsets : Fit(offsets)' <=> Fit(offsets)
  BY DEF Fit, FitAt, Skips
<1> QED BY <1>1, <1>2 DEF FitTasks

\* Nor does a message that arrives make an offset skip it.
LEMMA FitGrows ==
  ASSUME TypeInv, Produce
  PROVE  /\ \A p \in Parts : \A o \in Finds : FitAt(p, o) => FitAt(p, o)'
         /\ FitTasks \subseteq FitTasks'
<1>0. log \in [Parts -> Seq(Nat)] /\ now \in Nat
  BY TopicAssumption DEF TypeInv, OutsideOK
<1>1. PICK r \in Parts, t \in Stamps : log' = [log EXCEPT ![r] = Append(@, t)]
  BY DEF Produce
<1>2. ASSUME NEW p \in Parts, NEW o \in Finds, FitAt(p, o) PROVE FitAt(p, o)'
  <2>1. CASE p # r
    <3>1. log'[p] = log[p]
      BY <1>0, <1>1, <2>1
    <3> QED BY <1>2, <3>1 DEF FitAt, Skips
  <2>2. CASE p = r
    <3> DEFINE q == log[p]
    <3>1. log'[p] = Append(q, t) /\ t \in Nat /\ q \in Seq(Nat)
      BY <1>0, <1>1, <2>2, TopicAssumption
    <3> HIDE DEF q
    <3>2. /\ Len(q) \in Nat /\ Len(log'[p]) = Len(q) + 1
          /\ \A j \in 1..Len(q) : log'[p][j] = q[j]
      BY <1>0, <3>1
    <3> DEFINE k == Skips(o)
    <3>4. k \in Nat /\ k <= Len(q) /\ \A j \in 1..Len(q) : q[j] >= OffsetTime => j > k
      BY <1>2 DEF FitAt, q
    <3>5. Skips(o)' = k
      BY DEF Skips
    <3> HIDE DEF k
    <3>6. k <= Len(log'[p])
      BY <3>2, <3>4
    <3>7. \A j \in 1..Len(log'[p]) : log'[p][j] >= OffsetTime => j > k
      <4>1. \A j \in 1..(Len(q) + 1) : j \in 1..Len(q) \/ j = Len(q) + 1
        BY <3>2
      <4>2. Len(q) + 1 > k
        BY <3>2, <3>4
      <4> QED BY <3>2, <3>4, <4>1, <4>2
    <3> QED BY <3>4, <3>5, <3>6, <3>7 DEF FitAt, OffsetTime
  <2> QED BY <2>1, <2>2
<1>3. \A offsets \in OffsetLists : Fit(offsets) => Fit(offsets)'
  BY <1>2, ListFacts DEF Fit, OffsetLists
<1>4. FitTasks \subseteq FitTasks'
  BY <1>3, TaskFacts DEF FitTasks
<1> QED BY <1>2, <1>4
\* A step that creates no partition and finds no offset.
LEMMA OffsetKept ==
  ASSUME OffsetInv, UNCHANGED log, executor' \in Executors(Owners, FitTasks),
         busy'.do = "creating" => Fit(busy'.offsets),
         \A p \in Parts :
           /\ partition[p].state = "none" =>
                Contains(ConsumerThreads, p) \/ partition'[p].state = "none"
           /\ partition[p].state # "none" => partition'[p].state # "none"
           /\ partition'[p].found = partition[p].found
           /\ \/ partition'[p].position = partition[p].position
              \/ partition[p].position = OffsetEnd
           /\ Contains(ConsumerThreads', p) => Contains(ConsumerThreads, p)
  PROVE  OffsetInv'
<1>1. FitTasks' = FitTasks /\ \A p, o : FitAt(p, o)' <=> FitAt(p, o)
  BY FitKept
<1>2. Present'
  BY DEF OffsetInv, Present
<1>3. busy'.do = "creating" => Fit(busy.offsets)'
  <2>1. \A i \in 1..Len(PartitionIDs) :
          FitAt(PartitionIDs[i], busy'.offsets[i]) <=> FitAt(PartitionIDs[i], busy.offsets[i])'
    BY DEF FitAt, Skips, OffsetTime
  <2> QED BY <2>1 DEF Fit
<1>4. ASSUME NEW p \in Parts, partition'[p].state # "none"
      PROVE  /\ partition'[p].found.offset # OffsetEnd =>
                  partition'[p].position = partition'[p].found.offset
             /\ FitAt(p, partition[p].found)'
  <2>1. partition[p].state # "none"
    BY <1>4 DEF OffsetInv, Present
  <2>2. /\ partition[p].found.offset # OffsetEnd =>
             partition[p].position = partition[p].found.offset
        /\ FitAt(p, partition[p].found)
    BY <2>1 DEF OffsetInv, OffsetsFit
  <2>3. /\ partition'[p].found = partition[p].found
        /\ partition'[p].found.offset # OffsetEnd =>
             partition'[p].position = partition'[p].found.offset
    BY <2>1, <2>2
  <2> QED BY <2>2, <2>3 DEF FitAt, Skips, OffsetTime
<1>5. OffsetsFit'
  BY <1>1, <1>3, <1>4 DEF OffsetsFit
<1> QED BY <1>2, <1>5 DEF OffsetInv

\* At the beginning no offset is known.
LEMMA OffsetInit == Init => OffsetInv
<1> SUFFICES ASSUME Init PROVE OffsetInv
  OBVIOUS
<1>1. executor \in Executors(Owners, FitTasks)
  <2>1. NewExecutor(Owners) \in Executors(Owners, FitTasks)
    BY NewExecutorFacts
  <2>2. "owner" \in Owners /\ InitMetadata \in FitTasks
    BY TaskFacts, FitFacts DEF Owners
  <2>3. executor = sendWork(NewExecutor(Owners), "owner", InitMetadata)
    BY DEF Init, Owners
  <2> QED BY <2>1, <2>2, <2>3, SendFacts
<1>2. busy.do # "creating" /\ \A p \in Parts : partition[p].state = "none"
  BY PlaceFacts DEF Init, NoPartition
<1>3. \A x : ~Contains(ConsumerThreads, x)
  BY DEF Init, Contains
<1> QED BY <1>1, <1>2, <1>3 DEF OffsetInv, OffsetsFit, Present

\* A task of the executor.
LEMMA OffsetTask ==
  ASSUME TypeInv, OffsetInv, ExecutorTask, UNCHANGED log
  PROVE  OffsetInv'
<1>0. /\ executor \in Executors(Owners, FitTasks) /\ busy = Free
      /\ Free.do = "nothing" /\ "self" \in Owners
  BY PlaceFacts DEF OffsetInv, OffsetsFit, ExecutorTask, Owners
<1>1. PICK slot \in Runnable(executor) :
        LET task == Task(executor, slot)
            ex   == Dequeue(executor, slot)
        IN  \/ task = InitMetadata /\ initMetadataCalls(ex)
            \/ task.do \in {"getPartitions", "getOffsets"} /\ beginQuery(ex, task)
            \/ task.do = "createStreams" /\ beginCreateStreams(ex, task.offsets)
            \/ task = Check /\ beginCheckIfDone(ex)
            \/ task.do = "setStopTime" /\ applyStopTime(ex, task.stop)
            \/ task = Exit /\ runExit(ex)
  BY DEF ExecutorTask
<1> DEFINE task == Task(executor, slot)
           ex == Dequeue(executor, slot)
<1>2. task \in FitTasks /\ ex \in Executors(Owners, FitTasks) /\ task \in Tasks
  BY <1>0, RunnableFacts, FitFacts
<1> HIDE DEF task, ex
<1>3. CASE initMetadataCalls(ex)
  <2>1. GetPartitions(FALSE) \in FitTasks
    BY TaskFacts, FitFacts
  <2>2. executor' \in Executors(Owners, FitTasks)
    BY <1>0, <1>2, <1>3, <2>1, SendFacts DEF initMetadataCalls
  <2> QED BY <1>0, <1>3, <2>2, OffsetKept DEF initMetadataCalls, members
<1>4. CASE task.do \in {"getPartitions", "getOffsets"} /\ beginQuery(ex, task)
  <2>1. busy'.do = "asking" /\ executor' = ex /\ UNCHANGED <<ConsumerThreads, partition>>
    BY <1>4, BeginFacts, PlaceFacts DEF beginQuery
  <2> QED BY <1>2, <2>1, OffsetKept
<1>5. CASE task.do = "createStreams" /\ beginCreateStreams(ex, task.offsets)
  <2>1. busy' = Creating(task.offsets, 1) /\ executor' = ex
        /\ UNCHANGED <<ConsumerThreads, partition>>
    BY <1>5, BeginFacts DEF beginCreateStreams
  <2>2. task.offsets \in OffsetLists /\ 1 \in 1..(Len(PartitionIDs) + 1) /\ Fit(task.offsets)
    BY <1>2, <1>5, TaskFacts, FitFacts, ListFacts
  <2>3. busy'.offsets = task.offsets
    BY <2>1, <2>2, PlaceFacts
  <2> QED BY <1>2, <2>1, <2>2, <2>3, OffsetKept
<1>6. CASE beginCheckIfDone(ex)
  <2>1. /\ executor' = ex /\ ConsumerThreads' = Shifted /\ busy' = Erasing(Left)
        /\ partition' = Destroyed(Over)
    BY <1>6, CheckSteps
  <2>2. /\ Left \in Seq(Pointers)
        /\ \A x : Contains(Shifted, x) => x = Null \/ Contains(ConsumerThreads, x)
    BY CheckFacts
  <2>3. \A p \in Over : Contains(ConsumerThreads, p)
    <3>1. ConsumerThreads \in Seq(Pointers)
      BY DEF TypeInv, MembersOK
    <3> QED BY <3>1, FiniteRange DEF Over
  <2>4. \A p \in Parts :
          /\ Destroyed(Over)[p].state = IF p \in Over THEN "gone" ELSE partition[p].state
          /\ Destroyed(Over)[p].found = partition[p].found
          /\ Destroyed(Over)[p].position = partition[p].position
    BY DestroyedFacts
  <2>5. busy'.do # "creating"
    BY <2>1, <2>2, PlaceFacts
  <2> QED BY <1>2, <2>1, <2>2, <2>3, <2>4, <2>5, ListFacts, OffsetKept
<1>7. CASE task.do = "setStopTime" /\ applyStopTime(ex, task.stop)
  <2>1. task.stop \in StopTimes
    BY <1>2, <1>7, TaskFacts
  <2>2. /\ \A p \in Parts :
             /\ partition'[p].state = partition[p].state
             /\ partition'[p].found = partition[p].found
             /\ partition'[p].position = partition[p].position
        /\ executor' = ex /\ UNCHANGED <<ConsumerThreads, busy, sent>>
    BY <1>7, <2>1, ApplyFacts
  <2> QED BY <1>0, <1>2, <2>2, OffsetKept
<1>8. CASE runExit(ex)
  <2>1. StopThread(ex) \in Executors(Owners, FitTasks)
    BY <1>2 DEF StopThread, Executors
  <2> QED BY <1>0, <1>8, <2>1, OffsetKept DEF runExit, members
<1> QED BY <1>1, <1>3, <1>4, <1>5, <1>6, <1>7, <1>8 DEF task, ex
\* A partition begins at the offset that was found for it.
LEMMA OffsetCreate ==
  ASSUME TypeInv, OffsetInv, createStream, UNCHANGED log
  PROVE  OffsetInv'
<1>0. executor \in Executors(Owners, FitTasks) /\ busy.do = "creating" /\ Fit(busy.offsets)
      /\ "self" \in Owners /\ ConsumerThreads \in Seq(Pointers)
  BY DEF OffsetInv, OffsetsFit, createStream, Owners, TypeInv, MembersOK
<1>1. CASE busy.next <= Len(PartitionIDs)
  <2> DEFINE p == PartitionIDs[busy.next]
             o == busy.offsets[busy.next]
  <2>1. /\ busy.next \in 1..Len(PartitionIDs) /\ busy.offsets \in OffsetLists
        /\ p \in Parts /\ \A r \in Parts : r # p => Same(r)
        /\ partition'[p].state = "running" /\ partition'[p].found = o
        /\ partition'[p].position = o.offset
        /\ ConsumerThreads' = Append(ConsumerThreads, p)
        /\ busy' = Creating(busy.offsets, busy.next + 1) /\ UNCHANGED executor
    BY <1>1, CreateFacts
  <2>2. busy'.offsets = busy.offsets
    <3>1. busy.next + 1 \in 1..(Len(PartitionIDs) + 1)
      BY <2>1, ListFacts
    <3> QED BY <2>1, <3>1, PlaceFacts
  <2>3. FitAt(p, o)
    BY <1>0, <2>1 DEF Fit
  <2>4. FitTasks' = FitTasks
    BY FitKept
  <2>5. Fit(busy.offsets)'
    BY <1>0, <2>2 DEF Fit, FitAt, Skips, OffsetTime
  <2> HIDE DEF p, o
  <2>6. \A x : Contains(ConsumerThreads', x) <=> Contains(ConsumerThreads, x) \/ x = p
    <3> DEFINE s == ConsumerThreads
    <3>1. s \in Seq(Pointers) /\ p \in Pointers /\ ConsumerThreads' = Append(s, p)
      BY <1>0, <2>1 DEF Pointers
    <3> HIDE DEF s
    <3>2. \A x : Contains(Append(s, p), x) <=> Contains(s, x) \/ x = p
      BY <3>1 DEF Contains
    <3> QED BY <3>1, <3>2 DEF s
  <2>7. ASSUME NEW r \in Parts, partition'[r].state # "none"
        PROVE  /\ partition'[r].found.offset # OffsetEnd =>
                    partition'[r].position = partition'[r].found.offset
               /\ FitAt(r, partition[r].found)'
    <3>1. CASE r = p
      BY <2>1, <2>3, <3>1 DEF FitAt, Skips, OffsetTime
    <3>2. CASE r # p
      <4>1. Same(r)
        BY <2>1, <3>2
      <4>2. /\ partition[r].found.offset # OffsetEnd =>
                 partition[r].position = partition[r].found.offset
            /\ FitAt(r, partition[r].found)
        BY <2>7, <4>1 DEF Same, SameAs, OffsetInv, OffsetsFit
      <4> QED BY <4>1, <4>2 DEF Same, SameAs, FitAt, Skips, OffsetTime
    <3> QED BY <3>1, <3>2
  <2>8. Present'
    BY <2>1, <2>6 DEF OffsetInv, Present, Same, SameAs
  <2> QED BY <1>0, <2>1, <2>4, <2>5, <2>7, <2>8 DEF OffsetInv, OffsetsFit
<1>2. CASE ~(busy.next <= Len(PartitionIDs))
  <2>1. /\ executor' = sendLowPriorityWork(executor, "self", Check) /\ busy' = Free
        /\ UNCHANGED <<partition, ConsumerThreads>>
    BY <1>2 DEF createStream
  <2>2. Check \in FitTasks
    BY TaskFacts, FitFacts
  <2>3. executor' \in Executors(Owners, FitTasks) /\ busy'.do # "creating"
    BY <1>0, <2>1, <2>2, SendFacts, PlaceFacts
  <2> QED BY <2>1, <2>3, OffsetKept
<1> QED BY <1>1, <1>2

\* Every step leaves the offsets early enough.
LEMMA OffsetNext == TypeInv /\ StructInv /\ OffsetInv /\ [Next]_vars => OffsetInv'
<1> SUFFICES ASSUME TypeInv, StructInv, OffsetInv, [Next]_vars PROVE OffsetInv'
  OBVIOUS
<1>0. /\ executor \in Executors(Owners, FitTasks) /\ "self" \in Owners /\ "owner" \in Owners
      /\ ConsumerThreads \in Seq(Pointers)
      /\ busy.do = "creating" => Fit(busy.offsets)
  BY DEF OffsetInv, OffsetsFit, Owners, TypeInv, MembersOK
<1>f. Free.do = "nothing" /\ \A x : ~Contains(<< >>, x)
  BY PlaceFacts DEF Contains
<1>r. \A x : x \in Range(ConsumerThreads) <=> Contains(ConsumerThreads, x)
  BY <1>0, FiniteRange
<1>1. CASE Executor
  <2>0. UNCHANGED log
    BY <1>1 DEF Executor
  <2>1. CASE ExecutorTask
    BY <2>0, <2>1, OffsetTask
  <2>2. CASE getPartitionsForTopic \/ getOffsetsForPartitions
    <3>1. PICK then \in FitTasks, again \in FitTasks : queryAnswered(then) \/ queryFails(again)
      <4>1. /\ GetOffsets(FALSE) \in FitTasks /\ GetOffsets(TRUE) \in FitTasks
            /\ GetPartitions(TRUE) \in FitTasks
        BY TaskFacts, FitFacts
      <4>2. CASE getPartitionsForTopic
        BY <4>1, <4>2 DEF getPartitionsForTopic
      <4>3. CASE getOffsetsForPartitions
        <5> DEFINE found == [i \in DOMAIN PartitionIDs |-> Found(PartitionIDs[i])]
        <5>1. CreateStreams(found) \in FitTasks
          BY ListOfOffsets, FoundFits, FitFacts
        <5>2. queryAnswered(CreateStreams(found)) \/ queryFails(GetOffsets(TRUE))
          BY <4>3 DEF getOffsetsForPartitions
        <5> QED BY <4>1, <5>1, <5>2
      <4> QED BY <2>2, <4>2, <4>3
    <3>2. executor' \in Executors(Owners, FitTasks)
      <4>1. /\ sendWork(executor, "self", then) \in Executors(Owners, FitTasks)
            /\ sendLowPriorityWork(executor, "self", again) \in Executors(Owners, FitTasks)
        BY <1>0, SendFacts
      <4> QED BY <1>0, <3>1, <4>1, QueryFacts
    <3>3. busy' = Free /\ UNCHANGED <<ConsumerThreads, partition>>
      BY <2>2 DEF getPartitionsForTopic, getOffsetsForPartitions
    <3> QED BY <1>f, <2>0, <3>2, <3>3, OffsetKept
  <2>3. CASE createStream
    BY <2>0, <2>3, OffsetCreate
  <2>4. CASE createStreamThrows
    BY <1>0, <2>0, <2>4, OffsetKept DEF createStreamThrows, members
  <2>5. CASE erase
    <3>1. /\ busy.do = "erasing" /\ partition' = Destroyed(Erased)
          /\ ConsumerThreads' = busy.left /\ busy' = Free
          /\ executor' = sendLowPriorityWork(executor, "self", Check)
      BY <2>5, EraseSteps
    <3>2. Check \in FitTasks
      BY TaskFacts, FitFacts
    <3>3. executor' \in Executors(Owners, FitTasks)
      BY <1>0, <3>1, <3>2, SendFacts
    <3>4. \A p \in Parts :
            /\ Destroyed(Erased)[p].state = IF p \in Erased THEN "gone" ELSE partition[p].state
            /\ Destroyed(Erased)[p].found = partition[p].found
            /\ Destroyed(Erased)[p].position = partition[p].position
      BY DestroyedFacts
    <3>5. \A p \in Erased : Contains(ConsumerThreads, p)
      BY <1>r DEF Erased
    <3>6. \A x : Contains(ConsumerThreads', x) => Contains(ConsumerThreads, x)
      BY <3>1 DEF StructInv, StaysIn
    <3> QED BY <1>f, <2>0, <3>1, <3>3, <3>4, <3>5, <3>6, OffsetKept
  <2> QED BY <1>1, <2>1, <2>2, <2>3, <2>4, <2>5 DEF Executor
<1>2. CASE setStopTime
  <2>1. PICK t \in StopTimes : executor' = sendWork(executor, "owner", NewStop(t))
    BY <1>2 DEF setStopTime
  <2>2. NewStop(t) \in FitTasks
    BY TaskFacts, FitFacts
  <2>3. executor' \in Executors(Owners, FitTasks)
    BY <1>0, <2>1, <2>2, SendFacts
  <2> QED BY <1>0, <1>2, <2>3, OffsetKept DEF setStopTime, members
<1>3. CASE beginStop \/ Tick
  BY <1>0, <1>3, OffsetKept DEF beginStop, Tick, members
<1>4. CASE endStop
  BY <1>0, <1>4, EndStopFacts, OffsetKept DEF members, Same, SameAs
<1>5. CASE Destroy
  <2>0. UNCHANGED <<busy, log>>
    BY <1>5 DEF Destroy
  <2>1. CASE /\ executor' = sendWork(executor, "owner", Exit)
             /\ UNCHANGED <<ConsumerThreads, partition, sent>>
    <3>1. Exit \in FitTasks
      BY TaskFacts, FitFacts
    <3>2. executor' \in Executors(Owners, FitTasks)
      BY <1>0, <2>1, <3>1, SendFacts
    <3> QED BY <1>0, <2>0, <2>1, <3>2, OffsetKept
  <2>2. CASE /\ partition' = Destroyed(Rest) /\ ConsumerThreads' = << >> /\ UNCHANGED executor
    <3>1. \A p \in Parts :
            /\ Destroyed(Rest)[p].state = IF p \in Rest THEN "gone" ELSE partition[p].state
            /\ Destroyed(Rest)[p].found = partition[p].found
            /\ Destroyed(Rest)[p].position = partition[p].position
      BY DestroyedFacts
    <3>2. \A p \in Rest : Contains(ConsumerThreads, p)
      BY <1>r DEF Rest
    <3> QED BY <1>0, <1>f, <2>0, <2>2, <3>1, <3>2, OffsetKept
  <2> QED BY <1>5, <2>1, <2>2 DEF Destroy, Rest
<1>6. CASE Attach
  BY <1>0, <1>6, AttachFacts, OffsetKept DEF members, outside
<1>7. CASE ReadMessage
  BY <1>0, <1>7, ReadFacts, OffsetKept DEF members, outside, Same, SameAs
<1>8. CASE \E p \in Parts : Finish(p)
  <2>1. PICK p \in Parts : Finish(p)
    BY <1>8
  <2>2. /\ UNCHANGED <<ConsumerThreads, busy, executor, log>>
        /\ \A r \in Parts :
             /\ partition[r].state = "none" => partition'[r].state = "none"
             /\ partition[r].state # "none" => partition'[r].state # "none"
             /\ partition'[r].found = partition[r].found
             /\ partition'[r].position = partition[r].position
    BY <2>1, FinishFacts DEF members, outside
  <2> QED BY <1>0, <2>2, OffsetKept
<1>9. CASE Produce
  <2>0. UNCHANGED <<ConsumerThreads, busy, executor, partition>>
    BY <1>9 DEF Produce, members
  <2>1. /\ \A p \in Parts : \A o \in Finds : FitAt(p, o) => FitAt(p, o)'
        /\ FitTasks \subseteq FitTasks'
    BY <1>9, FitGrows
  <2>2. executor' \in Executors(Owners, FitTasks')
    BY <1>0, <2>0, <2>1, ExecutorsGrow
  <2>3. busy.do = "creating" => Fit(busy.offsets)'
    <3>1. busy.do = "creating" => busy.offsets \in OffsetLists
      BY PlaceFacts DEF TypeInv, MembersOK
    <3> QED BY <1>0, <2>0, <2>1, <3>1, ListFacts DEF Fit, OffsetLists
  <2>4. \A p \in Parts : partition[p].found \in Finds
    BY DEF TypeInv, PartitionsOK, Partitions
  <2>5. OffsetsFit'
    BY <2>0, <2>1, <2>2, <2>3, <2>4 DEF OffsetInv, OffsetsFit
  <2> QED BY <2>0, <2>5 DEF OffsetInv, Present
<1>10. CASE UNCHANGED vars
  BY <1>0, <1>10, OffsetKept DEF vars, members, outside
<1> QED BY <1>1, <1>2, <1>3, <1>4, <1>5, <1>6, <1>7, <1>8, <1>9, <1>10 DEF Next

(* No partition skips a message in time that it held when the broker was asked,
   and one that came later only after OFFSET_END, for any contents of the
   partitions and however many messages arrive between the metadata call, the
   creation of the partition and the moment its consumer has its position. *)
THEOREM OffsetsCorrect == Spec => []NoKnownMessageSkipped
<1>1. Init => TypeInv /\ StructInv /\ OffsetInv
  BY TypeInit, StructInit, OffsetInit
<1>2. TypeInv /\ StructInv /\ OffsetInv /\ [Next]_vars => (TypeInv /\ StructInv /\ OffsetInv)'
  BY TypeNext, StructNext, OffsetNext
<1>3. TypeInv /\ OffsetInv => NoKnownMessageSkipped
  BY OffsetMeans
<1> QED BY <1>1, <1>2, <1>3, PTL DEF Spec
=============================================================================
