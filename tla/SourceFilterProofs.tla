-------------------------- MODULE SourceFilterProofs --------------------------
(***************************************************************************)
(* SourceFilter for every window, every set of timestamps and destinations *)
(* and every number of messages: its types, the sum of its counters, the   *)
(* completeness of the unordered_timestamp metric, and exactly which of    *)
(* the messages it passes on.                                              *)
(***************************************************************************)
EXTENDS SourceFilter, CommonLemmas

Times == StopTimes \union {Start}

\* What the lemmas about the operators ask of messages and stop times.
LEMMA MessageTimes ==
  /\ \A m \in Messages : m.ts \in Int
  /\ \A stop \in StopTimes : stop \in Times
BY SourceFilterAssumption DEF Messages, Times

-----------------------------------------------------------------------------
(* A filterMessage step, as the rest of the proofs uses it: the message it was
   given and one of the three ways it can end. *)
LEMMA FilterMessageStep ==
  ASSUME TypeOK, filterMessage
  PROVE  \E m \in Messages :
           /\ filter' = AfterMessage(filter, m)
           /\ sent' = [d \in Dests |-> sent[d] \o Forwarded(filter, m)]
           /\ in' = Append(in, m)
           /\ Forwarded(filter, m) \in Seq(Messages)
           /\ \/ filter' = AfterDrop(filter, m) /\ Forwarded(filter, m) = <<>>
              \/ filter' = AfterBuffering(filter, m) /\ Forwarded(filter, m) = <<>>
                 /\ m.valid
              \/ filter' = AfterSending(filter, m)
                 /\ Forwarded(filter, m) = Append(BufferedSeq(filter), m)
<1>0. filter \in FilterType(Messages, Times)
  BY DEF TypeOK, Times
<1>1. PICK ts \in TimeStamps, valid \in BOOLEAN :
         LET m == [id |-> Len(in) + 1, ts |-> ts, valid |-> valid]
         IN  /\ filter' = AfterMessage(filter, m)
             /\ Send(Forwarded(filter, m))
             /\ in' = Append(in, m)
  BY DEF filterMessage
<1> DEFINE m == [id |-> Len(in) + 1, ts |-> ts, valid |-> valid]
<1>2. m \in Messages
  BY DEF TypeOK, Messages
<1>3. /\ filter' = AfterMessage(filter, m)
      /\ sent' = [d \in Dests |-> sent[d] \o Forwarded(filter, m)]
      /\ in' = Append(in, m)
  BY <1>1 DEF Send
<1> HIDE DEF m
<1>4. Append(BufferedSeq(filter), m) \in Seq(Messages)
  BY <1>0, <1>2, BufferedFacts
<1>5. Forwarded(filter, m) \in Seq(Messages)
  BY <1>4 DEF Forwarded
<1>6. CASE IsDropped(filter, m)
  BY <1>2, <1>3, <1>5, <1>6 DEF AfterMessage, Forwarded
<1>7. CASE ~IsDropped(filter, m) /\ IsBeforeStart(filter, m)
  <2>1. m.valid
    BY <1>7 DEF IsDropped
  <2> QED BY <1>2, <1>3, <1>5, <1>7, <2>1 DEF AfterMessage, Forwarded
<1>8. CASE ~IsDropped(filter, m) /\ ~IsBeforeStart(filter, m)
  BY <1>2, <1>3, <1>5, <1>8 DEF AfterMessage, Forwarded
<1> QED BY <1>6, <1>7, <1>8

(* Every member of a SourceFilter keeps its type, whatever it is given. *)
THEOREM TypeCorrect == Spec => []TypeOK
<1>1. Init => TypeOK
  <2> SUFFICES ASSUME Init PROVE TypeOK OBVIOUS
  <2>1. PICK stop \in StopTimes, repeats \in AcceptsRepeated :
           filter = NewFilter(Start, stop, repeats)
    BY DEF Init
  <2>2. repeats \in BOOLEAN
    BY SourceFilterAssumption
  <2>3. filter \in FilterType(Messages, StopTimes \union {Start})
    BY <2>1, <2>2 DEF NewFilter, FilterType
  <2> QED BY <2>3 DEF Init, TypeOK
<1>2. TypeOK /\ [Next]_vars => TypeOK'
  <2> SUFFICES ASSUME TypeOK, [Next]_vars PROVE TypeOK' OBVIOUS
  <2>0. filter \in FilterType(Messages, Times)
    BY DEF TypeOK, Times
  <2>1. CASE filterMessage
    <3>1. PICK m \in Messages :
             /\ sent' = [d \in Dests |-> sent[d] \o Forwarded(filter, m)]
             /\ in' = Append(in, m)
             /\ Forwarded(filter, m) \in Seq(Messages)
             /\ \/ filter' = AfterDrop(filter, m)
                \/ filter' = AfterBuffering(filter, m)
                \/ filter' = AfterSending(filter, m)
      BY <2>1, FilterMessageStep
    <3>2. filter' \in FilterType(Messages, Times)
      <4>1. CASE filter' = AfterDrop(filter, m)
        BY <2>0, <4>1, AfterDropFacts
      <4>2. CASE filter' = AfterBuffering(filter, m)
        BY <2>0, <4>2, MessageTimes, AfterBufferingFacts
      <4>3. CASE filter' = AfterSending(filter, m)
        BY <2>0, <4>3, MessageTimes, AfterSendingFacts
      <4> QED BY <3>1, <4>1, <4>2, <4>3
    <3>3. sent' \in [Dests -> Seq(Messages)]
      BY <3>1 DEF TypeOK
    <3>4. in' \in Seq(Messages)
      BY <3>1 DEF TypeOK
    <3> QED BY <2>1, <3>2, <3>3, <3>4 DEF filterMessage, TypeOK, Times
  <2>2. CASE setStopTime
    <3>1. filter' \in FilterType(Messages, Times)
      BY <2>0, <2>2, MessageTimes, FilterWithStopTimeFacts DEF setStopTime
    <3> QED BY <2>2, <3>1 DEF setStopTime, TypeOK, Times
  <2>3. CASE Destroy
    <3>1. filter' \in FilterType(Messages, Times) /\ BufferedSeq(filter) \in Seq(Messages)
      BY <2>0, <2>3, AfterFlushFacts, BufferedFacts DEF Destroy
    <3>2. sent' \in [Dests -> Seq(Messages)]
      BY <2>3, <3>1 DEF Destroy, Send, TypeOK
    <3> QED BY <2>3, <3>1, <3>2 DEF Destroy, TypeOK, Times
  <2>4. CASE UNCHANGED vars
    BY <2>4 DEF vars, TypeOK
  <2> QED BY <2>1, <2>2, <2>3, <2>4 DEF Next
<1> QED BY <1>1, <1>2, PTL DEF Spec
-----------------------------------------------------------------------------
(* No message given to filterMessage is lost from the counters or counted
   twice: received = sent + discarded + the one that is buffered. *)
THEOREM AccountingCorrect == Spec => []Accounting
<1>1. Init => Accounting
  <2> SUFFICES ASSUME Init PROVE Accounting OBVIOUS
  <2>1. filter.Received = 0 /\ filter.Transmitted = 0 /\ filter.Discarded = 0
          /\ ~HasBuffered(filter)
    BY DEF Init, NewFilter, HasBuffered, NoMessage
  <2> QED BY <2>1 DEF Accounting, One
<1>2. TypeOK /\ Accounting /\ [Next]_vars => Accounting'
  <2> SUFFICES ASSUME TypeOK, Accounting, [Next]_vars PROVE Accounting'
    OBVIOUS
  <2>0. filter \in FilterType(Messages, Times)
    BY DEF TypeOK, Times
  <2>n. /\ filter.Received \in Nat /\ filter.Transmitted \in Nat
        /\ filter.Discarded \in Nat /\ One(HasBuffered(filter)) \in Nat
    BY <2>0, OneIsNat DEF FilterType
  <2>e. ASSUME filter'.BufferedMessage = NoMessage
        PROVE  One(HasBuffered(filter))' = 0
    BY <2>e DEF HasBuffered, NoMessage, One
  <2>k. ASSUME filter'.BufferedMessage = filter.BufferedMessage
        PROVE  One(HasBuffered(filter))' = One(HasBuffered(filter))
    BY <2>k DEF HasBuffered, One
  <2>1. CASE filterMessage
    <3>1. PICK m \in Messages :
             \/ filter' = AfterDrop(filter, m)
             \/ filter' = AfterBuffering(filter, m) /\ m.valid
             \/ filter' = AfterSending(filter, m)
      BY <2>1, FilterMessageStep
    <3>2. CASE filter' = AfterDrop(filter, m)
      BY <2>0, <2>n, <2>k, <3>2, AfterDropFacts DEF Accounting
    <3>3. CASE filter' = AfterBuffering(filter, m) /\ m.valid
      <4>1. filter'.BufferedMessage = m
        BY <2>0, <3>3, MessageTimes, AfterBufferingFacts
      <4>2. One(HasBuffered(filter))' = 1
        BY <3>3, <4>1 DEF HasBuffered, One
      <4> QED BY <2>0, <2>n, <3>3, <4>2, MessageTimes, AfterBufferingFacts DEF Accounting
    <3>4. CASE filter' = AfterSending(filter, m)
      BY <2>0, <2>n, <2>e, <3>4, MessageTimes, AfterSendingFacts DEF Accounting
    <3> QED BY <3>1, <3>2, <3>3, <3>4
  <2>2. CASE setStopTime
    BY <2>0, <2>n, <2>k, <2>2, MessageTimes, FilterWithStopTimeFacts DEF setStopTime, Accounting
  <2>3. CASE Destroy
    BY <2>0, <2>n, <2>e, <2>3, AfterFlushFacts DEF Destroy, Accounting
  <2>4. CASE UNCHANGED vars
    BY <2>4 DEF vars, Accounting, HasBuffered, One
  <2> QED BY <2>1, <2>2, <2>3, <2>4 DEF Next
<1> QED BY <1>1, <1>2, TypeCorrect, PTL DEF Spec
-----------------------------------------------------------------------------
AtMost(s, t) == \A i \in DOMAIN s : s[i].ts <= t

(* OrderedUnlessCounted is not inductive: that the next message goes after what
   was sent follows from what the filter remembers, the timestamp of the last
   message and the buffered message, which lies between it and what was sent. *)
OrderInv ==
  filter.Unordered = 0 =>
    /\ HasBuffered(filter) =>
         filter.BufferedMessage.ts <= filter.CurrentTimeStamp
    /\ \A d \in Dests :
         /\ Sorted(sent[d])
         /\ AtMost(sent[d], filter.CurrentTimeStamp)
         /\ HasBuffered(filter) => AtMost(sent[d], filter.BufferedMessage.ts)

\* The timestamps of a sequence of messages are comparable.
LEMMA SeqTimesAreInts ==
  ASSUME NEW s \in Seq(Messages)
  PROVE  \A i \in DOMAIN s : s[i].ts \in Int
<1>1. \A i \in DOMAIN s : s[i] \in Messages
  OBVIOUS
<1>2. \A m \in Messages : m.ts \in Int
  BY SourceFilterAssumption DEF Messages
<1> QED BY <1>1, <1>2

\* A message that is not older than a sorted sequence extends it.
LEMMA SortedAppend ==
  ASSUME NEW s \in Seq(Messages), NEW m \in Messages,
         Sorted(s), AtMost(s, m.ts)
  PROVE  /\ Append(s, m) \in Seq(Messages)
         /\ Sorted(Append(s, m))
         /\ AtMost(Append(s, m), m.ts)
<1> DEFINE t == Append(s, m)
<1>1. /\ t \in Seq(Messages) /\ Len(t) = Len(s) + 1
      /\ \A i \in 1..Len(s) : t[i] = s[i]
      /\ t[Len(s) + 1] = m
      /\ DOMAIN t = 1..Len(t) /\ DOMAIN s = 1..Len(s)
  OBVIOUS
<1>2. m.ts \in Int /\ \A i \in DOMAIN s : s[i].ts \in Int
  BY SeqTimesAreInts, SourceFilterAssumption DEF Messages
<1> HIDE DEF t
<1>3. AtMost(t, m.ts)
  BY <1>1, <1>2 DEF AtMost
<1>4. Sorted(t)
  BY <1>1, <1>2 DEF AtMost, Sorted
<1> QED BY <1>1, <1>3, <1>4 DEF t

\* Appending one or two messages is concatenating what Forwarded returns.
LEMMA ConcatAppend ==
  ASSUME NEW s \in Seq(Messages), NEW b \in Messages, NEW m \in Messages
  PROVE  /\ s \o <<b>> = Append(s, b)
         /\ s \o Append(<<>>, m) = Append(s, m)
         /\ s \o Append(<<b>>, m) = Append(Append(s, b), m)
OBVIOUS

\* Timestamps are comparable, the filter's own one included.
LEMMA TimesAreInts ==
  ASSUME NEW f \in FilterType(Messages, Times), NEW m \in Messages
  PROVE  /\ m.ts \in Int
         /\ f.CurrentTimeStamp \in Int
         /\ f.Unordered \in Nat
BY SourceFilterAssumption DEF Messages, FilterType

(* The unordered_timestamp metric misses nothing: as long as it is zero, every
   destination gets its messages in chronological order. *)
THEOREM OrderedCorrect == Spec => []OrderedUnlessCounted
<1>1. Init => OrderInv
  <2> SUFFICES ASSUME Init PROVE OrderInv OBVIOUS
  <2>1. ~HasBuffered(filter)
    BY DEF Init, NewFilter, HasBuffered, NoMessage
  <2>2. \A d \in Dests : sent[d] = <<>>
    BY DEF Init
  <2> QED BY <2>1, <2>2 DEF OrderInv, Sorted, AtMost
<1>2. TypeOK /\ OrderInv /\ [Next]_vars => OrderInv'
  <2> SUFFICES ASSUME TypeOK, OrderInv, [Next]_vars PROVE OrderInv'
    OBVIOUS
  <2>0. filter \in FilterType(Messages, Times) /\ \A d \in Dests : sent[d] \in Seq(Messages)
    BY DEF TypeOK, Times
  <2>1. CASE filterMessage
    <3>1. PICK m \in Messages :
             /\ sent' = [d \in Dests |-> sent[d] \o Forwarded(filter, m)]
             /\ \/ filter' = AfterDrop(filter, m) /\ Forwarded(filter, m) = <<>>
                \/ filter' = AfterBuffering(filter, m)
                   /\ Forwarded(filter, m) = <<>>
                \/ filter' = AfterSending(filter, m)
                   /\ Forwarded(filter, m) = Append(BufferedSeq(filter), m)
      BY <2>1, FilterMessageStep
    <3>2. CASE /\ Forwarded(filter, m) = <<>>
               /\ \/ filter' = AfterDrop(filter, m)
                  \/ filter' = AfterBuffering(filter, m)
      <4>1. \A d \in Dests : sent'[d] = sent[d]
        BY <2>0, <3>1, <3>2
      <4>2. CASE filter' = AfterDrop(filter, m)
        BY <2>0, <4>1, <4>2, AfterDropFacts DEF OrderInv, HasBuffered
      <4>3. CASE filter' = AfterBuffering(filter, m)
        <5> SUFFICES ASSUME filter'.Unordered = 0 PROVE OrderInv'
          BY DEF OrderInv
        <5>1. /\ filter'.BufferedMessage = m
              /\ filter'.CurrentTimeStamp = m.ts
              /\ filter'.Unordered
                   = filter.Unordered + One(IsUnordered(filter, m))
          BY <2>0, <4>3, MessageTimes, AfterBufferingFacts
        <5>2. filter.Unordered = 0 /\ ~IsUnordered(filter, m)
          BY <2>0, <5>1, TimesAreInts DEF One
        <5>3. filter.CurrentTimeStamp <= m.ts /\ m.ts \in Int
                /\ filter.CurrentTimeStamp \in Int
          BY <2>0, <5>2, TimesAreInts DEF IsUnordered
        <5>4. \A d \in Dests : Sorted(sent[d]) /\ AtMost(sent[d], m.ts)
          <6> SUFFICES ASSUME NEW d \in Dests
                       PROVE  Sorted(sent[d]) /\ AtMost(sent[d], m.ts)
            OBVIOUS
          <6>1. \A i \in DOMAIN sent[d] : sent[d][i].ts \in Int
            BY <2>0, SeqTimesAreInts
          <6> QED BY <5>2, <5>3, <6>1 DEF OrderInv, AtMost
        <5>5. \A d \in Dests : Sorted(sent'[d]) /\ AtMost(sent'[d], m.ts)
          BY <4>1, <5>4
        <5> QED BY <5>1, <5>3, <5>5 DEF OrderInv
      <4> QED BY <3>2, <4>2, <4>3
    <3>3. CASE /\ filter' = AfterSending(filter, m)
               /\ Forwarded(filter, m) = Append(BufferedSeq(filter), m)
      <4> SUFFICES ASSUME filter'.Unordered = 0 PROVE OrderInv'
        BY DEF OrderInv
      <4>1. /\ filter'.BufferedMessage = NoMessage
            /\ filter'.CurrentTimeStamp = m.ts
            /\ filter'.Unordered
                 = filter.Unordered + One(IsUnordered(filter, m))
        BY <2>0, <3>3, MessageTimes, AfterSendingFacts
      <4>2. filter.Unordered = 0 /\ ~IsUnordered(filter, m)
        BY <2>0, <4>1, TimesAreInts DEF One
      <4>3. filter.CurrentTimeStamp <= m.ts /\ m.ts \in Int
              /\ filter.CurrentTimeStamp \in Int
        BY <2>0, <4>2, TimesAreInts DEF IsUnordered
      <4>4. ~HasBuffered(filter)'
        BY <4>1 DEF HasBuffered, NoMessage
      <4>5. ASSUME NEW d \in Dests
            PROVE  Sorted(sent'[d]) /\ AtMost(sent'[d], m.ts)
        <5>1. sent'[d] = sent[d] \o Append(BufferedSeq(filter), m)
          BY <3>1, <3>3
        <5>2. sent[d] \in Seq(Messages)
                /\ \A i \in DOMAIN sent[d] : sent[d][i].ts \in Int
          BY <2>0, SeqTimesAreInts
        <5>3. Sorted(sent[d]) /\ AtMost(sent[d], m.ts)
          BY <4>2, <4>3, <5>2 DEF OrderInv, AtMost
        <5>4. CASE ~HasBuffered(filter)
          <6>1. sent'[d] = Append(sent[d], m)
            BY <5>1, <5>2, <5>4, ConcatAppend DEF BufferedSeq
          <6> QED BY <5>2, <5>3, <6>1, SortedAppend
        <5>5. CASE HasBuffered(filter)
          <6> DEFINE b == filter.BufferedMessage
          <6>1. b \in Messages
            BY <2>0, <5>5, BufferedFacts
          <6>2. b.ts \in Int /\ b.ts <= m.ts /\ AtMost(sent[d], b.ts)
            BY <2>0, <4>2, <4>3, <5>5, <6>1, TimesAreInts DEF OrderInv
          <6>3. sent'[d] = Append(Append(sent[d], b), m)
            BY <5>1, <5>2, <5>5, <6>1, ConcatAppend DEF BufferedSeq
          <6> HIDE DEF b
          <6>4. Append(sent[d], b) \in Seq(Messages)
                  /\ Sorted(Append(sent[d], b))
                  /\ AtMost(Append(sent[d], b), b.ts)
            BY <5>2, <5>3, <6>1, <6>2, SortedAppend
          <6>5. \A i \in DOMAIN Append(sent[d], b) :
                   Append(sent[d], b)[i].ts \in Int
            BY <6>4, SeqTimesAreInts
          <6>6. AtMost(Append(sent[d], b), m.ts)
            BY <4>3, <6>2, <6>4, <6>5 DEF AtMost
          <6> QED BY <6>3, <6>4, <6>6, SortedAppend
        <5> QED BY <5>4, <5>5
      <4> QED BY <4>1, <4>4, <4>5 DEF OrderInv
    <3> QED BY <3>1, <3>2, <3>3
  <2>2. CASE setStopTime
    <3>1. /\ filter'.BufferedMessage = filter.BufferedMessage
          /\ filter'.CurrentTimeStamp = filter.CurrentTimeStamp
          /\ filter'.Unordered = filter.Unordered
      BY <2>0, <2>2, MessageTimes, FilterWithStopTimeFacts DEF setStopTime
    <3> QED BY <2>2, <3>1 DEF setStopTime, OrderInv, HasBuffered
  <2>3. CASE Destroy
    <3> SUFFICES ASSUME filter'.Unordered = 0 PROVE OrderInv'
      BY DEF OrderInv
    <3>1. /\ filter'.BufferedMessage = NoMessage
          /\ filter'.CurrentTimeStamp = filter.CurrentTimeStamp
          /\ filter'.Unordered = filter.Unordered
      BY <2>0, <2>3, AfterFlushFacts DEF Destroy
    <3>2. ~HasBuffered(filter)' /\ filter.Unordered = 0
      BY <3>1 DEF HasBuffered, NoMessage
    <3>3. ASSUME NEW d \in Dests
          PROVE  Sorted(sent'[d]) /\ AtMost(sent'[d], filter.CurrentTimeStamp)
      <4>1. sent'[d] = sent[d] \o BufferedSeq(filter)
              /\ sent[d] \in Seq(Messages)
        BY <2>0, <2>3 DEF Destroy, Send
      <4>2. CASE ~HasBuffered(filter)
        <5>1. sent'[d] = sent[d]
          BY <4>1, <4>2 DEF BufferedSeq
        <5> QED BY <3>2, <5>1 DEF OrderInv
      <4>3. CASE HasBuffered(filter)
        <5> DEFINE b == filter.BufferedMessage
        <5>1. b \in Messages
          BY <2>0, <4>3, BufferedFacts
        <5>2. /\ b.ts \in Int /\ filter.CurrentTimeStamp \in Int
              /\ b.ts <= filter.CurrentTimeStamp
              /\ Sorted(sent[d]) /\ AtMost(sent[d], b.ts)
          BY <2>0, <3>2, <4>3, <5>1, TimesAreInts DEF OrderInv
        <5>3. sent'[d] = Append(sent[d], b)
          BY <4>1, <4>3, <5>1, ConcatAppend DEF BufferedSeq
        <5> HIDE DEF b
        <5>4. sent'[d] \in Seq(Messages) /\ Sorted(sent'[d])
                /\ AtMost(sent'[d], b.ts)
          BY <4>1, <5>1, <5>2, <5>3, SortedAppend
        <5>5. \A i \in DOMAIN sent'[d] : sent'[d][i].ts \in Int
          BY <5>4, SeqTimesAreInts
        <5> QED BY <5>2, <5>4, <5>5 DEF AtMost
      <4> QED BY <4>2, <4>3
    <3> QED BY <3>1, <3>2, <3>3 DEF OrderInv
  <2>4. CASE UNCHANGED vars
    BY <2>4 DEF vars, OrderInv, HasBuffered
  <2> QED BY <2>1, <2>2, <2>3, <2>4 DEF Next
<1>3. OrderInv => OrderedUnlessCounted
  BY DEF OrderInv, OrderedUnlessCounted
<1> QED BY <1>1, <1>2, <1>3, TypeCorrect, PTL DEF Spec
-----------------------------------------------------------------------------
(* RecordsExactly. The operators it is stated with, for any input s and value w
   of WriteRepeatedTimestamps. *)

Prev(s, i) ==
  LET earlier == {j \in 1..(i - 1) : s[j].valid}
  IN  IF earlier = {} THEN 0 ELSE s[Max(earlier)].ts

Acc(s, w, i) == s[i].valid /\ (w \/ s[i].ts # Prev(s, i))
Win(s, w, i) == Acc(s, w, i) /\ MsgTime(s[i]) >= Start

\* The last message that was accepted.
LastAcc(s, w, i) ==
  i \in 1..Len(s) /\ Acc(s, w, i) /\ \A j \in (i + 1)..Len(s) : ~Acc(s, w, j)

\* A message of the window is the next one that was accepted.
Follows(s, w, i) ==
  /\ Acc(s, w, i)
  /\ \E j \in (i + 1)..Len(s) :
       Win(s, w, j) /\ \A k \in (i + 1)..(j - 1) : ~Acc(s, w, k)

\* What a filter that is alive has passed on.
PassedOn(s, w) == {i \in 1..Len(s) : Win(s, w, i) \/ Follows(s, w, i)}

\* Some valid message is the last one.
LEMMA GreatestOf ==
  ASSUME NEW n \in Nat, NEW T, T \subseteq 1..n, T # {}
  PROVE  /\ Max(T) \in T
         /\ \A g \in T : (\A y \in T : y <= g) => Max(T) = g
<1> DEFINE D == {k \in Nat : n - k \in T}
<1>1. \A j \in T : n - j \in D
  <2> SUFFICES ASSUME NEW j \in T PROVE n - j \in D
    OBVIOUS
  <2>1. n - j \in Nat /\ n - (n - j) = j
    OBVIOUS
  <2> QED BY <2>1
<1>2. PICK k \in D : \A l \in D : k <= l
  <2>1. D \subseteq Nat /\ D # {}
    BY <1>1
  <2> HIDE DEF D
  <2> QED BY <2>1, LeastNat
<1>3. n - k \in T /\ \A y \in T : n - k >= y
  <2>1. n - k \in T /\ k \in Nat
    BY <1>2
  <2>2. ASSUME NEW y \in T PROVE n - k >= y
    <3>1. n - y \in D
      BY <1>1
    <3> HIDE DEF D
    <3>2. k <= n - y
      BY <1>2, <3>1
    <3>3. y \in Nat
      OBVIOUS
    <3> QED BY <2>1, <3>2, <3>3
  <2> QED BY <2>1, <2>2
<1>4. Max(T) \in T /\ \A y \in T : Max(T) >= y
  BY <1>3 DEF Max
<1>5. ASSUME NEW g \in T, \A y \in T : y <= g PROVE Max(T) = g
  <2>1. PICK x \in T : x = Max(T)
    BY <1>4
  <2>2. x \in Int /\ g \in Int
    OBVIOUS
  <2>3. x <= g /\ x >= g
    BY <1>4, <1>5, <2>1
  <2> QED BY <2>1, <2>2, <2>3
<1> QED BY <1>4, <1>5

\* What came before a message does not change, and the message becomes part of it.
LEMMA PrevAppend ==
  ASSUME NEW s \in Seq(Messages), NEW m \in Messages
  PROVE  /\ \A i \in 1..(Len(s) + 1) : Prev(Append(s, m), i) = Prev(s, i)
         /\ Prev(Append(s, m), Len(s) + 2) = IF m.valid THEN m.ts ELSE Prev(s, Len(s) + 1)
<1> DEFINE t == Append(s, m)
           L == Len(s)
           Before(q, i) == {j \in 1..(i - 1) : q[j].valid}
<1>0. L \in Nat /\ t[L + 1] = m /\ \A j \in 1..L : t[j] = s[j]
  OBVIOUS
<1>1. \A q, i : Prev(q, i) = IF Before(q, i) = {} THEN 0 ELSE q[Max(Before(q, i))].ts
  BY DEF Prev
<1> HIDE DEF t, L
<1>2. ASSUME NEW i \in 1..(L + 1) PROVE Prev(t, i) = Prev(s, i)
  <2>1. \A j \in 1..(i - 1) : j \in 1..L
    BY <1>0
  <2>2. Before(t, i) = Before(s, i)
    BY <1>0, <2>1
  <2>3. Before(s, i) # {} => Max(Before(s, i)) \in 1..L
    <3>1. Before(s, i) \subseteq 1..L
      BY <2>1
    <3> HIDE DEF Before
    <3> QED BY <1>0, <3>1, GreatestOf
  <2> HIDE DEF Before
  <2> QED BY <1>0, <1>1, <2>2, <2>3
<1>3. Prev(t, L + 2) = IF m.valid THEN m.ts ELSE Prev(s, L + 1)
  <2> DEFINE B == Before(t, L + 2)
  <2>1. \A j : j \in 1..((L + 2) - 1) <=> j \in 1..((L + 1) - 1) \/ j = L + 1
    BY <1>0
  <2>2. \A j \in 1..((L + 1) - 1) : j \in 1..L
    BY <1>0
  <2>3. B \subseteq 1..(L + 1) /\ L + 1 \in Nat
    BY <1>0
  <2>4. CASE m.valid
    <3>1. L + 1 \in B
      BY <1>0, <2>1, <2>4
    <3>2. \A y \in B : y <= L + 1
      BY <2>3, <1>0
    <3> HIDE DEF B
    <3>3. B # {} /\ Max(B) = L + 1
      BY <2>3, <3>1, <3>2, GreatestOf
    <3>4. Prev(t, L + 2) = IF B = {} THEN 0 ELSE t[Max(B)].ts
      BY <1>1 DEF B
    <3> QED BY <1>0, <2>4, <3>3, <3>4
  <2>5. CASE ~m.valid
    <3>1. B = Before(t, L + 1)
      BY <1>0, <2>1, <2>5
    <3>2. Prev(t, L + 2) = Prev(t, L + 1)
      <4> HIDE DEF Before
      <4> QED BY <1>1, <3>1
    <3>3. L + 1 \in 1..(L + 1)
      BY <1>0
    <3> QED BY <1>2, <2>5, <3>2, <3>3
  <2> QED BY <2>4, <2>5
<1> QED BY <1>2, <1>3 DEF t, L

\* Messages that were received keep their verdicts, and the new one gets its own.
LEMMA AccAppend ==
  ASSUME NEW s \in Seq(Messages), NEW m \in Messages, NEW w
  PROVE  /\ \A i \in 1..Len(s) : /\ Acc(Append(s, m), w, i) <=> Acc(s, w, i)
                                 /\ Win(Append(s, m), w, i) <=> Win(s, w, i)
         /\ Acc(Append(s, m), w, Len(s) + 1)
              <=> m.valid /\ (w \/ m.ts # Prev(s, Len(s) + 1))
         /\ Win(Append(s, m), w, Len(s) + 1)
              <=> Acc(Append(s, m), w, Len(s) + 1) /\ MsgTime(m) >= Start
         /\ Len(Append(s, m)) = Len(s) + 1 /\ Len(s) \in Nat
<1> DEFINE t == Append(s, m)
           L == Len(s)
<1>0. L \in Nat /\ Len(t) = L + 1 /\ t[L + 1] = m /\ \A j \in 1..L : t[j] = s[j]
  OBVIOUS
<1>1. \A i \in 1..(L + 1) : Prev(t, i) = Prev(s, i)
  BY PrevAppend
<1>2. L + 1 \in 1..(L + 1) /\ \A i \in 1..L : i \in 1..(L + 1)
  BY <1>0
<1> HIDE DEF t, L
<1>3. \A i \in 1..L : Acc(t, w, i) <=> Acc(s, w, i)
  BY <1>0, <1>1, <1>2 DEF Acc
<1>4. \A i \in 1..L : Win(t, w, i) <=> Win(s, w, i)
  BY <1>0, <1>3 DEF Win
<1>5. Acc(t, w, L + 1) <=> m.valid /\ (w \/ m.ts # Prev(s, L + 1))
  BY <1>0, <1>1, <1>2 DEF Acc
<1>6. Win(t, w, L + 1) <=> Acc(t, w, L + 1) /\ MsgTime(m) >= Start
  BY <1>0 DEF Win
<1> QED BY <1>0, <1>3, <1>4, <1>5, <1>6 DEF t, L

(* What has to be passed on after one more message: nothing new, unless it is in
   the window; then itself and the last one that was accepted before it. *)
LEMMA PassedOnAppend ==
  ASSUME NEW s \in Seq(Messages), NEW t, NEW L \in Nat, Len(s) = L, Len(t) = L + 1, NEW w,
         \A i \in 1..L : (Acc(t, w, i) <=> Acc(s, w, i)) /\ (Win(t, w, i) <=> Win(s, w, i))
  PROVE  /\ ~Acc(t, w, L + 1) => \A i : LastAcc(t, w, i) <=> LastAcc(s, w, i)
         /\ Acc(t, w, L + 1) => \A i : LastAcc(t, w, i) <=> i = L + 1
         /\ ~Win(t, w, L + 1) => PassedOn(t, w) = PassedOn(s, w)
         /\ Win(t, w, L + 1) =>
              \A i : i \in PassedOn(t, w)
                       <=> i \in PassedOn(s, w) \/ i = L + 1 \/ LastAcc(s, w, i)
<1>1. /\ \A i : i \in 1..(L + 1) <=> i \in 1..L \/ i = L + 1
      /\ L + 1 \notin 1..L
      /\ \A i \in 1..L : \A j : j \in (i + 1)..(L + 1) <=> j \in (i + 1)..L \/ j = L + 1
      /\ \A i \in 1..L : \A j \in (i + 1)..L : j \in 1..L
      /\ \A j : j \notin ((L + 1) + 1)..(L + 1)
      /\ \A i \in 1..L : (i + 1)..((L + 1) - 1) = (i + 1)..L
      /\ \A i \in 1..L : \A j \in (i + 1)..L : \A k \in (i + 1)..(j - 1) : k \in 1..L
  OBVIOUS
<1>2. ASSUME ~Acc(t, w, L + 1), NEW i PROVE LastAcc(t, w, i) <=> LastAcc(s, w, i)
  BY <1>1, <1>2 DEF LastAcc
<1>3. ASSUME Acc(t, w, L + 1), NEW i PROVE LastAcc(t, w, i) <=> i = L + 1
  BY <1>1, <1>3 DEF LastAcc
<1>4. ASSUME NEW i \in 1..L
      PROVE  Follows(t, w, i) <=> Follows(s, w, i) \/ (Win(t, w, L + 1) /\ LastAcc(s, w, i))
  <2> DEFINE Meets(q, j) == Win(q, w, j) /\ \A k \in (i + 1)..(j - 1) : ~Acc(q, w, k)
  <2>1. \A j \in (i + 1)..L : Meets(t, j) <=> Meets(s, j)
    BY <1>1
  <2>2. Meets(t, L + 1) <=> Win(t, w, L + 1) /\ \A k \in (i + 1)..L : ~Acc(s, w, k)
    BY <1>1
  <2>3. Follows(t, w, i) <=> Acc(s, w, i) /\ \E j \in (i + 1)..(L + 1) : Meets(t, j)
    BY DEF Follows
  <2>4. Follows(s, w, i) <=> Acc(s, w, i) /\ \E j \in (i + 1)..L : Meets(s, j)
    BY DEF Follows
  <2> HIDE DEF Meets
  <2>5. (\E j \in (i + 1)..(L + 1) : Meets(t, j))
          <=> (\E j \in (i + 1)..L : Meets(s, j)) \/ Meets(t, L + 1)
    BY <1>1, <2>1
  <2> QED BY <2>2, <2>3, <2>4, <2>5 DEF LastAcc
<1>5. ~Follows(t, w, L + 1)
  BY <1>1 DEF Follows
<1>6. /\ \A i : i \in PassedOn(t, w) <=> i \in 1..(L + 1) /\ (Win(t, w, i) \/ Follows(t, w, i))
      /\ \A i : i \in PassedOn(s, w) <=> i \in 1..L /\ (Win(s, w, i) \/ Follows(s, w, i))
  BY DEF PassedOn
<1>7. \A i : LastAcc(s, w, i) => i \in 1..L
  BY DEF LastAcc
<1>8. ASSUME NEW i
      PROVE  i \in PassedOn(t, w) <=>
               i \in PassedOn(s, w) \/ (Win(t, w, L + 1) /\ (i = L + 1 \/ LastAcc(s, w, i)))
  <2>1. CASE i \in 1..L
    <3>1. i # L + 1 /\ i \in 1..(L + 1) /\ (Win(t, w, i) <=> Win(s, w, i))
      BY <1>1, <2>1
    <3>2. Follows(t, w, i) <=> Follows(s, w, i) \/ (Win(t, w, L + 1) /\ LastAcc(s, w, i))
      BY <1>4, <2>1
    <3> QED BY <1>6, <2>1, <3>1, <3>2
  <2>2. CASE i \notin 1..L
    BY <1>1, <1>5, <1>6, <1>7, <2>2
  <2> QED BY <2>1, <2>2
<1>9. ASSUME ~Win(t, w, L + 1) PROVE PassedOn(t, w) = PassedOn(s, w)
  <2>1. \A i : i \in PassedOn(t, w) <=> i \in PassedOn(s, w)
    BY <1>8, <1>9
  <2> QED BY <2>1
<1> QED BY <1>2, <1>3, <1>8, <1>9

\* A message that waits came after all that were passed on.
LEMMA LastComesLast ==
  ASSUME NEW s \in Seq(Messages), NEW w, NEW b, LastAcc(s, w, b), ~Win(s, w, b)
  PROVE  b \in 1..Len(s) /\ \A i \in PassedOn(s, w) : i < b
<1>1. Len(s) \in Nat /\ b \in 1..Len(s) /\ \A j \in (b + 1)..Len(s) : ~Acc(s, w, j)
  BY DEF LastAcc
<1>2. ASSUME NEW i \in PassedOn(s, w) PROVE i < b
  <2>1. i \in 1..Len(s) /\ Acc(s, w, i) /\ (Win(s, w, i) \/ Follows(s, w, i))
    BY DEF PassedOn, Win, Follows
  <2>2. ~(i \in (b + 1)..Len(s))
    BY <1>1, <2>1
  <2>3. ~Follows(s, w, b)
    BY <1>1 DEF Follows, Win
  <2>4. i # b
    BY <2>1, <2>3
  <2> QED BY <1>1, <2>1, <2>2, <2>4
<1> QED BY <1>1, <1>2

-----------------------------------------------------------------------------
Ids(q) == {q[k].id : k \in DOMAIN q}
Increasing(q) == \A j, k \in DOMAIN q : j < k => q[j].id < q[k].id

\* A message is queued for a destination after all that were received before it.
LEMMA IdsAppend ==
  ASSUME NEW q \in Seq(Messages), NEW m \in Messages, Increasing(q),
         \A x \in Ids(q) : x < m.id
  PROVE  /\ Append(q, m) \in Seq(Messages) /\ Increasing(Append(q, m))
         /\ \A x : x \in Ids(Append(q, m)) <=> x \in Ids(q) \/ x = m.id
<1> DEFINE t == Append(q, m)
           L == Len(q)
<1>0. /\ L \in Nat /\ t \in Seq(Messages) /\ DOMAIN q = 1..L /\ DOMAIN t = 1..(L + 1)
      /\ t[L + 1] = m /\ \A j \in 1..L : t[j] = q[j]
  OBVIOUS
<1>1. \A i : i \in 1..(L + 1) <=> i \in 1..L \/ i = L + 1
  BY <1>0
<1>2. L + 1 \notin 1..L /\ \A j \in 1..(L + 1) : ~(L + 1 < j)
  BY <1>0
<1>3. \A j \in 1..L : q[j].id < m.id
  BY <1>0 DEF Ids
<1> HIDE DEF t, L
<1>4. Increasing(t)
  BY <1>0, <1>1, <1>2, <1>3 DEF Increasing
<1>5. \A x : x \in Ids(t) <=> x \in Ids(q) \/ x = m.id
  BY <1>0, <1>1, <1>2 DEF Ids
<1> QED BY <1>0, <1>4, <1>5 DEF t

\* No message changes the options of a filter.
LEMMA OptionsStay ==
  ASSUME NEW f \in FilterType(Messages, Times), NEW m, NEW g,
         g = AfterDrop(f, m) \/ g = AfterBuffering(f, m) \/ g = AfterSending(f, m)
           \/ g = AfterFlush(f) \/ \E stop : g = FilterWithStopTime(f, stop)
  PROVE  g.Start = f.Start /\ g.WriteRepeatedTimestamps = f.WriteRepeatedTimestamps
<1>1. CASE g = AfterDrop(f, m)
  BY <1>1 DEF AfterDrop, FilterType
<1>2. CASE g = AfterBuffering(f, m)
  BY <1>2 DEF AfterBuffering, FilterType
<1>3. CASE g = AfterSending(f, m)
  BY <1>3 DEF AfterSending, FilterType
<1>4. CASE g = AfterFlush(f)
  BY <1>4 DEF AfterFlush, FilterType
<1>5. CASE \E stop : g = FilterWithStopTime(f, stop)
  BY <1>5 DEF FilterWithStopTime, FilterType
<1> QED BY <1>1, <1>2, <1>3, <1>4, <1>5

\* The message that waits is the last one accepted; without one, that was sent.
LastIsKnown(f, s) ==
  LET w == f.WriteRepeatedTimestamps
  IN  IF HasBuffered(f)
      THEN LastAcc(s, w, f.BufferedMessage.id) /\ ~Win(s, w, f.BufferedMessage.id)
      ELSE \A i : LastAcc(s, w, i) => Win(s, w, i)

\* Only one message is the last one.
LEMMA OneLast ==
  ASSUME NEW s \in Seq(Messages), NEW w, NEW i, NEW j, LastAcc(s, w, i), LastAcc(s, w, j)
  PROVE  i = j
<1>1. Len(s) \in Nat /\ i \in 1..Len(s) /\ j \in 1..Len(s)
  BY DEF LastAcc
<1>2. i \notin (j + 1)..Len(s) /\ j \notin (i + 1)..Len(s)
  BY DEF LastAcc
<1> QED BY <1>1, <1>2

\* A filterMessage step in its three cases, with the number of the message.
LEMMA NumberedStep ==
  ASSUME TypeOK, filterMessage
  PROVE  alive /\ alive' /\ \E m \in Messages :
           /\ m.id = Len(in) + 1 /\ in' = Append(in, m)
           /\ sent' = [d \in Dests |-> sent[d] \o Forwarded(filter, m)]
           /\ \/ /\ IsDropped(filter, m)
                 /\ filter' = AfterDrop(filter, m) /\ Forwarded(filter, m) = <<>>
              \/ /\ ~IsDropped(filter, m) /\ IsBeforeStart(filter, m)
                 /\ filter' = AfterBuffering(filter, m) /\ Forwarded(filter, m) = <<>>
              \/ /\ ~IsDropped(filter, m) /\ ~IsBeforeStart(filter, m)
                 /\ filter' = AfterSending(filter, m)
                 /\ Forwarded(filter, m) = Append(BufferedSeq(filter), m)
<1>1. PICK ts \in TimeStamps, valid \in BOOLEAN :
         LET m == [id |-> Len(in) + 1, ts |-> ts, valid |-> valid]
         IN  /\ filter' = AfterMessage(filter, m)
             /\ Send(Forwarded(filter, m))
             /\ in' = Append(in, m)
  BY DEF filterMessage
<1> DEFINE m == [id |-> Len(in) + 1, ts |-> ts, valid |-> valid]
<1>2. m \in Messages /\ m.id = Len(in) + 1
  BY DEF TypeOK, Messages
<1>3. /\ filter' = AfterMessage(filter, m)
      /\ sent' = [d \in Dests |-> sent[d] \o Forwarded(filter, m)]
      /\ in' = Append(in, m)
  BY <1>1 DEF Send
<1>4. alive /\ alive'
  BY DEF filterMessage
<1> HIDE DEF m
<1>5. CASE IsDropped(filter, m)
  BY <1>2, <1>3, <1>4, <1>5 DEF AfterMessage, Forwarded
<1>6. CASE ~IsDropped(filter, m) /\ IsBeforeStart(filter, m)
  BY <1>2, <1>3, <1>4, <1>6 DEF AfterMessage, Forwarded
<1>7. CASE ~IsDropped(filter, m) /\ ~IsBeforeStart(filter, m)
  BY <1>2, <1>3, <1>4, <1>7 DEF AfterMessage, Forwarded
<1> QED BY <1>5, <1>6, <1>7
\* What the filter remembers agrees with its input s.
Remembers(f, s) ==
  f.Start = Start /\ f.CurrentTimeStamp = Prev(s, Len(s) + 1) /\ LastIsKnown(f, s)

\* A message that is dropped was not accepted.
LEMMA DropRemembers ==
  ASSUME NEW s \in Seq(Messages), NEW m \in Messages, m.id = Len(s) + 1,
         NEW f \in FilterType(Messages, Times), Remembers(f, s), IsDropped(f, m),
         NEW g, g = AfterDrop(f, m), NEW w, w = f.WriteRepeatedTimestamps
  PROVE  /\ Remembers(g, Append(s, m)) /\ g.WriteRepeatedTimestamps = w
         /\ PassedOn(Append(s, m), w) = PassedOn(s, w)
<1> DEFINE t == Append(s, m)
           L == Len(s)
<1>1. /\ g.Start = Start /\ g.WriteRepeatedTimestamps = w
      /\ g.CurrentTimeStamp = f.CurrentTimeStamp /\ g.BufferedMessage = f.BufferedMessage
  BY OptionsStay, AfterDropFacts DEF Remembers
<1>2. L \in Nat /\ Len(s) = L /\ Len(t) = L + 1 /\ (L + 1) + 1 = L + 2
  OBVIOUS
<1>3. ~m.valid \/ (m.ts = Prev(s, L + 1) /\ ~w)
  BY DEF IsDropped, IsRepeated, Remembers
<1>a. t[L + 1] = m /\ Prev(t, L + 1) = Prev(s, L + 1)
  BY PrevAppend
<1>4. ~Acc(t, w, L + 1)
  BY <1>3, <1>a DEF Acc
<1>5. \A i \in 1..L : (Acc(t, w, i) <=> Acc(s, w, i)) /\ (Win(t, w, i) <=> Win(s, w, i))
  BY AccAppend
<1>6. Prev(t, L + 2) = Prev(s, L + 1)
  BY <1>3, PrevAppend
<1> HIDE DEF t, L
<1>7. ~Win(t, w, L + 1)
  BY <1>4 DEF Win
<1>p. /\ ~Acc(t, w, L + 1) => \A i : LastAcc(t, w, i) <=> LastAcc(s, w, i)
      /\ ~Win(t, w, L + 1) => PassedOn(t, w) = PassedOn(s, w)
  BY <1>2, <1>5, PassedOnAppend
<1>8. /\ \A i : LastAcc(t, w, i) <=> LastAcc(s, w, i)
      /\ PassedOn(t, w) = PassedOn(s, w)
  BY <1>4, <1>7, <1>p
<1>9. \A i : LastAcc(s, w, i) => i \in 1..L
  BY DEF LastAcc, L
<1>10. LastIsKnown(g, t)
  BY <1>1, <1>5, <1>8, <1>9 DEF Remembers, LastIsKnown, HasBuffered
<1>11. g.CurrentTimeStamp = Prev(t, Len(t) + 1)
  BY <1>1, <1>2, <1>6 DEF Remembers, L
<1> QED BY <1>1, <1>8, <1>10, <1>11 DEF Remembers, t

\* A message from before the window is accepted and waits.
LEMMA BufferingRemembers ==
  ASSUME NEW s \in Seq(Messages), NEW m \in Messages, m.id = Len(s) + 1,
         NEW f \in FilterType(Messages, Times), Remembers(f, s),
         ~IsDropped(f, m), IsBeforeStart(f, m),
         NEW g, g = AfterBuffering(f, m), NEW w, w = f.WriteRepeatedTimestamps
  PROVE  /\ Remembers(g, Append(s, m)) /\ g.WriteRepeatedTimestamps = w
         /\ PassedOn(Append(s, m), w) = PassedOn(s, w)
<1> DEFINE t == Append(s, m)
           L == Len(s)
<1>0. m.ts \in Int
  BY MessageTimes
<1>1. /\ g.Start = Start /\ g.WriteRepeatedTimestamps = w
      /\ g.CurrentTimeStamp = m.ts /\ g.BufferedMessage = m
  <2>1. g.Start = f.Start /\ g.WriteRepeatedTimestamps = f.WriteRepeatedTimestamps
    BY OptionsStay
  <2>2. f.Start = Start
    BY DEF Remembers
  <2>3. g.CurrentTimeStamp = m.ts /\ g.BufferedMessage = m
    BY <1>0, AfterBufferingFacts
  <2> QED BY <2>1, <2>2, <2>3
<1>2. L \in Nat /\ Len(s) = L /\ Len(t) = L + 1 /\ (L + 1) + 1 = L + 2
  OBVIOUS
<1>3. m.valid /\ (m.ts # Prev(s, L + 1) \/ w)
  BY DEF IsDropped, IsRepeated, Remembers
<1>4. Acc(t, w, L + 1)
  BY <1>3, AccAppend
<1>5. \A i \in 1..L : (Acc(t, w, i) <=> Acc(s, w, i)) /\ (Win(t, w, i) <=> Win(s, w, i))
  BY AccAppend
<1>6. Prev(t, L + 2) = m.ts
  BY <1>3, PrevAppend
<1>7. ~Win(t, w, L + 1)
  <2>1. MsgTime(m) \in Int /\ Start \in Int
    BY <1>0, NsPerTickAssumption, SourceFilterAssumption DEF MsgTime
  <2>2. ~(MsgTime(m) >= Start)
    BY <2>1 DEF IsBeforeStart, Remembers
  <2> QED BY <2>2, AccAppend
<1> HIDE DEF t, L
<1>p. Acc(t, w, L + 1) => \A i : LastAcc(t, w, i) <=> i = L + 1
  BY <1>2, <1>5, PassedOnAppend
<1>q. ~Win(t, w, L + 1) => PassedOn(t, w) = PassedOn(s, w)
  BY <1>2, <1>5, PassedOnAppend
<1>8. /\ \A i : LastAcc(t, w, i) <=> i = L + 1
      /\ PassedOn(t, w) = PassedOn(s, w)
  BY <1>4, <1>7, <1>p, <1>q
<1>9. LastAcc(t, w, m.id) /\ ~Win(t, w, m.id)
  BY <1>7, <1>8 DEF L
<1>10. LastIsKnown(g, t)
  BY <1>1, <1>3, <1>9 DEF LastIsKnown, HasBuffered
<1>11. g.CurrentTimeStamp = Prev(t, Len(t) + 1)
  BY <1>1, <1>2, <1>6
<1> QED BY <1>1, <1>8, <1>10, <1>11 DEF Remembers, t

\* A message of the window is passed on, and the last accepted one before it.
LEMMA SendingRemembers ==
  ASSUME NEW s \in Seq(Messages), NEW m \in Messages, m.id = Len(s) + 1,
         NEW f \in FilterType(Messages, Times), Remembers(f, s),
         ~IsDropped(f, m), ~IsBeforeStart(f, m),
         NEW g, g = AfterSending(f, m), NEW w, w = f.WriteRepeatedTimestamps
  PROVE  /\ Remembers(g, Append(s, m)) /\ g.WriteRepeatedTimestamps = w
         /\ \A i : i \in PassedOn(Append(s, m), w)
                     <=> i \in PassedOn(s, w) \/ i = m.id \/ LastAcc(s, w, i)
<1> DEFINE t == Append(s, m)
           L == Len(s)
<1>0. m.ts \in Int
  BY MessageTimes
<1>1. /\ g.Start = Start /\ g.WriteRepeatedTimestamps = w
      /\ g.CurrentTimeStamp = m.ts /\ g.BufferedMessage = NoMessage
  <2>1. g.Start = f.Start /\ g.WriteRepeatedTimestamps = f.WriteRepeatedTimestamps
    BY OptionsStay
  <2>2. f.Start = Start
    BY DEF Remembers
  <2>3. g.CurrentTimeStamp = m.ts /\ g.BufferedMessage = NoMessage
    BY <1>0, AfterSendingFacts
  <2> QED BY <2>1, <2>2, <2>3
<1>2. L \in Nat /\ Len(s) = L /\ Len(t) = L + 1 /\ (L + 1) + 1 = L + 2
  OBVIOUS
<1>3. m.valid /\ (m.ts # Prev(s, L + 1) \/ w)
  BY DEF IsDropped, IsRepeated, Remembers
<1>4. Acc(t, w, L + 1)
  BY <1>3, AccAppend
<1>5. \A i \in 1..L : (Acc(t, w, i) <=> Acc(s, w, i)) /\ (Win(t, w, i) <=> Win(s, w, i))
  BY AccAppend
<1>6. Prev(t, L + 2) = m.ts
  BY <1>3, PrevAppend
<1>7. Win(t, w, L + 1)
  <2>1. MsgTime(m) \in Int /\ Start \in Int
    BY <1>0, NsPerTickAssumption, SourceFilterAssumption DEF MsgTime
  <2>2. MsgTime(m) >= Start
    BY <2>1 DEF IsBeforeStart, Remembers
  <2> QED BY <1>4, <2>2, AccAppend
<1> HIDE DEF t, L
<1>p. /\ Acc(t, w, L + 1) => \A i : LastAcc(t, w, i) <=> i = L + 1
      /\ Win(t, w, L + 1) =>
           \A i : i \in PassedOn(t, w)
                    <=> i \in PassedOn(s, w) \/ i = L + 1 \/ LastAcc(s, w, i)
  BY <1>2, <1>5, PassedOnAppend
<1>8. /\ \A i : LastAcc(t, w, i) <=> i = L + 1
      /\ \A i : i \in PassedOn(t, w)
                  <=> i \in PassedOn(s, w) \/ i = L + 1 \/ LastAcc(s, w, i)
  BY <1>4, <1>7, <1>p
<1>10. LastIsKnown(g, t)
  BY <1>1, <1>7, <1>8 DEF LastIsKnown, HasBuffered, NoMessage
<1>11. g.CurrentTimeStamp = Prev(t, Len(t) + 1)
  BY <1>1, <1>2, <1>6
<1> QED BY <1>1, <1>8, <1>10, <1>11 DEF Remembers, t, L

\* A destination has what was passed on, in the order it was received.
Delivered(q, s, w) == Increasing(q) /\ \A x : x \in Ids(q) <=> x \in PassedOn(s, w)

\* After the message that waits was queued, a destination also has the last one.
LEMMA QueueBuffered ==
  ASSUME NEW s \in Seq(Messages), NEW f \in FilterType(Messages, Times), LastIsKnown(f, s),
         NEW w, w = f.WriteRepeatedTimestamps, NEW q \in Seq(Messages), Delivered(q, s, w)
  PROVE  /\ q \o BufferedSeq(f) \in Seq(Messages) /\ Increasing(q \o BufferedSeq(f))
         /\ \A x : x \in Ids(q \o BufferedSeq(f))
                     <=> x \in PassedOn(s, w) \/ LastAcc(s, w, x)
<1>1. CASE HasBuffered(f)
  <2> DEFINE b == f.BufferedMessage
  <2>1. b \in Messages /\ LastAcc(s, w, b.id) /\ ~Win(s, w, b.id)
    BY <1>1, BufferedFacts DEF LastIsKnown
  <2>2. BufferedSeq(f) = <<b>>
    BY <1>1 DEF BufferedSeq
  <2> HIDE DEF b
  <2>3. \A i \in PassedOn(s, w) : i < b.id
    BY <2>1, LastComesLast
  <2>4. q \o BufferedSeq(f) = Append(q, b)
    BY <2>1, <2>2, ConcatAppend
  <2>5. \A x : LastAcc(s, w, x) <=> x = b.id
    BY <2>1, OneLast
  <2>6. Increasing(q) /\ \A x \in Ids(q) : x < b.id
    BY <2>3 DEF Delivered
  <2>7. /\ Append(q, b) \in Seq(Messages) /\ Increasing(Append(q, b))
        /\ \A x : x \in Ids(Append(q, b)) <=> x \in Ids(q) \/ x = b.id
    BY <2>1, <2>6, IdsAppend
  <2> QED BY <2>4, <2>5, <2>7 DEF Delivered
<1>2. CASE ~HasBuffered(f)
  <2>1. q \o BufferedSeq(f) = q
    BY <1>2 DEF BufferedSeq
  <2>2. \A x : LastAcc(s, w, x) => x \in PassedOn(s, w)
    BY <1>2 DEF LastIsKnown, LastAcc, PassedOn
  <2> QED BY <2>1, <2>2 DEF Delivered
<1> QED BY <1>1, <1>2
(* RecordsExactly is not inductive: it needs that the filter, as long as it
   lives, remembers the timestamp of the last valid message and, unless that was
   sent, the last message it accepted. Its destructor passes that one on. *)
RecordInv ==
  LET w == filter.WriteRepeatedTimestamps
  IN  /\ filter.Start = Start
      /\ alive => Remembers(filter, in)
      /\ \A d \in Dests :
           /\ Increasing(sent[d])
           /\ \A x : x \in Ids(sent[d]) <=>
                       x \in PassedOn(in, w) \/ (~alive /\ LastAcc(in, w, x))

\* A new filter has received nothing and remembers nothing.
LEMMA InitRecords == Init => RecordInv
<1> SUFFICES ASSUME Init PROVE RecordInv OBVIOUS
<1>1. PICK stop \in StopTimes, repeats \in AcceptsRepeated :
         filter = NewFilter(Start, stop, repeats)
  BY DEF Init
<1>2. filter.Start = Start /\ filter.CurrentTimeStamp = 0 /\ ~HasBuffered(filter)
  BY <1>1 DEF NewFilter, HasBuffered, NoMessage
<1>3. alive /\ in = <<>> /\ \A d \in Dests : sent[d] = <<>>
  BY DEF Init
<1>4. Len(in) = 0 /\ 1..0 = {} /\ (0 + 1) - 1 = 0
  BY <1>3
<1>5. Prev(in, Len(in) + 1) = 0
  <2>1. {j \in 1..((Len(in) + 1) - 1) : in[j].valid} = {}
    BY <1>4
  <2> QED BY <2>1 DEF Prev
<1>6. \A w, i : ~LastAcc(in, w, i)
  BY <1>4 DEF LastAcc
<1>7. \A w, i : i \notin PassedOn(in, w)
  BY <1>4 DEF PassedOn
<1>8. Remembers(filter, in)
  BY <1>2, <1>5, <1>6 DEF Remembers, LastIsKnown
<1>9. Increasing(<<>>) /\ \A x : x \notin Ids(<<>>)
  BY DEF Increasing, Ids
<1> QED BY <1>2, <1>3, <1>7, <1>8, <1>9 DEF RecordInv

\* filterMessage, in its three cases.
LEMMA MessageRecords ==
  ASSUME TypeOK, RecordInv, filterMessage
  PROVE  RecordInv'
<1> DEFINE w == filter.WriteRepeatedTimestamps
<1>0. filter \in FilterType(Messages, Times) /\ in \in Seq(Messages)
        /\ \A d \in Dests : sent[d] \in Seq(Messages)
  BY DEF TypeOK, Times
<1>1. alive /\ alive'
  BY NumberedStep
<1>2. Remembers(filter, in) /\ \A d \in Dests : Delivered(sent[d], in, w)
  BY <1>1 DEF RecordInv, Delivered
<1>3. PICK m \in Messages :
         /\ m.id = Len(in) + 1 /\ in' = Append(in, m)
         /\ sent' = [d \in Dests |-> sent[d] \o Forwarded(filter, m)]
         /\ \/ /\ IsDropped(filter, m)
               /\ filter' = AfterDrop(filter, m) /\ Forwarded(filter, m) = <<>>
            \/ /\ ~IsDropped(filter, m) /\ IsBeforeStart(filter, m)
               /\ filter' = AfterBuffering(filter, m) /\ Forwarded(filter, m) = <<>>
            \/ /\ ~IsDropped(filter, m) /\ ~IsBeforeStart(filter, m)
               /\ filter' = AfterSending(filter, m)
               /\ Forwarded(filter, m) = Append(BufferedSeq(filter), m)
  BY NumberedStep
<1> SUFFICES /\ Remembers(filter', in') /\ filter'.WriteRepeatedTimestamps = w
             /\ \A d \in Dests : Delivered(sent'[d], in', w)
  <2> SUFFICES ASSUME Remembers(filter', in'), filter'.WriteRepeatedTimestamps = w,
                      \A d \in Dests : Delivered(sent'[d], in', w)
               PROVE  RecordInv'
    OBVIOUS
  <2>1. filter'.Start = Start
    BY DEF Remembers
  <2>2. \A d \in Dests : Increasing(sent'[d])
                           /\ \A x : x \in Ids(sent'[d]) <=> x \in PassedOn(in', w)
    BY DEF Delivered
  <2> HIDE DEF w
  <2> QED BY <1>1, <2>1, <2>2 DEF RecordInv
<1> HIDE DEF w
<1>4. ASSUME Forwarded(filter, m) = <<>>, PassedOn(in', w) = PassedOn(in, w)
      PROVE  \A d \in Dests : Delivered(sent'[d], in', w)
  <2>1. \A d \in Dests : sent'[d] = sent[d]
    BY <1>0, <1>3, <1>4
  <2> QED BY <1>2, <1>4, <2>1 DEF Delivered
<1>5. CASE IsDropped(filter, m) /\ filter' = AfterDrop(filter, m)
             /\ Forwarded(filter, m) = <<>>
  <2>1. /\ Remembers(filter', in') /\ filter'.WriteRepeatedTimestamps = w
        /\ PassedOn(in', w) = PassedOn(in, w)
    BY <1>0, <1>2, <1>3, <1>5, DropRemembers DEF w
  <2> QED BY <1>4, <1>5, <2>1
<1>6. CASE ~IsDropped(filter, m) /\ IsBeforeStart(filter, m)
             /\ filter' = AfterBuffering(filter, m) /\ Forwarded(filter, m) = <<>>
  <2>1. /\ Remembers(filter', in') /\ filter'.WriteRepeatedTimestamps = w
        /\ PassedOn(in', w) = PassedOn(in, w)
    BY <1>0, <1>2, <1>3, <1>6, BufferingRemembers DEF w
  <2> QED BY <1>4, <1>6, <2>1
<1>7. CASE ~IsDropped(filter, m) /\ ~IsBeforeStart(filter, m)
             /\ filter' = AfterSending(filter, m)
             /\ Forwarded(filter, m) = Append(BufferedSeq(filter), m)
  <2>1. /\ Remembers(filter', in') /\ filter'.WriteRepeatedTimestamps = w
        /\ \A i : i \in PassedOn(in', w)
                    <=> i \in PassedOn(in, w) \/ i = m.id \/ LastAcc(in, w, i)
    <3> DEFINE f == filter
               g == filter'
    <3>1. g = AfterSending(f, m) /\ w = f.WriteRepeatedTimestamps
      BY <1>7 DEF w
    <3>a. /\ f \in FilterType(Messages, Times) /\ in \in Seq(Messages)
          /\ m.id = Len(in) + 1 /\ Remembers(f, in)
          /\ ~IsDropped(f, m) /\ ~IsBeforeStart(f, m)
      BY <1>0, <1>2, <1>3, <1>7
    <3> HIDE DEF f, g
    <3>2. /\ Remembers(g, Append(in, m)) /\ g.WriteRepeatedTimestamps = w
          /\ \A i : i \in PassedOn(Append(in, m), w)
                      <=> i \in PassedOn(in, w) \/ i = m.id \/ LastAcc(in, w, i)
      BY <3>1, <3>a, SendingRemembers
    <3> QED BY <1>3, <3>2 DEF g
  <2>2. ASSUME NEW d \in Dests PROVE Delivered(sent'[d], in', w)
    <3> DEFINE q == sent[d] \o BufferedSeq(filter)
    <3>1. sent[d] \in Seq(Messages) /\ BufferedSeq(filter) \in Seq(Messages)
      BY <1>0, BufferedFacts
    <3>2. sent'[d] = sent[d] \o Append(BufferedSeq(filter), m)
      BY <1>3, <1>7
    <3>3. sent'[d] = Append(q, m)
      <4>1. CASE HasBuffered(filter)
        <5>1. BufferedSeq(filter) = <<filter.BufferedMessage>>
                /\ filter.BufferedMessage \in Messages
          BY <1>0, <4>1, BufferedFacts DEF BufferedSeq
        <5> QED BY <3>1, <3>2, <5>1, ConcatAppend
      <4>2. CASE ~HasBuffered(filter)
        <5>1. BufferedSeq(filter) = <<>> /\ sent[d] \o <<>> = sent[d]
          BY <3>1, <4>2 DEF BufferedSeq
        <5> QED BY <3>1, <3>2, <5>1
      <4> QED BY <4>1, <4>2
    <3>4. LastIsKnown(filter, in)
      BY <1>2 DEF Remembers
    <3>5. /\ q \in Seq(Messages) /\ Increasing(q)
          /\ \A x : x \in Ids(q) <=> x \in PassedOn(in, w) \/ LastAcc(in, w, x)
      BY <1>0, <1>2, <3>1, <3>4, QueueBuffered DEF w
    <3> HIDE DEF q
    <3>6. \A x : x \in PassedOn(in, w) \/ LastAcc(in, w, x) => x \in 1..Len(in)
      BY DEF PassedOn, LastAcc
    <3>7. \A x \in 1..Len(in) : x < m.id
      BY <1>0, <1>3
    <3>8. \A x \in Ids(q) : x < m.id
      BY <3>5, <3>6, <3>7
    <3>9. /\ Increasing(Append(q, m))
          /\ \A x : x \in Ids(Append(q, m)) <=> x \in Ids(q) \/ x = m.id
      BY <3>5, <3>8, IdsAppend
    <3> QED BY <2>1, <3>3, <3>5, <3>9 DEF Delivered
  <2> QED BY <2>1, <2>2
<1> QED BY <1>3, <1>5, <1>6, <1>7

\* The destructor passes on what was accepted last, if that was not sent yet.
LEMMA DestroyRecords ==
  ASSUME TypeOK, RecordInv, Destroy
  PROVE  RecordInv'
<1> DEFINE w == filter.WriteRepeatedTimestamps
<1>0. filter \in FilterType(Messages, Times) /\ in \in Seq(Messages)
        /\ \A d \in Dests : sent[d] \in Seq(Messages)
  BY DEF TypeOK, Times
<1>1. /\ alive /\ alive' = FALSE /\ filter' = AfterFlush(filter) /\ in' = in
      /\ sent' = [d \in Dests |-> sent[d] \o BufferedSeq(filter)]
  BY DEF Destroy, Send
<1>2. Remembers(filter, in) /\ \A d \in Dests : Delivered(sent[d], in, w)
  BY <1>1 DEF RecordInv, Delivered
<1>3. filter'.Start = Start /\ filter'.WriteRepeatedTimestamps = w
  BY <1>0, <1>1, <1>2, OptionsStay DEF Remembers
<1>4. LastIsKnown(filter, in)
  BY <1>2 DEF Remembers
<1>5. ASSUME NEW d \in Dests
      PROVE  /\ Increasing(sent'[d])
             /\ \A x : x \in Ids(sent'[d]) <=> x \in PassedOn(in, w) \/ LastAcc(in, w, x)
  <2>1. sent'[d] = sent[d] \o BufferedSeq(filter)
    BY <1>1
  <2> QED BY <1>0, <1>2, <1>4, <2>1, QueueBuffered
<1> HIDE DEF w
<1> QED BY <1>1, <1>3, <1>5 DEF RecordInv
\* What the invariant says of the input is what RecordsExactly says of it.
LEMMA RecordedIs ==
  ASSUME TypeOK, filter.Start = Start, NEW w, w = filter.WriteRepeatedTimestamps
  PROVE  \A i : i \in Recorded <=> i \in PassedOn(in, w) \/ (~alive /\ LastAcc(in, w, i))
<1>0. Len(in) \in Nat
  BY DEF TypeOK
<1>1. \A i : Accepted(i) <=> Acc(in, w, i)
  <2>1. \A i : PreviousTimestamp(i) = Prev(in, i)
    BY DEF PreviousTimestamp, Prev
  <2> QED BY <2>1 DEF Accepted, Acc
<1>2. \A i : InWindow(i) <=> Win(in, w, i)
  BY <1>1 DEF InWindow, Win
<1>3. ASSUME NEW i \in 1..Len(in)
      PROVE  (\E j \in (i + 1)..Len(in) : NextAccepted(i, j) /\ InWindow(j))
               <=> \E j \in (i + 1)..Len(in) :
                     Win(in, w, j) /\ \A k \in (i + 1)..(j - 1) : ~Acc(in, w, k)
  <2>1. ASSUME NEW j \in (i + 1)..Len(in)
        PROVE  NextAccepted(i, j) /\ InWindow(j)
                 <=> Win(in, w, j) /\ \A k \in (i + 1)..(j - 1) : ~Acc(in, w, k)
    <3>1. j > i
      BY <1>0
    <3>2. Win(in, w, j) => Acc(in, w, j)
      BY DEF Win
    <3> QED BY <1>1, <1>2, <3>1, <3>2 DEF NextAccepted
  <2> QED BY <2>1
<1>4. ASSUME NEW i \in 1..Len(in)
      PROVE  LastBeforeWindow(i) <=> Follows(in, w, i) \/ (~alive /\ LastAcc(in, w, i))
  BY <1>1, <1>3 DEF LastBeforeWindow, Follows, LastAcc
<1>5. \A i : LastAcc(in, w, i) => i \in 1..Len(in)
  BY DEF LastAcc
<1> QED BY <1>2, <1>4, <1>5 DEF Recorded, PassedOn

(* Every destination gets exactly the messages it should, once and in order: the
   accepted messages from Start on and, before each run of them, the last one
   accepted earlier (SourceFilter::filterMessage and the destructor), whatever
   the timestamps, repeats and changes of the stop time. *)
THEOREM RecordsCorrect == Spec => []RecordsExactly
<1>1. Init => RecordInv
  BY InitRecords
<1>2. TypeOK /\ RecordInv /\ [Next]_vars => RecordInv'
  <2> SUFFICES ASSUME TypeOK, RecordInv, [Next]_vars PROVE RecordInv'
    OBVIOUS
  <2>1. CASE filterMessage
    BY <2>1, MessageRecords
  <2>2. CASE setStopTime
    <3>0. filter \in FilterType(Messages, Times)
      BY DEF TypeOK, Times
    <3>1. PICK stop \in StopTimes : filter' = FilterWithStopTime(filter, stop)
      BY <2>2 DEF setStopTime
    <3>2. /\ filter'.Start = filter.Start
          /\ filter'.WriteRepeatedTimestamps = filter.WriteRepeatedTimestamps
      BY <3>0, <3>1, OptionsStay
    <3>3. /\ filter'.CurrentTimeStamp = filter.CurrentTimeStamp
          /\ filter'.BufferedMessage = filter.BufferedMessage
      BY <3>0, <3>1, MessageTimes, FilterWithStopTimeFacts
    <3>4. alive' = alive /\ in' = in /\ sent' = sent
      BY <2>2 DEF setStopTime
    <3>5. Remembers(filter, in) => Remembers(filter', in')
      BY <3>2, <3>3, <3>4 DEF Remembers, LastIsKnown, HasBuffered
    <3> QED BY <3>2, <3>4, <3>5 DEF RecordInv
  <2>3. CASE Destroy
    BY <2>3, DestroyRecords
  <2>4. CASE UNCHANGED vars
    BY <2>4 DEF vars, RecordInv
  <2> QED BY <2>1, <2>2, <2>3, <2>4 DEF Next
<1>3. TypeOK /\ RecordInv => RecordsExactly
  <2> SUFFICES ASSUME TypeOK, RecordInv PROVE RecordsExactly
    OBVIOUS
  <2>1. \A d \in Dests : \A x : x \in Ids(sent[d]) <=> x \in Recorded
    BY RecordedIs DEF RecordInv
  <2>2. \A d \in Dests : Ids(sent[d]) = Recorded
    BY <2>1
  <2>3. \A d \in Dests : Increasing(sent[d])
    BY DEF RecordInv
  <2> QED BY <2>2, <2>3 DEF RecordsExactly, Ids, Increasing
<1> QED BY <1>1, <1>2, <1>3, TypeCorrect, PTL DEF Spec
=============================================================================
