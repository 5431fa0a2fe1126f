---------------------------- MODULE MetricsProofs ----------------------------
(***************************************************************************)
(* Metrics for any counters, names and reporters, and any interleaving of  *)
(* the threads that create and destroy counters with those that report     *)
(* them: no reporter reads a counter that is gone. And CarbonConnection    *)
(* for any queue, buffer and line length and any errors of the network:    *)
(* what is sent is what was accepted, byte by byte and in order.           *)
(***************************************************************************)
EXTENDS Metrics, CommonLemmas

Lives == {"none", "registering", "live", "destroying", "gone"}

MetricRecords == [life : Lives, next : Nat \ {0}, Reporters : SUBSET Reporters]

MetricsOK ==
  /\ metric \in [Metric -> MetricRecords]
  /\ MetricsToReportOn \in [Reporters -> [Names -> Metric \union {None}]]
  /\ reporting \in [Reporters -> SUBSET (Names \union {None})]

\* A pointer to a counter is one that the counter knows of and will remove.
PointersKnown ==
  \A r \in Reporters, n \in Names :
    MetricsToReportOn[r][n] # None =>
      /\ FullName[MetricsToReportOn[r][n]] = n
      /\ r \in metric[MetricsToReportOn[r][n]].Reporters

\* A counter that is gone knows of none.
GoneUnknown == \A m \in Metric : metric[m].life = "gone" => metric[m].Reporters = {}

\* What is being reported was not removed since the mutex was taken.
ReportedKept == \A r \in Reporters : \A n \in reporting[r] \ Idle : MetricsToReportOn[r][n] # None

MetricsInv == MetricsOK /\ PointersKnown /\ GoneUnknown /\ ReportedKept

\* The constants.
LEMMA MetricConstants ==
  /\ None \notin Metric /\ None \notin Names /\ \A m \in Metric : FullName[m] \in Names
  /\ Len(ReporterList) \in Nat
  /\ \A i \in 1..Len(ReporterList) : ReporterList[i] \in Reporters
<1>1. DOMAIN ReporterList = 1..Len(ReporterList) /\ Len(ReporterList) \in Nat
  BY MetricsAssumption
<1>2. \A i \in 1..Len(ReporterList) : ReporterList[i] \in Reporters
  BY <1>1 DEF Reporters, Range
<1>3. \A m \in Metric : FullName[m] \in Names
  BY MetricsAssumption DEF Names, Range
<1> QED BY <1>1, <1>2, <1>3, MetricsAssumption

\* The invariant implies the property.
LEMMA MetricsMeans == MetricsInv => NoDanglingCounter
<1> SUFFICES ASSUME MetricsInv, NEW r \in Reporters
             PROVE  /\ \A n \in Registered(r) : metric[MetricsToReportOn[r][n]].life # "gone"
                    /\ \A n \in reporting[r] \ Idle : MetricsToReportOn[r][n] # None
  BY DEF NoDanglingCounter
<1>1. ASSUME NEW n \in Registered(r) PROVE metric[MetricsToReportOn[r][n]].life # "gone"
  <2>1. n \in Names /\ MetricsToReportOn[r][n] # None
    BY <1>1 DEF Registered
  <2>2. MetricsToReportOn[r][n] \in Metric
    BY <2>1 DEF MetricsInv, MetricsOK
  <2>3. r \in metric[MetricsToReportOn[r][n]].Reporters
    BY <2>1 DEF MetricsInv, PointersKnown
  <2> QED BY <2>2, <2>3 DEF MetricsInv, GoneUnknown
<1> QED BY <1>1 DEF MetricsInv, ReportedKept

\* At the beginning there are no counters.
LEMMA MetricsInit == Init => MetricsInv
<1> SUFFICES ASSUME Init PROVE MetricsInv
  OBVIOUS
<1>1. MetricsOK
  BY DEF Init, MetricsOK, MetricRecords, Lives, Idle
<1>2. PointersKnown /\ GoneUnknown
  BY DEF Init, PointersKnown, GoneUnknown
<1>3. ReportedKept
  BY DEF Init, ReportedKept, Idle
<1> QED BY <1>1, <1>2, <1>3 DEF MetricsInv

\* The next of its states that a counter may have.
WithLife(r, life) == [r EXCEPT !.life = life]
WithReporters(r, next, rs) == [r EXCEPT !.next = next, !.Reporters = rs]

\* The records that the actions assign.
LEMMA MetricFacts ==
  ASSUME NEW x \in MetricRecords
  PROVE  /\ \A life \in Lives :
              /\ WithLife(x, life) \in MetricRecords /\ WithLife(x, life).life = life
              /\ WithLife(x, life).Reporters = x.Reporters
         /\ \A next \in Nat \ {0}, rs \in SUBSET Reporters :
              /\ WithReporters(x, next, rs) \in MetricRecords
              /\ WithReporters(x, next, rs).life = x.life
              /\ WithReporters(x, next, rs).Reporters = rs
<1>1. ASSUME NEW life \in Lives
      PROVE  /\ WithLife(x, life) \in MetricRecords /\ WithLife(x, life).life = life
             /\ WithLife(x, life).Reporters = x.Reporters
  BY DEF MetricRecords, WithLife
<1>2. ASSUME NEW next \in Nat \ {0}, NEW rs \in SUBSET Reporters
      PROVE  /\ WithReporters(x, next, rs) \in MetricRecords
             /\ WithReporters(x, next, rs).life = x.life
             /\ WithReporters(x, next, rs).Reporters = rs
  BY DEF MetricRecords, WithReporters
<1> QED BY <1>1, <1>2

\* A counter enters another part of its life, and goes when nobody knows it.
LEMMA LifeStep ==
  ASSUME MetricsInv, NEW m \in Metric, NEW life \in Lives,
         metric' = [metric EXCEPT ![m].life = life],
         life = "gone" => metric[m].Reporters = {},
         UNCHANGED <<MetricsToReportOn, reporting>>
  PROVE  MetricsInv'
<1> DEFINE x == WithLife(metric[m], life)
<1>0. metric \in [Metric -> MetricRecords]
  BY DEF MetricsInv, MetricsOK
<1>1. x \in MetricRecords /\ x.life = life /\ x.Reporters = metric[m].Reporters
  BY <1>0, MetricFacts
<1>2. metric' = [metric EXCEPT ![m] = x]
  BY DEF WithLife
<1> HIDE DEF x
<1>3. /\ metric' \in [Metric -> MetricRecords] /\ metric'[m] = x
      /\ \A k \in Metric : metric'[k].Reporters = metric[k].Reporters
      /\ \A k \in Metric : k # m => metric'[k] = metric[k]
  BY <1>0, <1>1, <1>2
<1>4. MetricsOK'
  BY <1>3 DEF MetricsInv, MetricsOK
<1>5. PointersKnown'
  BY <1>3 DEF MetricsInv, MetricsOK, PointersKnown
<1>6. GoneUnknown'
  BY <1>1, <1>3 DEF MetricsInv, GoneUnknown
<1>7. ReportedKept'
  BY DEF MetricsInv, ReportedKept
<1> QED BY <1>4, <1>5, <1>6, <1>7 DEF MetricsInv

\* A reporter is left out.
LEMMA SkipStep ==
  ASSUME MetricsInv, NEW m \in Metric,
         metric' = [metric EXCEPT ![m].next = @ + 1],
         UNCHANGED <<MetricsToReportOn, reporting>>
  PROVE  MetricsInv'
<1> DEFINE x == WithReporters(metric[m], metric[m].next + 1, metric[m].Reporters)
<1>0. metric \in [Metric -> MetricRecords]
  BY DEF MetricsInv, MetricsOK
<1>1. metric[m] \in MetricRecords /\ metric[m].next + 1 \in Nat \ {0}
      /\ metric[m].Reporters \in SUBSET Reporters
  BY <1>0 DEF MetricRecords
<1>2. x \in MetricRecords /\ x.life = metric[m].life /\ x.Reporters = metric[m].Reporters
  BY <1>1, MetricFacts
<1>3. metric' = [metric EXCEPT ![m] = x]
  BY <1>0, <1>1 DEF WithReporters, MetricRecords
<1> HIDE DEF x
<1>4. /\ metric' \in [Metric -> MetricRecords]
      /\ \A k \in Metric : /\ metric'[k].Reporters = metric[k].Reporters
                           /\ metric'[k].life = metric[k].life
  BY <1>0, <1>2, <1>3
<1>5. MetricsOK'
  BY <1>4 DEF MetricsInv, MetricsOK
<1>6. PointersKnown'
  BY <1>4 DEF MetricsInv, MetricsOK, PointersKnown
<1>7. GoneUnknown'
  BY <1>4 DEF MetricsInv, GoneUnknown
<1>8. ReportedKept'
  BY DEF MetricsInv, ReportedKept
<1> QED BY <1>5, <1>6, <1>7, <1>8 DEF MetricsInv

\* An entry of a reporter's map, which is not being read, changes with what the
\* counter knows: it is added, or removed.
LEMMA EntryStep ==
  ASSUME MetricsInv, NEW m \in Metric, NEW r \in Reporters, NEW v \in {m, None},
         NEW next \in Nat \ {0}, Unlocked(r), metric[m].life # "gone",
         MetricsToReportOn' = [MetricsToReportOn EXCEPT ![r][FullName[m]] = v],
         metric' = [metric EXCEPT ![m] = WithReporters(@, next,
                      IF v = m THEN metric[m].Reporters \union {r}
                      ELSE metric[m].Reporters \ {r})],
         UNCHANGED reporting
  PROVE  MetricsInv'
<1> DEFINE n == FullName[m]
           rs == IF v = m THEN metric[m].Reporters \union {r} ELSE metric[m].Reporters \ {r}
           x == WithReporters(metric[m], next, rs)
<1>0. /\ metric \in [Metric -> MetricRecords] /\ n \in Names
      /\ MetricsToReportOn \in [Reporters -> [Names -> Metric \union {None}]]
      /\ None \notin Metric /\ metric[m].Reporters \in SUBSET Reporters
  BY MetricConstants DEF MetricsInv, MetricsOK, MetricRecords
<1>1. rs \in SUBSET Reporters
  BY <1>0
<1> HIDE DEF rs
<1>2. x \in MetricRecords /\ x.life = metric[m].life /\ x.Reporters = rs
  BY <1>0, <1>1, MetricFacts
<1>3. metric' = [metric EXCEPT ![m] = x]
  BY DEF rs
<1> HIDE DEF x
<1>4. /\ metric' \in [Metric -> MetricRecords] /\ metric'[m] = x
      /\ \A k \in Metric : k # m => metric'[k] = metric[k]
  BY <1>0, <1>2, <1>3
<1>5. v \in Metric \union {None}
  OBVIOUS
<1> HIDE DEF n
<1>6. /\ MetricsToReportOn' \in [Reporters -> [Names -> Metric \union {None}]]
      /\ \A q \in Reporters, k \in Names :
           MetricsToReportOn'[q][k] = IF q = r /\ k = n THEN v ELSE MetricsToReportOn[q][k]
  <2> DEFINE row == [MetricsToReportOn[r] EXCEPT ![n] = v]
  <2>1. MetricsToReportOn' = [MetricsToReportOn EXCEPT ![r] = row]
    BY DEF n
  <2>2. /\ row \in [Names -> Metric \union {None}]
        /\ \A k \in Names : row[k] = IF k = n THEN v ELSE MetricsToReportOn[r][k]
    BY <1>0, <1>5
  <2> HIDE DEF row
  <2> QED BY <1>0, <2>1, <2>2
<1>7. MetricsOK'
  BY <1>4, <1>6 DEF MetricsInv, MetricsOK
<1>8. PointersKnown'
  <2> SUFFICES ASSUME NEW q \in Reporters, NEW k \in Names, MetricsToReportOn'[q][k] # None
               PROVE  /\ FullName[MetricsToReportOn'[q][k]] = k
                      /\ q \in metric'[MetricsToReportOn'[q][k]].Reporters
    BY DEF PointersKnown
  <2>1. CASE q = r /\ k = n
    <3>1. v = m /\ MetricsToReportOn'[q][k] = m
      BY <1>6, <2>1
    <3> QED BY <1>2, <1>4, <2>1, <3>1 DEF n, rs
  <2>2. CASE ~(q = r /\ k = n)
    <3> DEFINE c == MetricsToReportOn[q][k]
    <3>1. MetricsToReportOn'[q][k] = c /\ c # None /\ c \in Metric
      BY <1>0, <1>6, <2>2
    <3>2. FullName[c] = k /\ q \in metric[c].Reporters
      BY <3>1 DEF MetricsInv, PointersKnown
    <3> HIDE DEF c
    <3>3. q \in metric'[c].Reporters
      <4>1. CASE c = m
        <5>1. q # r
          BY <2>2, <3>2, <4>1 DEF n
        <5> QED BY <1>2, <1>4, <3>2, <4>1, <5>1 DEF rs
      <4>2. CASE c # m
        BY <1>4, <3>1, <3>2, <4>2
      <4> QED BY <4>1, <4>2
    <3> QED BY <3>1, <3>2, <3>3
  <2> QED BY <2>1, <2>2
<1>9. GoneUnknown'
  BY <1>2, <1>4 DEF MetricsInv, GoneUnknown
<1>10. ReportedKept'
  <2> SUFFICES ASSUME NEW q \in Reporters, NEW k \in reporting[q] \ Idle
               PROVE  MetricsToReportOn'[q][k] # None
    BY DEF ReportedKept
  <2>1. q # r
    BY DEF Unlocked
  <2>2. k \in Names /\ MetricsToReportOn[q][k] # None
    BY DEF MetricsInv, MetricsOK, ReportedKept, Idle
  <2> QED BY <1>6, <2>1, <2>2
<1> QED BY <1>7, <1>8, <1>9, <1>10 DEF MetricsInv

\* Every step leaves the invariant.
LEMMA MetricsNext == MetricsInv /\ [Next]_vars => MetricsInv'
<1> SUFFICES ASSUME MetricsInv, [Next]_vars PROVE MetricsInv'
  OBVIOUS
<1>0. metric \in [Metric -> MetricRecords]
  BY DEF MetricsInv, MetricsOK
<1>1. CASE construct
  BY <1>1, LifeStep DEF construct, Lives
<1>2. CASE registerMetric
  <2>1. PICK m \in Metric :
       /\ metric[m].life = "registering"
       /\ \/ /\ m \in Unnamed
             /\ metric' = [metric EXCEPT ![m].life = "destroying"]
             /\ UNCHANGED MetricsToReportOn
          \/ /\ m \notin Unnamed /\ metric[m].next > Len(ReporterList)
             /\ metric' = [metric EXCEPT ![m].life = "live"]
             /\ UNCHANGED MetricsToReportOn
          \/ /\ m \notin Unnamed /\ metric[m].next <= Len(ReporterList)
             /\ ReporterList[metric[m].next] \notin SinkTypes[m]
             /\ metric' = [metric EXCEPT ![m].next = @ + 1]
             /\ UNCHANGED MetricsToReportOn
          \/ /\ m \notin Unnamed /\ metric[m].next <= Len(ReporterList)
             /\ ReporterList[metric[m].next] \in SinkTypes[m]
             /\ LET r == ReporterList[metric[m].next]
                    n == FullName[m]
                IN  /\ Unlocked(r)
                    /\ \/ /\ MetricsToReportOn[r][n] = None
                          /\ MetricsToReportOn' = [MetricsToReportOn EXCEPT ![r][n] = m]
                          /\ metric' = [metric EXCEPT
                                          ![m].next = @ + 1,
                                          ![m].Reporters = setDeregistrationDetails(m, r)]
                       \/ /\ MetricsToReportOn[r][n] # None
                          /\ metric' = [metric EXCEPT ![m].life = "destroying"]
                          /\ UNCHANGED MetricsToReportOn
    BY <1>2 DEF registerMetric
  <2>2. UNCHANGED reporting
    BY <1>2 DEF registerMetric
  <2>3. CASE /\ UNCHANGED MetricsToReportOn
             /\ \E life \in {"live", "destroying"} : metric' = [metric EXCEPT ![m].life = life]
    BY <2>2, <2>3, LifeStep DEF Lives
  <2>5. CASE /\ UNCHANGED MetricsToReportOn
             /\ metric' = [metric EXCEPT ![m].next = @ + 1]
    BY <2>2, <2>5, SkipStep
  <2>4. CASE /\ ~(/\ UNCHANGED MetricsToReportOn
                  /\ \E life \in {"live", "destroying"} :
                       metric' = [metric EXCEPT ![m].life = life])
             /\ ~(/\ UNCHANGED MetricsToReportOn
                  /\ metric' = [metric EXCEPT ![m].next = @ + 1])
    <3> DEFINE r == ReporterList[metric[m].next]
    <3>1. /\ metric[m].next <= Len(ReporterList) /\ Unlocked(r)
          /\ MetricsToReportOn' = [MetricsToReportOn EXCEPT ![r][FullName[m]] = m]
          /\ metric' = [metric EXCEPT ![m].next = @ + 1,
                                      ![m].Reporters = metric[m].Reporters \union {r}]
      BY <2>1, <2>4 DEF setDeregistrationDetails
    <3>2. metric[m].next \in 1..Len(ReporterList) /\ metric[m].next + 1 \in Nat \ {0}
      BY <1>0, <3>1, MetricConstants DEF MetricRecords
    <3>3. r \in Reporters
      BY <3>2, MetricConstants
    <3> DEFINE k == metric[m].next + 1
    <3>4. metric' = [metric EXCEPT ![m] = WithReporters(@, k,
                                            IF m = m THEN metric[m].Reporters \union {r}
                                            ELSE metric[m].Reporters \ {r})]
      BY <1>0, <3>1 DEF WithReporters
    <3>5. k \in Nat \ {0} /\ m \in {m, None} /\ metric[m].life # "gone"
      BY <2>1, <3>2
    <3> HIDE DEF r, k
    <3> QED BY <2>2, <3>1, <3>3, <3>4, <3>5, EntryStep
  <2> QED BY <2>3, <2>4, <2>5
<1>3. CASE destroy
  BY <1>3, LifeStep DEF destroy, Lives
<1>4. CASE tryRemoveMetric
  <2>1. PICK m \in Metric :
       /\ metric[m].life = "destroying"
       /\ \/ /\ metric[m].Reporters = {}
             /\ metric' = [metric EXCEPT ![m].life = "gone"]
             /\ UNCHANGED MetricsToReportOn
          \/ \E r \in metric[m].Reporters :
               /\ Unlocked(r)
               /\ MetricsToReportOn' = [MetricsToReportOn EXCEPT ![r][FullName[m]] = None]
               /\ metric' = [metric EXCEPT ![m].Reporters = @ \ {r}]
    BY <1>4 DEF tryRemoveMetric
  <2>2. UNCHANGED reporting
    BY <1>4 DEF tryRemoveMetric
  <2>3. CASE /\ metric[m].Reporters = {} /\ metric' = [metric EXCEPT ![m].life = "gone"]
             /\ UNCHANGED MetricsToReportOn
    BY <2>2, <2>3, LifeStep DEF Lives
  <2>4. CASE \E r \in metric[m].Reporters :
               /\ Unlocked(r)
               /\ MetricsToReportOn' = [MetricsToReportOn EXCEPT ![r][FullName[m]] = None]
               /\ metric' = [metric EXCEPT ![m].Reporters = @ \ {r}]
    <3>1. PICK r \in metric[m].Reporters :
               /\ Unlocked(r)
               /\ MetricsToReportOn' = [MetricsToReportOn EXCEPT ![r][FullName[m]] = None]
               /\ metric' = [metric EXCEPT ![m].Reporters = @ \ {r}]
      BY <2>4
    <3>2. r \in Reporters /\ None # m /\ metric[m].next \in Nat \ {0}
      BY <1>0, MetricConstants DEF MetricRecords
    <3>3. metric' = [metric EXCEPT ![m] = WithReporters(@, metric[m].next,
                                            metric[m].Reporters \ {r})]
      BY <1>0, <3>1 DEF WithReporters, MetricRecords
    <3> QED BY <2>1, <2>2, <3>1, <3>2, <3>3, EntryStep
  <2> QED BY <2>1, <2>3, <2>4
<1>5. CASE reportMetrics
  <2>1. PICK r \in Reporters : reporting' = [reporting EXCEPT ![r] = Registered(r)]
    BY <1>5 DEF reportMetrics
  <2>2. Registered(r) \in SUBSET Names /\ \A n \in Registered(r) : MetricsToReportOn[r][n] # None
    BY DEF Registered
  <2>3. UNCHANGED <<metric, MetricsToReportOn>>
    BY <1>5 DEF reportMetrics
  <2>4. MetricsOK' /\ ReportedKept'
    BY <2>1, <2>2, <2>3 DEF MetricsInv, MetricsOK, ReportedKept
  <2> QED BY <2>3, <2>4 DEF MetricsInv, PointersKnown, GoneUnknown
<1>6. CASE reportMetric
  <2>1. PICK r \in Reporters :
          \/ \E n \in reporting[r] : reporting' = [reporting EXCEPT ![r] = @ \ {n}]
          \/ reporting' = [reporting EXCEPT ![r] = Idle]
    BY <1>6 DEF reportMetric
  <2>2. UNCHANGED <<metric, MetricsToReportOn>>
    BY <1>6 DEF reportMetric
  <2>3. MetricsOK' /\ ReportedKept'
    BY <2>1, <2>2 DEF MetricsInv, MetricsOK, ReportedKept, Idle
  <2> QED BY <2>2, <2>3 DEF MetricsInv, PointersKnown, GoneUnknown
<1>7. CASE UNCHANGED metrics
  BY <1>7 DEF metrics, MetricsInv, MetricsOK, PointersKnown, GoneUnknown, ReportedKept
<1> QED BY <1>1, <1>2, <1>3, <1>4, <1>5, <1>6, <1>7 DEF Next, vars

(* No reporter has a pointer to a counter that is gone, nor reads one, however
   the threads that create, refuse and destroy counters interleave with those
   that report them, for any number of reporters, counters and names. *)
THEOREM CountersCorrect == Spec => []NoDanglingCounter
BY MetricsInit, MetricsNext, MetricsMeans, PTL DEF Spec
-----------------------------------------------------------------------------
(* The operations of the connection. P is a set of operations under way, R the
   handlers that are ready, s the state of the socket. *)

Keeping == {"timer", "resolve", "connect", "receive"}
Sending == {"write", "waitForMessage"}
Operations == Keeping \union Sending
Handlers == [op : Operations, ok : BOOLEAN, bytes : Nat]

HasOp(R, i, ops) == i \in DOMAIN R /\ R[i].op \in ops

NoKeeper(P, R) == P \intersect Keeping = {} /\ \A i : ~HasOp(R, i, Keeping)
Keeper(P, R, k) ==
  \/ P \intersect Keeping = {k} /\ \A i : ~HasOp(R, i, Keeping)
  \/ /\ P \intersect Keeping = {}
     /\ \E i : HasOp(R, i, {k}) /\ \A j : HasOp(R, j, Keeping) => j = i

NoSender(P, R) == "write" \notin P /\ \A i : ~HasOp(R, i, Sending)
OneSender(P, R) ==
  \/ NoSender(P, R)
  \/ "write" \in P /\ \A i : ~HasOp(R, i, Sending)
  \/ "write" \notin P /\ \E i : HasOp(R, i, Sending) /\ \A j : HasOp(R, j, Sending) => j = i

\* A timer that has expired is handled after what was ready to send.
TimerLast(R) == \A i, j : HasOp(R, i, {"timer"}) /\ HasOp(R, j, Sending) => i > j

(* What is known while operation k keeps up the connection. As handlers run in
   the order in which operations complete, a new connection is made only when
   everything that was to send over the old one has ended. *)
Known(k, P, R, s) ==
  /\ k = "timer" => s = "closed" /\ "write" \notin P /\ TimerLast(R)
  /\ k = "resolve" => s = "closed" /\ NoSender(P, R)
  /\ k = "connect" => s = "open" /\ NoSender(P, R)
  /\ k = "receive" /\ s = "closed" => NoSender(P, R) /\ "receive" \notin P

Connection(P, R, s) ==
  \E k \in Keeping : Keeper(P, R, k) /\ OneSender(P, R) /\ Known(k, P, R, s)

\* A handler that is taken.
LEMMA TailOp ==
  ASSUME NEW R \in Seq(Handlers), R # << >>, NEW ops
  PROVE  /\ \A i : HasOp(Tail(R), i, ops) <=> i \in Nat /\ i > 0 /\ HasOp(R, i + 1, ops)
         /\ \A i : HasOp(R, i, ops) => i \in Nat /\ i > 0
         /\ HasOp(R, 1, ops) <=> Head(R).op \in ops
         /\ Tail(R) \in Seq(Handlers) /\ Head(R) \in Handlers
         /\ \A i : HasOp(R, i, ops) => i = 1 \/ (i - 1 \in Nat /\ HasOp(Tail(R), i - 1, ops))
         /\ \A i : HasOp(Tail(R), i, ops) => Tail(R)[i] = R[i + 1]
<1>1. /\ Len(R) \in Nat \ {0} /\ DOMAIN R = 1..Len(R)
      /\ Tail(R) \in Seq(Handlers) /\ Len(Tail(R)) = Len(R) - 1
      /\ \A i \in 1..Len(Tail(R)) : Tail(R)[i] = R[i + 1]
      /\ Head(R) = R[1] /\ Head(R) \in Handlers
  BY EmptySeq, HeadTailProperties
<1>2. DOMAIN Tail(R) = 1..(Len(R) - 1)
  BY <1>1
<1>3. \A i : HasOp(R, i, ops) => i \in Nat /\ i > 0
  BY <1>1 DEF HasOp
<1>4. HasOp(R, 1, ops) <=> Head(R).op \in ops
  BY <1>1 DEF HasOp
<1>5. ASSUME NEW i
      PROVE  HasOp(Tail(R), i, ops) <=> i \in Nat /\ i > 0 /\ HasOp(R, i + 1, ops)
  <2>1. HasOp(Tail(R), i, ops) <=> i \in 1..(Len(R) - 1) /\ R[i + 1].op \in ops
    BY <1>1, <1>2 DEF HasOp
  <2>2. HasOp(R, i + 1, ops) <=> i + 1 \in 1..Len(R) /\ R[i + 1].op \in ops
    BY <1>1 DEF HasOp
  <2>3. i \in 1..(Len(R) - 1) <=> i \in Nat /\ i > 0 /\ i + 1 \in 1..Len(R)
    BY <1>1
  <2> QED BY <2>1, <2>2, <2>3
<1>6. ASSUME NEW i, HasOp(R, i, ops), i # 1
      PROVE  i - 1 \in Nat /\ HasOp(Tail(R), i - 1, ops)
  <2>1. i \in 1..Len(R)
    BY <1>1, <1>6 DEF HasOp
  <2>2. i - 1 \in Nat /\ i - 1 > 0 /\ (i - 1) + 1 = i
    BY <1>1, <1>6, <2>1
  <2> QED BY <1>5, <1>6, <2>2
<1>7. \A i : HasOp(Tail(R), i, ops) => Tail(R)[i] = R[i + 1]
  BY <1>1, <1>2 DEF HasOp
<1> QED BY <1>1, <1>3, <1>4, <1>5, <1>6, <1>7

\* A handler that becomes ready.
LEMMA AppendOp ==
  ASSUME NEW R \in Seq(Handlers), NEW h \in Handlers, NEW ops
  PROVE  /\ \A i : HasOp(Append(R, h), i, ops) <=>
                     HasOp(R, i, ops) \/ (i = Len(R) + 1 /\ h.op \in ops)
         /\ Append(R, h) \in Seq(Handlers) /\ Len(R) \in Nat
         /\ \A i : HasOp(R, i, ops) => i \in 1..Len(R) /\ Append(R, h)[i] = R[i]
         /\ Append(R, h)[Len(R) + 1] = h
<1>1. /\ Len(R) \in Nat /\ DOMAIN R = 1..Len(R) /\ Append(R, h) \in Seq(Handlers)
      /\ DOMAIN Append(R, h) = 1..(Len(R) + 1)
      /\ \A i \in 1..Len(R) : Append(R, h)[i] = R[i]
      /\ Append(R, h)[Len(R) + 1] = h
  OBVIOUS
<1>2. \A i : i \in 1..(Len(R) + 1) <=> i \in 1..Len(R) \/ i = Len(R) + 1
  BY <1>1
<1>3. ~(Len(R) + 1 \in 1..Len(R))
  BY <1>1
<1> QED BY <1>1, <1>2, <1>3 DEF HasOp
\* No operation is of both loops.
LEMMA Apart ==
  /\ \A op : ~(op \in Keeping /\ op \in Sending)
  /\ "write" \in Sending /\ "waitForMessage" \in Sending
BY DEF Keeping, Sending

\* The handler of an operation of the connecting loop runs.
LEMMA HeadKeeper ==
  ASSUME NEW P, NEW R \in Seq(Handlers), NEW s, Connection(P, R, s), R # << >>,
         Head(R).op \in Keeping
  PROVE  /\ NoKeeper(P, Tail(R)) /\ OneSender(P, Tail(R))
         /\ NoSender(P, R) => NoSender(P, Tail(R))
         /\ Known(Head(R).op, P, R, s)
         /\ Head(R).op = "timer" => NoSender(P, R)
<1> DEFINE T == Tail(R)
<1>1. PICK k \in Keeping : Keeper(P, R, k) /\ OneSender(P, R) /\ Known(k, P, R, s)
  BY DEF Connection
<1>2. /\ \A i : HasOp(T, i, Keeping) <=> i \in Nat /\ i > 0 /\ HasOp(R, i + 1, Keeping)
      /\ HasOp(R, 1, Keeping)
  BY TailOp
<1>3. /\ \A i : HasOp(T, i, Sending) <=> i \in Nat /\ i > 0 /\ HasOp(R, i + 1, Sending)
      /\ ~HasOp(R, 1, Sending)
      /\ \A i : HasOp(R, i, Sending) => i = 1 \/ (i - 1 \in Nat /\ HasOp(T, i - 1, Sending))
      /\ \A i : HasOp(R, i, Sending) => i \in Nat /\ i > 0
  BY TailOp, Apart
<1>4. HasOp(R, 1, {k}) <=> Head(R).op \in {k}
  BY TailOp
<1>5. P \intersect Keeping = {} /\ \A j : HasOp(R, j, Keeping) => j = 1
  BY <1>1, <1>2 DEF Keeper
<1>6. k = Head(R).op
  <2>1. PICK i : HasOp(R, i, {k}) /\ \A j : HasOp(R, j, Keeping) => j = i
    BY <1>1, <1>2 DEF Keeper
  <2> QED BY <1>2, <1>4, <2>1
<1>7. NoKeeper(P, T)
  <2>1. \A i \in Nat : i > 0 => i + 1 # 1
    OBVIOUS
  <2> QED BY <1>2, <1>5, <2>1 DEF NoKeeper
<1>8. NoSender(P, R) => NoSender(P, T)
  BY <1>3 DEF NoSender
<1>9. OneSender(P, T)
  <2>1. CASE NoSender(P, R)
    BY <1>8, <2>1 DEF OneSender
  <2>2. CASE "write" \in P /\ \A i : ~HasOp(R, i, Sending)
    BY <1>3, <2>2 DEF OneSender
  <2>3. CASE "write" \notin P /\ \E i : HasOp(R, i, Sending) /\ \A j : HasOp(R, j, Sending) => j = i
    <3>1. PICK i : HasOp(R, i, Sending) /\ \A j : HasOp(R, j, Sending) => j = i
      BY <2>3
    <3>2. i # 1 /\ i \in Nat /\ i > 0 /\ HasOp(T, i - 1, Sending)
      BY <1>3, <3>1
    <3>3. \A j \in Nat : j + 1 = i => j = i - 1
      BY <3>2
    <3>4. \A j : HasOp(T, j, Sending) => j = i - 1
      BY <1>3, <3>1, <3>3
    <3> QED BY <2>3, <3>2, <3>4 DEF OneSender
  <2> QED BY <1>1, <2>1, <2>2, <2>3 DEF OneSender
<1>10. Head(R).op = "timer" => NoSender(P, R)
  <2>1. ASSUME k = "timer" PROVE NoSender(P, R)
    <3>1. "write" \notin P /\ TimerLast(R) /\ HasOp(R, 1, {"timer"})
      BY <1>1, <1>4, <1>6, <2>1 DEF Known
    <3>2. \A j \in Nat : ~(1 > j /\ j > 0)
      OBVIOUS
    <3> QED BY <1>3, <3>1, <3>2 DEF TimerLast, NoSender
  <2> QED BY <1>6, <2>1
<1> QED BY <1>1, <1>6, <1>7, <1>8, <1>9, <1>10

\* The handler of an operation of the sending loop runs.
LEMMA HeadSender ==
  ASSUME NEW P, NEW R \in Seq(Handlers), NEW s, Connection(P, R, s), R # << >>,
         Head(R).op \in Sending
  PROVE  /\ NoSender(P, Tail(R)) /\ ~NoSender(P, R)
         /\ \E k \in Keeping : Keeper(P, Tail(R), k) /\ Known(k, P, Tail(R), s)
                               /\ (s = "open" => k = "receive")
<1> DEFINE T == Tail(R)
<1>1. PICK k \in Keeping : Keeper(P, R, k) /\ OneSender(P, R) /\ Known(k, P, R, s)
  BY DEF Connection
<1>2. /\ \A i : HasOp(T, i, Keeping) <=> i \in Nat /\ i > 0 /\ HasOp(R, i + 1, Keeping)
      /\ ~HasOp(R, 1, Keeping)
      /\ \A i : HasOp(R, i, Keeping) => i = 1 \/ (i - 1 \in Nat /\ HasOp(T, i - 1, Keeping))
  BY TailOp, Apart
<1>3. /\ \A i : HasOp(T, i, Sending) <=> i \in Nat /\ i > 0 /\ HasOp(R, i + 1, Sending)
      /\ HasOp(R, 1, Sending)
  BY TailOp
<1>4. /\ \A i : HasOp(R, i, {k}) => i \in Nat /\ i > 0
      /\ \A i : HasOp(R, i, {k}) => i = 1 \/ (i - 1 \in Nat /\ HasOp(T, i - 1, {k}))
      /\ \A i : HasOp(R, i, {k}) => HasOp(R, i, Keeping)
  <2>1. \A i : HasOp(R, i, {k}) => HasOp(R, i, Keeping)
    BY DEF HasOp
  <2>2. /\ \A i : HasOp(R, i, {k}) => i \in Nat /\ i > 0
        /\ \A i : HasOp(R, i, {k}) => i = 1 \/ (i - 1 \in Nat /\ HasOp(T, i - 1, {k}))
    BY TailOp
  <2> QED BY <2>1, <2>2
<1>5. ~NoSender(P, R)
  BY <1>3 DEF NoSender
<1>6. "write" \notin P /\ \A j : HasOp(R, j, Sending) => j = 1
  BY <1>1, <1>3, <1>5 DEF OneSender
<1>7. NoSender(P, T)
  <2>1. \A i \in Nat : i > 0 => i + 1 # 1
    OBVIOUS
  <2> QED BY <1>3, <1>6, <2>1 DEF NoSender
<1>8. Keeper(P, T, k)
  <2>1. CASE P \intersect Keeping = {k} /\ \A i : ~HasOp(R, i, Keeping)
    BY <1>2, <2>1 DEF Keeper
  <2>2. CASE /\ P \intersect Keeping = {}
             /\ \E i : HasOp(R, i, {k}) /\ \A j : HasOp(R, j, Keeping) => j = i
    <3>1. PICK i : HasOp(R, i, {k}) /\ \A j : HasOp(R, j, Keeping) => j = i
      BY <2>2
    <3>2. i # 1 /\ i \in Nat /\ i > 0 /\ HasOp(T, i - 1, {k})
      BY <1>2, <1>4, <3>1
    <3>3. \A j \in Nat : j + 1 = i => j = i - 1
      BY <3>2
    <3>4. \A j : HasOp(T, j, Keeping) => j = i - 1
      BY <1>2, <3>1, <3>3
    <3> QED BY <2>2, <3>2, <3>4 DEF Keeper
  <2> QED BY <1>1, <2>1, <2>2 DEF Keeper
<1>9. TimerLast(T)
  BY <1>7 DEF TimerLast, NoSender
<1>10. Known(k, P, T, s) /\ (s = "open" => k = "receive")
  BY <1>1, <1>5, <1>7, <1>9 DEF Known, Keeping
<1> QED BY <1>5, <1>7, <1>8, <1>10

\* An operation of the connecting loop starts, or has ended.
LEMMA StartKeeper ==
  ASSUME NEW P, NEW R \in Seq(Handlers), NoKeeper(P, R), NEW k \in Keeping
  PROVE  /\ Keeper(P \union {k}, R, k) /\ TimerLast(R)
         /\ NoSender(P, R) => NoSender(P \union {k}, R)
         /\ OneSender(P, R) => OneSender(P \union {k}, R)
         /\ \A h \in Handlers : h.op = k =>
              /\ Keeper(P, Append(R, h), k) /\ TimerLast(Append(R, h))
              /\ NoSender(P, R) => NoSender(P, Append(R, h))
              /\ OneSender(P, R) => OneSender(P, Append(R, h))
<1>1. Keeper(P \union {k}, R, k)
  BY DEF NoKeeper, Keeper
<1>2. "write" \in P \union {k} <=> "write" \in P
  BY DEF Keeping
<1>3. TimerLast(R)
  BY DEF NoKeeper, TimerLast, HasOp, Keeping
<1>4. ASSUME NEW h \in Handlers, h.op = k
      PROVE  /\ Keeper(P, Append(R, h), k) /\ TimerLast(Append(R, h))
             /\ NoSender(P, R) => NoSender(P, Append(R, h))
             /\ OneSender(P, R) => OneSender(P, Append(R, h))
  <2> DEFINE A == Append(R, h)
             n == Len(R) + 1
  <2>1. \A i : HasOp(A, i, Keeping) <=> i = n
    BY <1>4, AppendOp DEF NoKeeper
  <2>2. HasOp(A, n, {k})
    BY <1>4, AppendOp
  <2>3. \A i : HasOp(A, i, Sending) <=> HasOp(R, i, Sending)
    BY <1>4, AppendOp DEF Keeping, Sending
  <2>4. \A i : HasOp(R, i, Sending) => n > i
    <3>1. Len(R) \in Nat /\ \A i : HasOp(R, i, Sending) => i \in 1..Len(R)
      BY AppendOp
    <3> QED BY <3>1
  <2>5. \A i : HasOp(A, i, {"timer"}) => HasOp(A, i, Keeping)
    BY DEF HasOp, Keeping
  <2> HIDE DEF A, n
  <2>6. Keeper(P, A, k)
    BY <2>1, <2>2 DEF Keeper, NoKeeper
  <2>7. TimerLast(A)
    BY <2>1, <2>3, <2>4, <2>5 DEF TimerLast
  <2> QED BY <2>3, <2>6, <2>7 DEF NoSender, OneSender, A
<1> QED BY <1>1, <1>2, <1>3, <1>4 DEF NoSender, OneSender

\* An operation of the sending loop starts, or has ended.
LEMMA StartSender ==
  ASSUME NEW P, NEW R \in Seq(Handlers), NoSender(P, R), NEW k \in Keeping, Keeper(P, R, k)
  PROVE  /\ OneSender(P, R)
         /\ OneSender(P \union {"write"}, R) /\ Keeper(P \union {"write"}, R, k)
         /\ \A h \in Handlers : h.op \in Sending =>
              OneSender(P, Append(R, h)) /\ Keeper(P, Append(R, h), k)
<1>1. OneSender(P \union {"write"}, R) /\ OneSender(P, R)
  BY DEF NoSender, OneSender
<1>2. Keeper(P \union {"write"}, R, k)
  <2>1. (P \union {"write"}) \intersect Keeping = P \intersect Keeping
    BY DEF Keeping
  <2> QED BY <2>1 DEF Keeper
<1>3. ASSUME NEW h \in Handlers, h.op \in Sending
      PROVE  OneSender(P, Append(R, h)) /\ Keeper(P, Append(R, h), k)
  <2> DEFINE A == Append(R, h)
             n == Len(R) + 1
  <2>1. \A i : HasOp(A, i, Sending) <=> i = n
    BY <1>3, AppendOp DEF NoSender
  <2>2. \A i : HasOp(A, i, Keeping) <=> HasOp(R, i, Keeping)
    BY <1>3, AppendOp DEF Keeping, Sending
  <2>3. \A i : HasOp(R, i, {k}) => HasOp(A, i, {k})
    BY AppendOp
  <2> HIDE DEF A, n
  <2>4. OneSender(P, A)
    BY <2>1 DEF OneSender, NoSender
  <2>5. Keeper(P, A, k)
    BY <2>2, <2>3 DEF Keeper
  <2> QED BY <2>4, <2>5 DEF A
<1> QED BY <1>1, <1>2, <1>3
\* An operation is no longer under way.
LEMMA EndOperation ==
  ASSUME NEW P, NEW R, NEW s \in {"open", "closed"}, NEW op \in P, Connection(P, R, s)
  PROVE  /\ op \in Keeping =>
              /\ NoKeeper(P \ {op}, R) /\ Known(op, P, R, s)
              /\ NoSender(P, R) => NoSender(P \ {op}, R)
              /\ OneSender(P \ {op}, R)
         /\ op = "write" =>
              s = "open" /\ NoSender(P \ {op}, R) /\ Keeper(P \ {op}, R, "receive")
<1>1. PICK k \in Keeping : Keeper(P, R, k) /\ OneSender(P, R) /\ Known(k, P, R, s)
  BY DEF Connection
<1>2. ASSUME op \in Keeping
      PROVE  /\ NoKeeper(P \ {op}, R) /\ Known(op, P, R, s)
             /\ NoSender(P, R) => NoSender(P \ {op}, R)
             /\ OneSender(P \ {op}, R)
  <2>1. P \intersect Keeping = {k} /\ \A i : ~HasOp(R, i, Keeping)
    BY <1>1, <1>2 DEF Keeper
  <2>2. k = op
    BY <1>2, <2>1
  <2>3. (P \ {op}) \intersect Keeping = {}
    BY <2>1, <2>2
  <2>4. "write" \in P \ {op} <=> "write" \in P
    BY <1>2 DEF Keeping
  <2> QED BY <1>1, <2>1, <2>2, <2>3, <2>4 DEF NoKeeper, NoSender, OneSender
<1>3. ASSUME op = "write"
      PROVE  s = "open" /\ NoSender(P \ {op}, R) /\ Keeper(P \ {op}, R, "receive")
  <2>1. ~NoSender(P, R) /\ \A i : ~HasOp(R, i, Sending)
    BY <1>1, <1>3 DEF NoSender, OneSender
  <2>2. k = "receive" /\ s = "open"
    BY <1>1, <1>3, <2>1 DEF Known, Keeping
  <2>3. NoSender(P \ {op}, R)
    BY <1>3, <2>1 DEF NoSender
  <2>4. (P \ {op}) \intersect Keeping = P \intersect Keeping
    BY <1>3 DEF Keeping
  <2> QED BY <1>1, <2>2, <2>3, <2>4 DEF Keeper
<1> QED BY <1>2, <1>3
-----------------------------------------------------------------------------
(* The handlers. *)

Byte == Nat \X Nat
Pendable == Keeping \union {"write"}
Sockets == {"open", "closed"}

\* A write reports no more bytes than it was given.
WritesFit(R, buffer) == \A i : HasOp(R, i, {"write"}) => R[i].bytes \in 0..Len(buffer)

BuffersOK ==
  /\ Messages \in Seq(Nat) /\ MessageBuffer \in Seq(Byte) /\ sent \in Seq(Byte)
  /\ lines \in Nat
NetworkOK == pending \in SUBSET Pendable /\ ready \in Seq(Handlers) /\ socket \in Sockets

ConnectionInv ==
  NetworkOK /\ Connection(pending, ready, socket) /\ WritesFit(ready, MessageBuffer)

\* Writes that fit, as handlers come and go.
LEMMA WritesKept ==
  ASSUME NEW P, NEW R \in Seq(Handlers), NEW buffer \in Seq(Byte)
  PROVE  /\ NoSender(P, R) => WritesFit(R, buffer)
         /\ \A h \in Handlers :
              /\ WritesFit(R, buffer)
              /\ h.op = "write" => h.bytes \in 0..Len(buffer)
              => WritesFit(Append(R, h), buffer)
         /\ R # << >> /\ WritesFit(R, buffer) =>
              /\ WritesFit(Tail(R), buffer)
              /\ Head(R).op = "write" => Head(R).bytes \in 0..Len(buffer)
<1>1. NoSender(P, R) => WritesFit(R, buffer)
  BY DEF NoSender, WritesFit, HasOp, Sending
<1>2. ASSUME NEW h \in Handlers, WritesFit(R, buffer),
             h.op = "write" => h.bytes \in 0..Len(buffer)
      PROVE  WritesFit(Append(R, h), buffer)
  <2> DEFINE A == Append(R, h)
             n == Len(R) + 1
             W == {"write"}
  <2>1. \A i : HasOp(A, i, W) <=> HasOp(R, i, W) \/ (i = n /\ h.op \in W)
    BY AppendOp
  <2>2. A[n] = h /\ \A i \in DOMAIN R : A[i] = R[i]
    OBVIOUS
  <2>3. \A i : HasOp(R, i, W) => A[i] = R[i]
    BY <2>2 DEF HasOp
  <2> HIDE DEF A, n
  <2> QED BY <1>2, <2>1, <2>2, <2>3 DEF WritesFit, A
<1>3. ASSUME R # << >>, WritesFit(R, buffer)
      PROVE  /\ WritesFit(Tail(R), buffer)
             /\ Head(R).op = "write" => Head(R).bytes \in 0..Len(buffer)
  <2> DEFINE T == Tail(R)
             W == {"write"}
  <2>1. /\ \A i : HasOp(T, i, W) <=> i \in Nat /\ i > 0 /\ HasOp(R, i + 1, W)
        /\ \A i : HasOp(T, i, W) => T[i] = R[i + 1]
        /\ HasOp(R, 1, W) <=> Head(R).op \in W
    BY <1>3, TailOp
  <2>2. Head(R) = R[1]
    BY <1>3
  <2> HIDE DEF T
  <2> QED BY <1>3, <2>1, <2>2 DEF WritesFit, T
<1> QED BY <1>1, <1>2, <1>3

\* A line is bytes.
LEMMA LineFacts == \A m \in Nat : Line(m) \in Seq(Byte)
<1> SUFFICES ASSUME NEW m \in Nat PROVE Line(m) \in Seq(Byte)
  OBVIOUS
<1>1. Line(m) \in [1..Bytes -> Byte]
  BY CarbonAssumption DEF Line, Byte
<1> QED BY <1>1, CarbonAssumption

\* The buffer takes the next line, or not.
Moved(buffer) ==
  /\ MessageBuffer' \in Seq(Byte) /\ Messages' \in Seq(Nat)
  /\ \/ MessageBuffer' = buffer /\ UNCHANGED Messages
     \/ /\ Messages # << >> /\ Messages' = Tail(Messages)
        /\ MessageBuffer' = buffer \o Line(Head(Messages))

\* trySendMessage, when nothing else sends.
LEMMA SendStep ==
  ASSUME BuffersOK, socket \in Sockets, UNCHANGED socket,
         NEW buffer \in Seq(Byte), NEW ops \in SUBSET Pendable, NEW rest \in Seq(Handlers),
         NoSender(ops, rest), NEW k \in Keeping, Keeper(ops, rest, k),
         Known(k, ops, rest, socket), socket = "open" => k = "receive",
         trySendMessage(buffer, ops, rest)
  PROVE  ConnectionInv' /\ Moved(buffer)
<1> USE DEF Sockets
<1>1. CASE socket = "closed"
  <2>1. /\ MessageBuffer' = buffer /\ pending' = ops /\ ready' = rest /\ UNCHANGED Messages
    BY <1>1 DEF trySendMessage
  <2>2. Connection(ops, rest, socket) /\ WritesFit(rest, buffer)
    BY StartSender, WritesKept DEF Connection
  <2> QED BY <2>1, <2>2 DEF ConnectionInv, NetworkOK, Moved, BuffersOK
<1>2. CASE socket = "open"
  <2>0. /\ OneSender(ops \union {"write"}, rest) /\ Keeper(ops \union {"write"}, rest, "receive")
        /\ \A b \in Seq(Byte) : WritesFit(rest, b)
        /\ ops \union {"write"} \in SUBSET Pendable
    BY <1>2, StartSender, WritesKept DEF Pendable
  <2>1. Connection(ops \union {"write"}, rest, "open")
    BY <2>0 DEF Connection, Known, Keeping
  <2>2. CASE Len(buffer) <= MessageAdditionLimit /\ Messages # << >>
    <3>1. /\ MessageBuffer' = buffer \o Line(Head(Messages)) /\ Messages' = Tail(Messages)
          /\ pending' = ops \union {"write"} /\ ready' = rest
      BY <1>2, <2>2 DEF trySendMessage
    <3>2. Head(Messages) \in Nat /\ Tail(Messages) \in Seq(Nat)
      BY <2>2, HeadTailProperties DEF BuffersOK
    <3>3. MessageBuffer' \in Seq(Byte)
      <4>1. Line(Head(Messages)) \in Seq(Byte)
        BY <3>2, LineFacts
      <4> QED BY <3>1, <4>1
    <3>4. WritesFit(ready', MessageBuffer')
      BY <2>0, <3>1, <3>3
    <3> QED BY <1>2, <2>0, <2>1, <2>2, <3>1, <3>2, <3>3, <3>4 DEF ConnectionInv, NetworkOK, Moved
  <2>3. CASE ~(Len(buffer) <= MessageAdditionLimit /\ Messages # << >>)
    <3>1. MessageBuffer' = buffer /\ UNCHANGED Messages
      BY <1>2, <2>3 DEF trySendMessage
    <3>2. CASE pending' = ops \union {"write"} /\ ready' = rest
      BY <1>2, <2>0, <2>1, <3>1, <3>2 DEF ConnectionInv, NetworkOK, Moved, BuffersOK
    <3>3. CASE pending' = ops /\ ready' = Append(rest, Wait)
      <4>1. Wait \in Handlers /\ Wait.op = "waitForMessage"
        BY DEF Wait, Ok, Handlers, Operations, Sending
      <4> DEFINE A == Append(rest, Wait)
      <4>0. Wait.op \in Sending /\ A \in Seq(Handlers)
        BY <4>1, Apart
      <4>2. OneSender(ops, A) /\ Keeper(ops, A, "receive")
        BY <1>2, <4>0, <4>1, StartSender
      <4>3. WritesFit(A, buffer)
        BY <2>0, <4>1, WritesKept
      <4> HIDE DEF A
      <4>4. Connection(ops, A, "open")
        BY <4>2 DEF Connection, Known, Keeping
      <4> QED BY <1>2, <3>1, <3>3, <4>0, <4>3, <4>4
              DEF ConnectionInv, NetworkOK, Moved, BuffersOK, A
    <3> QED BY <1>2, <2>3, <3>2, <3>3 DEF trySendMessage
  <2> QED BY <2>2, <2>3
<1> QED BY <1>1, <1>2
\* The handler of an operation that has ended, with what it had sent.
LEMMA HandlerFacts ==
  ASSUME NEW op \in Operations, NEW n \in Nat
  PROVE  /\ [Failed(op) EXCEPT !.bytes = n] \in Handlers
         /\ [Failed(op) EXCEPT !.bytes = n].op = op
         /\ [Failed(op) EXCEPT !.bytes = n].bytes = n
         /\ [Ok(op) EXCEPT !.bytes = n] \in Handlers
         /\ [Ok(op) EXCEPT !.bytes = n].op = op
         /\ [Ok(op) EXCEPT !.bytes = n].bytes = n
         /\ Ok(op) \in Handlers /\ Ok(op).op = op
         /\ Failed(op) \in Handlers /\ Failed(op).op = op
BY DEF Failed, Ok, Handlers

\* The connection is closed because nothing can be received: a write is aborted.
LEMMA CloseReceiving ==
  ASSUME NetworkOK, BuffersOK, NEW rest \in Seq(Handlers), NoKeeper(pending, rest),
         OneSender(pending, rest), WritesFit(rest, MessageBuffer), UNCHANGED MessageBuffer,
         closeSocket(pending \union {"timer"}, rest)
  PROVE  ConnectionInv'
<1> DEFINE P == pending \ {"write"}
           Q == P \union {"timer"}
<1>1. /\ "timer" \in Keeping /\ "receive" \in Keeping /\ "write" \notin Keeping
      /\ Keeping \subseteq Pendable
  BY DEF Keeping, Pendable
<1>2. "receive" \notin pending /\ "timer" \notin pending
  BY <1>1 DEF NoKeeper
<1>3. /\ pending' = Q /\ socket' = "closed" /\ pending' \in SUBSET Pendable
      /\ "write" \notin Q
  BY <1>1, <1>2 DEF closeSocket, NetworkOK
<1>4. NoKeeper(P, rest)
  BY DEF NoKeeper
<1> HIDE DEF P
<1>5. Keeper(Q, rest, "timer") /\ TimerLast(rest)
  BY <1>1, <1>4, StartKeeper
<1>6. CASE "write" \notin pending
  <2>1. ready' = rest
    BY <1>2, <1>6 DEF closeSocket
  <2>2. OneSender(Q, rest)
    <3>1. OneSender(P, rest)
      BY <1>6 DEF OneSender, NoSender, P
    <3> QED BY <1>1, <1>4, <3>1, StartKeeper
  <2>3. Connection(Q, rest, "closed")
    BY <1>1, <1>3, <1>5, <2>2 DEF Connection, Known
  <2> QED BY <1>3, <2>1, <2>3 DEF ConnectionInv, NetworkOK, Sockets
<1>7. CASE "write" \in pending
  <2>1. PICK n \in 0..Len(MessageBuffer) :
          ready' = Append(rest, [Failed("write") EXCEPT !.bytes = n])
    BY <1>2, <1>7 DEF closeSocket, BytesOf
  <2> DEFINE h == [Failed("write") EXCEPT !.bytes = n]
             A == Append(rest, h)
  <2>2. n \in Nat
    BY DEF BuffersOK
  <2>3. h \in Handlers /\ h.op = "write" /\ h.bytes = n
    BY <2>2, HandlerFacts DEF Operations, Sending
  <2> HIDE DEF h
  <2>4. \A i : ~HasOp(rest, i, Sending)
    BY <1>7 DEF OneSender, NoSender
  <2>5. NoSender(Q, rest)
    BY <1>3, <2>4 DEF NoSender
  <2>6. OneSender(Q, A) /\ Keeper(Q, A, "timer")
    <3>1. h.op \in Sending
      BY <2>3, Apart
    <3> QED BY <1>1, <1>5, <2>3, <2>5, <3>1, StartSender
  <2>7. TimerLast(A)
    <3>1. Q \intersect Keeping # {}
      BY <1>1
    <3>2. \A i : ~HasOp(A, i, Keeping)
      BY <2>6, <3>1 DEF Keeper
    <3>3. \A i : HasOp(A, i, {"timer"}) => HasOp(A, i, Keeping)
      BY DEF HasOp, Keeping
    <3> QED BY <3>2, <3>3 DEF TimerLast
  <2>8. WritesFit(A, MessageBuffer) /\ A \in Seq(Handlers)
    <3>1. MessageBuffer \in Seq(Byte)
      BY DEF BuffersOK
    <3>2. h.op = "write" => h.bytes \in 0..Len(MessageBuffer)
      BY <2>3
    <3>3. WritesFit(A, MessageBuffer)
      BY <2>3, <3>1, <3>2, WritesKept
    <3> QED BY <2>3, <3>3
  <2> HIDE DEF A
  <2>9. Connection(Q, A, "closed")
    BY <1>1, <1>3, <2>6, <2>7 DEF Connection, Known
  <2> QED BY <1>3, <2>1, <2>8, <2>9 DEF ConnectionInv, NetworkOK, Sockets, A, h
<1> QED BY <1>6, <1>7

\* The connection is closed because a write failed: waiting for input is aborted.
LEMMA CloseSending ==
  ASSUME NetworkOK, NEW rest \in Seq(Handlers), NoSender(pending, rest),
         NEW k \in Keeping, Keeper(pending, rest, k), Known(k, pending, rest, socket),
         socket = "open" => k = "receive", MessageBuffer' \in Seq(Byte),
         closeSocket(pending, rest)
  PROVE  ConnectionInv'
<1>1. "receive" \in Keeping /\ "write" \notin pending
  BY DEF Keeping, NoSender
<1>2. /\ pending' = pending \ {"receive"} /\ socket' = "closed"
      /\ pending' \in SUBSET Pendable
  BY <1>1 DEF closeSocket, NetworkOK
<1>3. CASE "receive" \notin pending
  <2>1. ready' = rest /\ pending' = pending
    BY <1>1, <1>2, <1>3 DEF closeSocket
  <2>2. Known(k, pending, rest, "closed")
    BY <1>3 DEF Known, NetworkOK, Sockets
  <2>3. Connection(pending, rest, "closed")
    BY <2>2, StartSender DEF Connection
  <2>4. WritesFit(rest, MessageBuffer')
    BY WritesKept
  <2> QED BY <1>2, <2>1, <2>3, <2>4 DEF ConnectionInv, NetworkOK, Sockets
<1>4. CASE "receive" \in pending
  <2> DEFINE P == pending \ {"receive"}
  <2>1. PICK h : h = [Failed("receive") EXCEPT !.bytes = 0] /\ ready' = Append(rest, h)
    BY <1>1, <1>4 DEF closeSocket, BytesOf
  <2>2. h \in Handlers /\ h.op = "receive"
    BY <2>1, HandlerFacts DEF Operations, Keeping
  <2>3. NoKeeper(P, rest) /\ NoSender(P, rest)
    <3>1. pending \intersect Keeping = {k} /\ \A i : ~HasOp(rest, i, Keeping)
      BY <1>1, <1>4 DEF Keeper
    <3>2. k = "receive"
      BY <1>1, <1>4, <3>1
    <3>3. P \intersect Keeping = {}
      BY <3>1, <3>2
    <3> QED BY <1>1, <3>1, <3>3 DEF NoKeeper, NoSender
  <2>4. "receive" \notin P
    OBVIOUS
  <2> HIDE DEF P
  <2> DEFINE A == Append(rest, h)
  <2>5. Keeper(P, A, "receive") /\ NoSender(P, A)
    BY <1>1, <2>2, <2>3, StartKeeper
  <2>6. A \in Seq(Handlers)
    BY <2>2
  <2> HIDE DEF A
  <2>7. OneSender(P, A) /\ WritesFit(A, MessageBuffer')
    BY <2>5, <2>6, WritesKept DEF OneSender
  <2>8. Connection(P, A, "closed")
    BY <1>1, <2>4, <2>5, <2>7 DEF Connection, Known
  <2> QED BY <1>2, <2>1, <2>6, <2>7, <2>8 DEF ConnectionInv, NetworkOK, Sockets, A, P
<1> QED BY <1>3, <1>4
\* A handler of the connecting loop starts the loop's next operation.
LEMMA KeepStep ==
  ASSUME NetworkOK, BuffersOK, NEW rest \in Seq(Handlers), NoKeeper(pending, rest),
         OneSender(pending, rest), WritesFit(rest, MessageBuffer), UNCHANGED buffers,
         NEW k \in Keeping, pending' = pending \union {k}, ready' = rest,
         socket' \in Sockets,
         k = "timer" => socket' = "closed" /\ "write" \notin pending,
         k = "resolve" => socket' = "closed" /\ NoSender(pending, rest),
         k = "connect" => socket' = "open" /\ NoSender(pending, rest),
         k = "receive" => socket' = "open"
  PROVE  ConnectionInv' /\ UNCHANGED sent /\ Moved(MessageBuffer)
<1> DEFINE P == pending \union {k}
<1>1. /\ Keeper(P, rest, k) /\ TimerLast(rest) /\ OneSender(P, rest)
      /\ NoSender(pending, rest) => NoSender(P, rest)
  BY StartKeeper
<1>2. k # "write" /\ P \in SUBSET Pendable
  BY DEF Keeping, Pendable, NetworkOK
<1>3. "write" \notin pending => "write" \notin P
  BY <1>2
<1> HIDE DEF P
<1>4. Known(k, P, rest, socket')
  BY <1>1, <1>3 DEF Known
<1>5. Connection(P, rest, socket')
  BY <1>1, <1>4 DEF Connection
<1>6. ConnectionInv'
  BY <1>2, <1>5 DEF ConnectionInv, NetworkOK, buffers, P
<1> QED BY <1>6 DEF buffers, Moved, BuffersOK

(* What a handler does to the data: bytes that were sent leave the buffer, which
   may then take a line from the queue. *)
Transfer ==
  \/ UNCHANGED sent /\ Moved(MessageBuffer)
  \/ \E n \in 0..Len(MessageBuffer) :
       sent' = sent \o SubSeq(MessageBuffer, 1, n) /\ Moved(Unsent(n))

\* The handlers of the connecting loop.
LEMMA KeepingHandlers ==
  ASSUME BuffersOK, ConnectionInv, RunHandler, Head(ready).op \in Keeping
  PROVE  ConnectionInv' /\ Transfer
<1> DEFINE h == Head(ready)
           rest == Tail(ready)
<1> USE DEF AfterReconnect
<1>0. ready \in Seq(Handlers) /\ ready # << >> /\ NetworkOK /\ WritesFit(ready, MessageBuffer)
      /\ Connection(pending, ready, socket) /\ socket \in Sockets /\ MessageBuffer \in Seq(Byte)
  BY DEF ConnectionInv, NetworkOK, RunHandler, BuffersOK
<1>1. rest \in Seq(Handlers) /\ WritesFit(rest, MessageBuffer)
  BY <1>0, WritesKept, HeadTailProperties
<1>2. /\ NoKeeper(pending, rest) /\ OneSender(pending, rest)
      /\ NoSender(pending, ready) => NoSender(pending, rest)
      /\ Known(h.op, pending, ready, socket)
      /\ h.op = "timer" => NoSender(pending, ready)
  BY <1>0, HeadKeeper
<1>3. \/ h.op = "timer" /\ doAddressQuery(rest)
      \/ h.op = "resolve" /\ resolverHandler(h.ok, rest)
      \/ h.op = "connect" /\ connectHandler(h.ok, rest)
      \/ h.op = "receive" /\ receiveHandler(h.ok, rest)
  BY DEF RunHandler, Keeping
<1>4. NoSender(pending, rest) => "write" \notin pending
  BY DEF NoSender
<1>5. /\ "timer" \in Keeping /\ "resolve" \in Keeping
      /\ "connect" \in Keeping /\ "receive" \in Keeping
  BY DEF Keeping
<1> HIDE DEF h, rest
<1>6. CASE h.op = "timer" /\ doAddressQuery(rest)
  <2>1. /\ UNCHANGED buffers /\ pending' = pending \union {"resolve"} /\ ready' = rest
        /\ socket' = "closed" /\ NoSender(pending, rest)
    BY <1>2, <1>6 DEF doAddressQuery, Known
  <2> QED BY <1>0, <1>1, <1>2, <1>5, <2>1, KeepStep DEF Sockets, Transfer
<1>7. CASE h.op = "resolve" /\ resolverHandler(h.ok, rest)
  <2>1. NoSender(pending, rest) /\ socket = "closed"
    BY <1>2, <1>7 DEF Known
  <2>2. CASE tryConnect(1, rest)
    <3>1. /\ UNCHANGED buffers /\ pending' = pending \union {"connect"} /\ ready' = rest
          /\ socket' = "open"
      BY <2>2 DEF tryConnect
    <3> QED BY <1>0, <1>1, <1>2, <1>5, <2>1, <3>1, KeepStep DEF Sockets, Transfer
  <2>3. CASE ~h.ok
    <3>1. /\ UNCHANGED buffers /\ pending' = pending \union {"timer"} /\ ready' = rest
          /\ socket' = "closed"
      BY <1>7, <2>1, <2>3 DEF resolverHandler
    <3> QED BY <1>0, <1>1, <1>2, <1>4, <1>5, <2>1, <3>1, KeepStep DEF Sockets, Transfer
  <2> QED BY <1>7, <2>2, <2>3 DEF resolverHandler
<1>8. CASE h.op = "connect" /\ connectHandler(h.ok, rest)
  <2>1. NoSender(pending, rest) /\ socket = "open"
    BY <1>2, <1>8 DEF Known
  <2>2. CASE h.ok
    <3> DEFINE P == pending \union {"receive"}
    <3>1. trySendMessage(MessageBuffer, P, rest) /\ UNCHANGED <<sent, socket>>
      BY <1>8, <2>2 DEF connectHandler
    <3>2. Keeper(P, rest, "receive") /\ NoSender(P, rest)
      BY <1>1, <1>2, <1>5, <2>1, StartKeeper
    <3>3. P \in SUBSET Pendable
      BY <1>0, <1>5 DEF NetworkOK, Pendable
    <3> HIDE DEF P
    <3>4. Known("receive", P, rest, socket)
      BY <2>1 DEF Known
    <3>5. ConnectionInv' /\ Moved(MessageBuffer)
      BY <1>0, <1>1, <1>5, <3>1, <3>2, <3>3, <3>4, SendStep
    <3> QED BY <3>1, <3>5 DEF Transfer
  <2>3. CASE tryConnect(tried + 1, rest)
    <3>1. /\ UNCHANGED buffers /\ pending' = pending \union {"connect"} /\ ready' = rest
          /\ socket' = "open"
      BY <2>3 DEF tryConnect
    <3> QED BY <1>0, <1>1, <1>2, <1>5, <2>1, <3>1, KeepStep DEF Sockets, Transfer
  <2>4. CASE /\ socket' = "closed" /\ pending' = pending \union {"timer"} /\ ready' = rest
             /\ UNCHANGED buffers
    BY <1>0, <1>1, <1>2, <1>4, <1>5, <2>1, <2>4, KeepStep DEF Sockets, Transfer
  <2> QED BY <1>8, <2>2, <2>3, <2>4 DEF connectHandler
<1>9. CASE h.op = "receive" /\ receiveHandler(h.ok, rest)
  <2>1. CASE h.ok /\ socket = "open"
    <3>1. /\ UNCHANGED buffers /\ pending' = pending \union {"receive"} /\ ready' = rest
          /\ socket' = "open"
      BY <1>9, <2>1 DEF receiveHandler
    <3> QED BY <1>0, <1>1, <1>2, <1>5, <3>1, KeepStep DEF Sockets, Transfer
  <2>2. CASE h.ok /\ socket = "closed"
    <3> DEFINE f == Failed("receive")
               A == Append(rest, f)
    <3>1. UNCHANGED <<buffers, socket, pending>> /\ ready' = A
      BY <1>9, <2>2 DEF receiveHandler
    <3>2. NoSender(pending, rest) /\ "receive" \notin pending
      BY <1>2, <1>5, <1>9, <2>2 DEF Known, NoKeeper
    <3>3. f \in Handlers /\ f.op = "receive"
      BY HandlerFacts, <1>5 DEF Operations
    <3> HIDE DEF f
    <3>4. Keeper(pending, A, "receive") /\ NoSender(pending, A) /\ A \in Seq(Handlers)
      <4>1. A \in Seq(Handlers)
        BY <1>1, <3>3
      <4> QED BY <1>1, <1>2, <1>5, <3>2, <3>3, <4>1, StartKeeper
    <3> HIDE DEF A
    <3>5. WritesFit(A, MessageBuffer)
      BY <1>0, <3>4, WritesKept
    <3>6. Connection(pending, A, socket)
      BY <1>5, <2>2, <3>2, <3>4 DEF Connection, Known, OneSender
    <3>7. ConnectionInv'
      BY <1>0, <3>1, <3>4, <3>5, <3>6 DEF ConnectionInv, NetworkOK, buffers
    <3> QED BY <3>1, <3>7 DEF buffers, Moved, BuffersOK, Transfer
  <2>3. CASE ~h.ok
    <3>1. closeSocket(pending \union {"timer"}, rest) /\ UNCHANGED buffers
      BY <1>9, <2>3 DEF receiveHandler
    <3>2. UNCHANGED MessageBuffer
      BY <3>1 DEF buffers
    <3>3. ConnectionInv'
      BY <1>0, <1>1, <1>2, <3>1, <3>2, CloseReceiving
    <3> QED BY <3>1, <3>3 DEF buffers, Moved, BuffersOK, Transfer
  <2> QED BY <1>0, <2>1, <2>2, <2>3 DEF Sockets
<1> QED BY <1>3, <1>6, <1>7, <1>8, <1>9
\* The handlers of the sending loop.
LEMMA SendingHandlers ==
  ASSUME BuffersOK, ConnectionInv, RunHandler, Head(ready).op \in Sending
  PROVE  ConnectionInv' /\ Transfer
<1> DEFINE h == Head(ready)
           rest == Tail(ready)
<1>0. ready \in Seq(Handlers) /\ ready # << >> /\ NetworkOK /\ WritesFit(ready, MessageBuffer)
      /\ Connection(pending, ready, socket) /\ socket \in Sockets /\ MessageBuffer \in Seq(Byte)
      /\ pending \in SUBSET Pendable
  BY DEF ConnectionInv, NetworkOK, RunHandler, BuffersOK
<1>1. /\ rest \in Seq(Handlers)
      /\ h.op = "write" => h.bytes \in 0..Len(MessageBuffer)
  BY <1>0, WritesKept, HeadTailProperties
<1>2. /\ NoSender(pending, rest)
      /\ \E k \in Keeping : Keeper(pending, rest, k) /\ Known(k, pending, rest, socket)
                            /\ (socket = "open" => k = "receive")
  BY <1>0, HeadSender
<1>3. PICK k \in Keeping : Keeper(pending, rest, k) /\ Known(k, pending, rest, socket)
                           /\ (socket = "open" => k = "receive")
  BY <1>2
<1>4. \/ h.op = "write" /\ sentMessageHandler(h.ok, h.bytes, rest)
      \/ h.op = "waitForMessage" /\ waitForMessage(rest)
  BY DEF RunHandler, Sending
<1> HIDE DEF h, rest
<1>5. CASE h.op = "write" /\ sentMessageHandler(h.ok, h.bytes, rest)
  <2> DEFINE n == h.bytes
  <2>1. n \in 0..Len(MessageBuffer) /\ sent' = sent \o SubSeq(MessageBuffer, 1, n)
    BY <1>1, <1>5 DEF sentMessageHandler
  <2>2. Unsent(n) \in Seq(Byte)
    BY <1>0, <2>1 DEF Unsent
  <2>3. CASE ~h.ok
    <3>1. closeSocket(pending, rest) /\ MessageBuffer' = Unsent(n) /\ UNCHANGED Messages
      BY <1>5, <2>3 DEF sentMessageHandler
    <3>2. ConnectionInv'
      BY <1>0, <1>1, <1>2, <1>3, <2>2, <3>1, CloseSending
    <3> QED BY <2>1, <2>2, <3>1, <3>2 DEF Moved, BuffersOK, Transfer
  <2>4. CASE h.ok
    <3>1. trySendMessage(Unsent(n), pending, rest) /\ UNCHANGED socket
      BY <1>5, <2>4 DEF sentMessageHandler
    <3>2. ConnectionInv' /\ Moved(Unsent(n))
      BY <1>0, <1>1, <1>2, <1>3, <2>2, <3>1, SendStep
    <3> QED BY <2>1, <3>2 DEF Transfer
  <2> QED BY <2>3, <2>4
<1>6. CASE h.op = "waitForMessage" /\ waitForMessage(rest)
  <2>0. UNCHANGED <<sent, socket>>
    BY <1>6 DEF waitForMessage
  <2>1. CASE socket = "closed" /\ ready' = rest /\ UNCHANGED <<Messages, MessageBuffer, pending>>
    <3>1. Connection(pending, rest, socket) /\ WritesFit(rest, MessageBuffer)
      BY <1>0, <1>1, <1>2, <1>3, StartSender, WritesKept DEF Connection
    <3>2. ConnectionInv'
      BY <1>0, <1>1, <2>0, <2>1, <3>1 DEF ConnectionInv, NetworkOK
    <3> QED BY <2>0, <2>1, <3>2 DEF Moved, BuffersOK, Transfer
  <2>2. CASE trySendMessage(MessageBuffer, pending, rest)
    <3>1. ConnectionInv' /\ Moved(MessageBuffer)
      BY <1>0, <1>1, <1>2, <1>3, <2>0, <2>2, SendStep
    <3> QED BY <2>0, <3>1 DEF Transfer
  <2>3. CASE /\ socket = "open" /\ ready' = Append(rest, Wait)
             /\ UNCHANGED <<Messages, MessageBuffer, pending>>
    <3> DEFINE A == Append(rest, Wait)
    <3>1. Wait \in Handlers /\ Wait.op = "waitForMessage"
      BY DEF Wait, Ok, Handlers, Operations, Sending
    <3>2. Wait.op \in Sending /\ A \in Seq(Handlers)
      BY <1>1, <3>1, Apart
    <3>3. OneSender(pending, A) /\ Keeper(pending, A, k)
      BY <1>1, <1>2, <1>3, <3>1, <3>2, StartSender
    <3>4. WritesFit(rest, MessageBuffer)
      BY <1>0, <1>1, <1>2, WritesKept
    <3>5. WritesFit(A, MessageBuffer)
      BY <1>0, <1>1, <3>1, <3>4, WritesKept
    <3> HIDE DEF A
    <3>6. Connection(pending, A, socket)
      BY <1>3, <2>3, <3>3 DEF Connection, Known
    <3>7. ConnectionInv'
      BY <1>0, <2>0, <2>3, <3>2, <3>5, <3>6 DEF ConnectionInv, NetworkOK, A
    <3> QED BY <2>0, <2>3, <3>7 DEF Moved, BuffersOK, Transfer
  <2> QED BY <1>6, <2>1, <2>2, <2>3 DEF waitForMessage
<1> QED BY <1>4, <1>5, <1>6

\* An operation of either loop completes.
LEMMA CompletionStep ==
  ASSUME BuffersOK, ConnectionInv, NEW h \in Handlers, h.op \in pending, Completed(h),
         h.op = "write" => h.bytes \in 0..Len(MessageBuffer)
  PROVE  ConnectionInv'
<1> DEFINE op == h.op
           P == pending \ {op}
           A == Append(ready, h)
<1>0. /\ ready \in Seq(Handlers) /\ NetworkOK /\ WritesFit(ready, MessageBuffer)
      /\ Connection(pending, ready, socket) /\ socket \in {"open", "closed"}
      /\ MessageBuffer \in Seq(Byte) /\ pending \in SUBSET Pendable
  BY DEF ConnectionInv, NetworkOK, BuffersOK, Sockets
<1>1. /\ pending' = P /\ ready' = A /\ UNCHANGED socket /\ UNCHANGED MessageBuffer
  BY DEF Completed, buffers
<1>2. A \in Seq(Handlers) /\ P \in SUBSET Pendable
  BY <1>0
<1>3. WritesFit(A, MessageBuffer)
  BY <1>0, WritesKept
<1>4. Connection(P, A, socket)
  <2>1. CASE op \in Keeping
    <3>1. /\ NoKeeper(P, ready) /\ Known(op, pending, ready, socket)
          /\ NoSender(pending, ready) => NoSender(P, ready)
          /\ OneSender(P, ready)
      <4>1. op \in pending
        OBVIOUS
      <4> HIDE DEF op
      <4> QED BY <1>0, <2>1, <4>1, EndOperation
    <3>2. "write" \in P <=> "write" \in pending
      BY <2>1 DEF Keeping
    <3>3. "receive" \notin P \/ op # "receive"
      OBVIOUS
    <3>4. h.op = op
      OBVIOUS
    <3> HIDE DEF P, op
    <3>5. /\ Keeper(P, A, op) /\ TimerLast(A)
          /\ NoSender(P, ready) => NoSender(P, A)
          /\ OneSender(P, A)
      BY <1>0, <2>1, <3>1, <3>4, StartKeeper
    <3> HIDE DEF A
    <3>6. Known(op, P, A, socket)
      BY <3>1, <3>2, <3>3, <3>5 DEF Known
    <3> QED BY <2>1, <3>5, <3>6 DEF Connection
  <2>2. CASE op = "write"
    <3>1. socket = "open" /\ NoSender(P, ready) /\ Keeper(P, ready, "receive")
      BY <1>0, <2>2, EndOperation
    <3>2. h.op \in Sending /\ "receive" \in Keeping
      BY <2>2, Apart DEF Keeping
    <3> HIDE DEF P
    <3>3. OneSender(P, A) /\ Keeper(P, A, "receive")
      BY <1>0, <3>1, <3>2, StartSender
    <3> HIDE DEF A
    <3> QED BY <3>1, <3>2, <3>3 DEF Connection, Known
  <2> QED BY <1>0, <2>1, <2>2 DEF Pendable
<1> HIDE DEF A, P
<1> QED BY <1>0, <1>1, <1>2, <1>3, <1>4 DEF ConnectionInv, NetworkOK
-----------------------------------------------------------------------------
(* The bytes. FlattenSeq is a recursive function: that it exists, and what it
   computes, is shown by taking the least place where it would fail. *)

IsFlat(f, s, k) == f = [i \in 1..k |-> IF i = 1 THEN s[i] ELSE f[i - 1] \o s[i]]

\* The recursion of FlattenSeq has a solution.
LEMMA FlatExists ==
  ASSUME NEW s, NEW k \in Nat
  PROVE  \E f : IsFlat(f, s, k)
<1> DEFINE T == {n \in Nat : ~\E f : IsFlat(f, s, n)}
<1> SUFFICES ASSUME T # {} PROVE FALSE
  OBVIOUS
<1>1. PICK n \in T : \A m \in T : n <= m
  BY LeastNat
<1>2. CASE n = 0
  <2> DEFINE f == [i \in 1..0 |-> << >>]
  <2>1. IsFlat(f, s, 0)
    BY DEF IsFlat
  <2> QED BY <1>1, <1>2, <2>1
<1>3. CASE n # 0
  <2>1. n - 1 \in Nat /\ n - 1 \notin T /\ n \in Nat
    BY <1>1, <1>3
  <2>2. PICK g : IsFlat(g, s, n - 1)
    BY <2>1
  <2> DEFINE v == IF n = 1 THEN s[n] ELSE g[n - 1] \o s[n]
             f == [i \in 1..n |-> IF i = n THEN v ELSE g[i]]
  <2>3. \A i \in 1..(n-1) : g[i] = IF i = 1 THEN s[i] ELSE g[i - 1] \o s[i]
    BY <2>2 DEF IsFlat
  <2>4. \A i \in 1..n : f[i] = IF i = 1 THEN s[i] ELSE f[i - 1] \o s[i]
    <3> SUFFICES ASSUME NEW i \in 1..n
                 PROVE f[i] = IF i = 1 THEN s[i] ELSE f[i - 1] \o s[i]
      OBVIOUS
    <3>0. i \in Nat /\ i - 1 # n /\ (i # 1 => i - 1 \in 1..n)
      BY <2>1
    <3>1. CASE i = n
      <4>1. f[i] = v
        BY <3>1
      <4>2. CASE i = 1
        BY <3>1, <4>1, <4>2
      <4>3. CASE i # 1
        <5>1. f[i - 1] = g[i - 1]
          BY <3>0, <4>3
        <5> HIDE DEF f
        <5> QED BY <3>1, <4>1, <4>3, <5>1
      <4> QED BY <4>2, <4>3
    <3>2. CASE i # n
      <4>1. i \in 1..(n-1) /\ f[i] = g[i]
        BY <2>1, <3>2
      <4>2. CASE i = 1
        BY <2>3, <4>1, <4>2
      <4>3. CASE i # 1
        <5>1. f[i - 1] = g[i - 1]
          BY <3>0, <4>3
        <5> HIDE DEF f
        <5> QED BY <2>3, <4>1, <4>3, <5>1
      <4> QED BY <4>2, <4>3
    <3> QED BY <3>1, <3>2
  <2>5. IsFlat(f, s, n)
    <3>1. f = [i \in 1..n |-> f[i]]
      OBVIOUS
    <3> HIDE DEF f
    <3> QED BY <2>4, <3>1 DEF IsFlat
  <2> QED BY <1>1, <2>5
<1> QED BY <1>2, <1>3

\* So the beginnings of a sequence are flattened as the recursion says.
LEMMA FlatDef ==
  ASSUME NEW D, NEW s \in Seq(Seq(D))
  PROVE  /\ s = << >> => FlattenSeq(s) = << >>
         /\ s # << >> => \E f : /\ FlattenSeq(s) = f[Len(s)]
                               /\ \A i \in 1..Len(s) :
                                    /\ f[i] = IF i = 1 THEN s[i] ELSE f[i - 1] \o s[i]
                                    /\ f[i] \in Seq(D)
<1>0. Len(s) \in Nat /\ \A i \in 1..Len(s) : s[i] \in Seq(D)
  OBVIOUS
<1>1. s = << >> => FlattenSeq(s) = << >>
  BY DEF FlattenSeq
<1>2. ASSUME s # << >>
      PROVE  \E f : /\ FlattenSeq(s) = f[Len(s)]
                    /\ \A i \in 1..Len(s) :
                         /\ f[i] = IF i = 1 THEN s[i] ELSE f[i - 1] \o s[i]
                         /\ f[i] \in Seq(D)
  <2>1. \E f : IsFlat(f, s, Len(s))
    BY <1>0, FlatExists, Zenon
  <2> DEFINE f == CHOOSE g : IsFlat(g, s, Len(s))
             L == Len(s)
             T == {n \in Nat : n \in 1..L /\ f[n] \notin Seq(D)}
  <2>2. Len(s) # 0
    BY <1>2, EmptySeq
  <2>3. FlattenSeq(s) = f[Len(s)]
    BY <2>2 DEF FlattenSeq, IsFlat
  <2>4. IsFlat(f, s, L)
    BY <2>1
  <2> HIDE DEF f, L
  <2>5. \A i \in 1..L : f[i] = IF i = 1 THEN s[i] ELSE f[i - 1] \o s[i]
    BY <2>4 DEF IsFlat
  <2>6. T = {}
    <3> SUFFICES ASSUME T # {} PROVE FALSE
      OBVIOUS
    <3>1. PICK n \in T : \A m \in T : n <= m
      BY LeastNat
    <3>2. n \in Nat /\ n \in 1..L /\ f[n] \notin Seq(D) /\ s[n] \in Seq(D)
      BY <1>0, <3>1 DEF L
    <3>3. CASE n = 1
      BY <2>5, <3>2, <3>3
    <3>4. CASE n # 1
      <4>1. n - 1 \in 1..L /\ n - 1 \in Nat /\ ~(n <= n - 1)
        BY <1>0, <3>2, <3>4 DEF L
      <4>2. f[n - 1] \in Seq(D)
        BY <3>1, <4>1
      <4>3. f[n] = f[n - 1] \o s[n]
        BY <2>5, <3>2, <3>4
      <4> QED BY <3>2, <4>2, <4>3
    <3> QED BY <3>3, <3>4
  <2>7. \A i \in 1..L : f[i] \in Seq(D)
    <3>1. \A i \in 1..L : i \in Nat
      BY <1>0 DEF L
    <3> QED BY <2>6, <3>1
  <2> QED BY <2>3, <2>5, <2>7 DEF L
<1> QED BY <1>1, <1>2
\* A sequence added at the end comes last.
LEMMA FlatAppend ==
  ASSUME NEW D, NEW s \in Seq(Seq(D)), NEW x \in Seq(D)
  PROVE  FlattenSeq(Append(s, x)) = FlattenSeq(s) \o x /\ FlattenSeq(s) \in Seq(D)
<1> DEFINE A == Append(s, x)
           L == Len(s)
<1>0. /\ L \in Nat /\ A \in Seq(Seq(D)) /\ A # << >> /\ Len(A) = L + 1
      /\ \A i \in 1..L : A[i] = s[i]
      /\ A[L + 1] = x
  BY AppendProperties
<1> HIDE DEF A
<1>1. PICK g : /\ FlattenSeq(A) = g[Len(A)]
               /\ \A i \in 1..Len(A) : /\ g[i] = IF i = 1 THEN A[i] ELSE g[i - 1] \o A[i]
                                       /\ g[i] \in Seq(D)
  BY <1>0, FlatDef
<1>2. CASE s = << >>
  <2>1. FlattenSeq(s) = << >> /\ L = 0
    BY <1>2, FlatDef
  <2>2. FlattenSeq(A) = x
    BY <1>0, <1>1, <2>1
  <2> QED BY <2>1, <2>2, ConcatEmptySeq DEF A
<1>3. CASE s # << >>
  <2>1. PICK f : /\ FlattenSeq(s) = f[Len(s)]
                 /\ \A i \in 1..Len(s) : /\ f[i] = IF i = 1 THEN s[i] ELSE f[i - 1] \o s[i]
                                         /\ f[i] \in Seq(D)
    BY <1>3, FlatDef
  <2>2. L # 0
    BY <1>3, EmptySeq
  <2> HIDE DEF L
  <2>3. \A i \in 1..L : f[i] = IF i = 1 THEN s[i] ELSE f[i - 1] \o s[i]
    BY <2>1 DEF L
  <2>4. \A i \in 1..L : i \in 1..Len(A)
    BY <1>0
  <2>5. \A i \in 1..L : g[i] = IF i = 1 THEN s[i] ELSE g[i - 1] \o s[i]
    BY <1>0, <1>1, <2>4
  <2> DEFINE T == {n \in Nat : n \in 1..L /\ g[n] # f[n]}
  <2>6. T = {}
    <3> SUFFICES ASSUME T # {} PROVE FALSE
      OBVIOUS
    <3>1. PICK n \in T : \A m \in T : n <= m
      BY LeastNat
    <3>2. n \in Nat /\ n \in 1..L /\ g[n] # f[n]
      BY <3>1
    <3>3. CASE n = 1
      BY <2>3, <2>5, <3>2, <3>3
    <3>4. CASE n # 1
      <4>1. n - 1 \in 1..L /\ n - 1 \in Nat /\ ~(n <= n - 1)
        BY <1>0, <3>2, <3>4
      <4>2. g[n - 1] = f[n - 1]
        BY <3>1, <4>1
      <4> QED BY <2>3, <2>5, <3>2, <3>4, <4>2
    <3> QED BY <3>3, <3>4
  <2>7. L \in Nat /\ L \in 1..L /\ L + 1 # 1 /\ (L + 1) - 1 = L /\ L + 1 \in 1..Len(A)
    BY <1>0, <2>2
  <2>8. g[L] = f[L]
    BY <2>6, <2>7
  <2>9. g[L + 1] = g[L] \o x
    BY <1>0, <1>1, <2>7
  <2> QED BY <1>0, <1>1, <2>1, <2>7, <2>8, <2>9 DEF A, L
<1> QED BY <1>2, <1>3

Cat(a, b) == a \o b

\* Three sequences one after the other.
LEMMA Three ==
  ASSUME NEW D, NEW a \in Seq(D), NEW b \in Seq(D), NEW c \in Seq(D)
  PROVE  Cat(Cat(a, b), c) = Cat(a, Cat(b, c)) /\ Cat(a, b) \in Seq(D)
BY DEF Cat

\* The first sequence comes first.
LEMMA FlatTail ==
  ASSUME NEW D, NEW s \in Seq(Seq(D)), s # << >>
  PROVE  FlattenSeq(s) = s[1] \o FlattenSeq(Tail(s)) /\ FlattenSeq(Tail(s)) \in Seq(D)
<1> DEFINE t == Tail(s)
           L == Len(s)
<1>0. /\ L \in Nat \ {0} /\ t \in Seq(Seq(D)) /\ Len(t) = L - 1
      /\ \A i \in 1..Len(t) : t[i] = s[i + 1]
      /\ s[1] \in Seq(D)
  <2>1. L \in Nat \ {0}
    BY EmptySeq
  <2>2. \A i \in 1..L : s[i] \in Seq(D)
    OBVIOUS
  <2>3. 1 \in 1..L
    BY <2>1
  <2> QED BY <2>1, <2>2, <2>3, HeadTailProperties
<1>1. PICK f : /\ FlattenSeq(s) = f[Len(s)]
               /\ \A i \in 1..Len(s) : /\ f[i] = IF i = 1 THEN s[i] ELSE f[i - 1] \o s[i]
                                       /\ f[i] \in Seq(D)
  BY FlatDef
<1> HIDE DEF t, L
<1>2. \A i \in 1..L : f[i] = IF i = 1 THEN s[i] ELSE f[i - 1] \o s[i]
  BY <1>1 DEF L
<1>3. CASE t = << >>
  <2>1. FlattenSeq(t) = << >> /\ L = 1
    <3>1. Len(t) = 0
      BY <1>3
    <3>2. FlattenSeq(t) = << >>
      BY <1>0, <1>3, FlatDef
    <3> QED BY <1>0, <3>1, <3>2
  <2>2. f[1] = s[1] /\ FlattenSeq(s) = f[1]
    BY <1>1, <1>2, <2>1 DEF L
  <2>3. s[1] \o << >> = s[1]
    BY <1>0, ConcatEmptySeq
  <2>4. << >> \in Seq(D)
    OBVIOUS
  <2> QED BY <2>1, <2>2, <2>3, <2>4 DEF t
<1>4. CASE t # << >>
  <2>1. PICK g : /\ FlattenSeq(t) = g[Len(t)]
                 /\ \A i \in 1..Len(t) : /\ g[i] = IF i = 1 THEN t[i] ELSE g[i - 1] \o t[i]
                                         /\ g[i] \in Seq(D)
    BY <1>0, <1>4, FlatDef
  <2> DEFINE M == L - 1
  <2>2. M \in Nat \ {0} /\ Len(t) = M /\ L = M + 1
    <3>1. Len(t) # 0
      BY <1>0, <1>4, EmptySeq
    <3> QED BY <1>0, <3>1
  <2> HIDE DEF M
  <2>3. \A i \in 1..M : g[i] \in Seq(D) /\ t[i] \in Seq(D)
    BY <1>0, <2>1, <2>2
  <2> DEFINE T == {n \in Nat : n \in 1..M /\ f[n + 1] # s[1] \o g[n]}
  <2>4. T = {}
    <3> SUFFICES ASSUME T # {} PROVE FALSE
      OBVIOUS
    <3>1. PICK n \in T : \A m \in T : n <= m
      BY LeastNat
    <3>2. n \in Nat /\ n \in 1..M /\ f[n + 1] # s[1] \o g[n]
      BY <3>1
    <3>3. n + 1 \in 1..L /\ n + 1 # 1 /\ (n + 1) - 1 = n
      BY <2>2, <3>2
    <3>4. f[n + 1] = f[n] \o t[n]
      <4>1. f[n + 1] = f[n] \o s[n + 1]
        BY <1>2, <3>3
      <4>2. t[n] = s[n + 1]
        BY <1>0, <2>2, <3>2
      <4> QED BY <4>1, <4>2
    <3>5. CASE n = 1
      <4>1. g[1] = t[1] /\ f[1] = s[1]
        <5>1. 1 \in 1..L /\ 1 \in 1..M
          BY <2>2
        <5> QED BY <1>2, <2>1, <2>2, <5>1
      <4> QED BY <3>2, <3>4, <3>5, <4>1
    <3>6. CASE n # 1
      <4>1. n - 1 \in 1..M /\ n - 1 \in Nat /\ ~(n <= n - 1) /\ (n - 1) + 1 = n
        BY <2>2, <3>2, <3>6
      <4>2. f[n] = s[1] \o g[n - 1]
        BY <3>1, <4>1
      <4>3. g[n] = g[n - 1] \o t[n]
        BY <2>1, <2>2, <3>2, <3>6
      <4>4. s[1] \in Seq(D) /\ g[n - 1] \in Seq(D) /\ t[n] \in Seq(D)
        BY <1>0, <2>3, <3>2, <4>1
      <4>5. (s[1] \o g[n - 1]) \o t[n] = s[1] \o (g[n - 1] \o t[n])
        <5>1. PICK a \in Seq(D), b \in Seq(D), c \in Seq(D) :
                a = s[1] /\ b = g[n - 1] /\ c = t[n]
          BY <4>4
        <5> HIDE DEF T
        <5>2. Cat(Cat(a, b), c) = Cat(a, Cat(b, c))
          BY Three
        <5>3. (a \o b) \o c = a \o (b \o c)
          BY <5>2 DEF Cat
        <5> QED BY <5>1, <5>3
      <4> QED BY <3>2, <3>4, <4>2, <4>3, <4>5
    <3> QED BY <3>5, <3>6
  <2>5. f[M + 1] = s[1] \o g[M] /\ g[M] \in Seq(D)
    <3>1. M \in Nat /\ M \in 1..M
      BY <2>2
    <3> QED BY <2>3, <2>4, <3>1
  <2> QED BY <1>1, <2>1, <2>2, <2>5 DEF t, L
<1> QED BY <1>3, <1>4
LinesOf(q) == [i \in DOMAIN q |-> Line(q[i])]
AllLines(n) == [m \in 1..n |-> Line(m)]
BytesIn(q) == FlattenSeq(LinesOf(q))

\* The bytes of the lines in the queue, as lines are added and taken.
LEMMA QueueBytes ==
  ASSUME NEW q \in Seq(Nat)
  PROVE  /\ BytesIn(q) \in Seq(Byte)
         /\ \A x \in Nat : BytesIn(Append(q, x)) = Cat(BytesIn(q), Line(x))
         /\ q # << >> => /\ BytesIn(q) = Cat(Line(Head(q)), BytesIn(Tail(q)))
                        /\ BytesIn(Tail(q)) \in Seq(Byte)
<1> DEFINE D == Seq(Byte)
<1>0. Len(q) \in Nat /\ DOMAIN q = 1..Len(q) /\ \A i \in 1..Len(q) : q[i] \in Nat
  OBVIOUS
<1>1. \A i \in 1..Len(q) : Line(q[i]) \in D
  BY <1>0, LineFacts
<1>2. LinesOf(q) \in Seq(D) /\ Len(LinesOf(q)) = Len(q)
  <2> HIDE DEF D
  <2>1. LinesOf(q) \in [1..Len(q) -> D]
    BY <1>0, <1>1 DEF LinesOf
  <2> QED BY <1>0, <2>1
<1>3. ASSUME NEW x \in Nat
      PROVE  BytesIn(Append(q, x)) = Cat(BytesIn(q), Line(x)) /\ BytesIn(q) \in Seq(Byte)
  <2> DEFINE A == Append(q, x)
             L == Len(q)
  <2>1. Line(x) \in Seq(Byte)
    BY LineFacts
  <2>2. /\ DOMAIN A = 1..(L + 1) /\ A[L + 1] = x
        /\ \A i \in 1..L : A[i] = q[i]
    OBVIOUS
  <2>3. LinesOf(A) = Append(LinesOf(q), Line(x))
    <3> HIDE DEF A, D
    <3>1. DOMAIN LinesOf(A) = 1..(L + 1) /\ \A i \in 1..(L+1) : LinesOf(A)[i] = Line(A[i])
      BY <2>2 DEF LinesOf
    <3>2. \A i \in 1..L : LinesOf(q)[i] = Line(q[i])
      BY <1>0 DEF LinesOf
    <3> DEFINE B == Append(LinesOf(q), Line(x))
    <3>3. /\ DOMAIN B = 1..(L + 1) /\ B[L + 1] = Line(x)
          /\ \A i \in 1..L : B[i] = LinesOf(q)[i]
          /\ B = [i \in 1..(L + 1) |-> B[i]]
      <4>1. Line(x) \in D
        BY <2>1 DEF D
      <4>2. /\ B \in Seq(D) /\ Len(B) = L + 1 /\ B[L + 1] = Line(x)
            /\ \A i \in 1..L : B[i] = LinesOf(q)[i]
        BY <1>2, <4>1, AppendProperties
      <4> HIDE DEF B
      <4>3. DOMAIN B = 1..(L + 1) /\ B = [i \in 1..(L + 1) |-> B[i]]
        BY <4>2
      <4> QED BY <4>2, <4>3
    <3>4. \A i \in 1..(L + 1) : i \in 1..L \/ i = L + 1
      BY <1>0
    <3> HIDE DEF B
    <3>5. \A i \in 1..(L + 1) : LinesOf(A)[i] = B[i]
      BY <2>2, <3>1, <3>2, <3>3, <3>4
    <3>6. LinesOf(A) = [i \in 1..(L + 1) |-> LinesOf(A)[i]]
      BY <3>1 DEF LinesOf
    <3> QED BY <3>3, <3>5, <3>6 DEF B
  <2> HIDE DEF A
  <2> QED BY <1>2, <2>1, <2>3, FlatAppend DEF BytesIn, Cat, A
<1>4. ASSUME q # << >>
      PROVE  /\ BytesIn(q) = Cat(Line(Head(q)), BytesIn(Tail(q)))
             /\ BytesIn(Tail(q)) \in Seq(Byte)
  <2> DEFINE t == Tail(q)
             s == LinesOf(q)
  <2>1. /\ Len(q) \in Nat \ {0} /\ t \in Seq(Nat) /\ Len(t) = Len(q) - 1
        /\ \A i \in 1..Len(t) : t[i] = q[i + 1]
        /\ Head(q) = q[1]
    BY <1>4, EmptySeq, HeadTailProperties
  <2>2. DOMAIN t = 1..(Len(q) - 1)
    BY <2>1
  <2>3. s \in Seq(D) /\ Len(s) = Len(q) /\ s # << >> /\ s[1] = Line(Head(q))
    <3>1. s \in Seq(D) /\ Len(s) = Len(q)
      BY <1>2
    <3>2. 1 \in DOMAIN q
      BY <1>0, <2>1
    <3>3. s[1] = Line(Head(q))
      BY <2>1, <3>2 DEF LinesOf
    <3> HIDE DEF s
    <3> QED BY <2>1, <3>1, <3>3
  <2>4. Tail(s) = LinesOf(t)
    <3>1. /\ DOMAIN LinesOf(t) = 1..(Len(q) - 1)
          /\ \A i \in 1..(Len(q) - 1) : LinesOf(t)[i] = Line(t[i])
          /\ LinesOf(t) = [i \in 1..(Len(q) - 1) |-> LinesOf(t)[i]]
      BY <2>2 DEF LinesOf
    <3>2. \A i \in 1..Len(q) : s[i] = Line(q[i])
      BY <1>0 DEF LinesOf
    <3> HIDE DEF s, t
    <3>3. /\ DOMAIN Tail(s) = 1..(Len(q) - 1)
          /\ \A i \in 1..(Len(q) - 1) : Tail(s)[i] = s[i + 1]
          /\ Tail(s) = [i \in 1..(Len(q) - 1) |-> Tail(s)[i]]
      <4> DEFINE u == Tail(s)
      <4>1. u \in Seq(D) /\ Len(u) = Len(q) - 1 /\ \A i \in 1..Len(u) : u[i] = s[i + 1]
        BY <2>3, HeadTailProperties
      <4> HIDE DEF u, D
      <4>2. DOMAIN u = 1..(Len(q) - 1) /\ u = [i \in 1..(Len(q) - 1) |-> u[i]]
        BY <4>1
      <4> QED BY <4>1, <4>2 DEF u
    <3>4. \A i \in 1..(Len(q) - 1) : i + 1 \in 1..Len(q)
      BY <2>1
    <3>5. \A i \in 1..(Len(q) - 1) : Tail(s)[i] = LinesOf(t)[i]
      BY <2>1, <3>1, <3>2, <3>3, <3>4
    <3> QED BY <3>1, <3>3, <3>5
  <2> HIDE DEF s, t
  <2>5. FlattenSeq(s) = s[1] \o FlattenSeq(Tail(s)) /\ FlattenSeq(Tail(s)) \in Seq(Byte)
    BY <2>3, FlatTail
  <2> QED BY <2>3, <2>4, <2>5 DEF BytesIn, Cat, s, t
<1>5. 0 \in Nat
  OBVIOUS
<1>6. BytesIn(q) \in Seq(Byte)
  BY <1>3, <1>5
<1> QED BY <1>3, <1>4, <1>6

\* The bytes of all lines, as a line is accepted.
LEMMA AllBytes ==
  ASSUME NEW n \in Nat
  PROVE  /\ FlattenSeq(AllLines(n)) \in Seq(Byte)
         /\ FlattenSeq(AllLines(n + 1)) = Cat(FlattenSeq(AllLines(n)), Line(n + 1))
         /\ FlattenSeq(AllLines(0)) = << >> /\ BytesIn(<< >>) = << >>
<1> DEFINE q == [i \in 1..n |-> i]
           r == [i \in 1..(n + 1) |-> i]
<1>1. q \in Seq(Nat) /\ r = Append(q, n + 1) /\ n + 1 \in Nat
  <2>1. q \in Seq(Nat) /\ Len(q) = n
    OBVIOUS
  <2> DEFINE A == Append(q, n + 1)
  <2>2. /\ DOMAIN A = 1..(n + 1) /\ A[n + 1] = n + 1 /\ \A i \in 1..n : A[i] = i
        /\ A = [i \in 1..(n + 1) |-> A[i]]
    BY <2>1
  <2>3. \A i \in 1..(n + 1) : i \in 1..n \/ i = n + 1
    OBVIOUS
  <2> HIDE DEF A
  <2>4. \A i \in 1..(n + 1) : A[i] = i
    BY <2>2, <2>3
  <2> QED BY <2>1, <2>2, <2>4 DEF A
<1>2. LinesOf(q) = AllLines(n) /\ LinesOf(r) = AllLines(n + 1)
  BY DEF LinesOf, AllLines
<1>3. FlattenSeq(AllLines(0)) = << >> /\ BytesIn(<< >>) = << >>
  <2>1. AllLines(0) = << >> /\ LinesOf(<< >>) = << >>
    BY DEF AllLines, LinesOf
  <2>2. FlattenSeq(<< >>) = << >>
    BY DEF FlattenSeq
  <2> QED BY <2>1, <2>2 DEF BytesIn
<1> HIDE DEF q, r
<1>4. BytesIn(q) \in Seq(Byte) /\ BytesIn(r) = Cat(BytesIn(q), Line(n + 1))
  BY <1>1, QueueBytes
<1> QED BY <1>2, <1>3, <1>4 DEF BytesIn
\* The accepted bytes are the sent ones, the buffer and the queue.
DataOK ==
  Cat(Cat(sent, MessageBuffer), BytesIn(Messages)) = FlattenSeq(AllLines(lines))

\* A line that moves from the queue to the buffer changes no byte.
LEMMA MovedBytes ==
  ASSUME BuffersOK, NEW x \in Seq(Byte), NEW buffer \in Seq(Byte), Moved(buffer)
  PROVE  Cat(Cat(x, MessageBuffer'), BytesIn(Messages')) = Cat(Cat(x, buffer), BytesIn(Messages))
<1>1. CASE MessageBuffer' = buffer /\ UNCHANGED Messages
  BY <1>1
<1>2. CASE /\ Messages # << >> /\ Messages' = Tail(Messages)
           /\ MessageBuffer' = buffer \o Line(Head(Messages))
  <2>1. Messages \in Seq(Nat)
    BY DEF BuffersOK
  <2>2. PICK l, t : l = Line(Head(Messages)) /\ t = BytesIn(Tail(Messages))
    OBVIOUS
  <2>3. BytesIn(Messages) = Cat(l, t) /\ t \in Seq(Byte) /\ l \in Seq(Byte)
    <3>1. Head(Messages) \in Nat
      BY <1>2, <2>1, HeadTailProperties
    <3> QED BY <1>2, <2>1, <2>2, <3>1, QueueBytes, LineFacts
  <2>4. MessageBuffer' = Cat(buffer, l) /\ BytesIn(Messages') = t
    BY <1>2, <2>2 DEF Cat
  <2>5. Cat(x, Cat(buffer, l)) = Cat(Cat(x, buffer), l) /\ Cat(x, buffer) \in Seq(Byte)
    BY <2>3, Three
  <2>6. Cat(Cat(Cat(x, buffer), l), t) = Cat(Cat(x, buffer), Cat(l, t))
    BY <2>3, <2>5, Three
  <2> QED BY <2>3, <2>4, <2>5, <2>6
<1> QED BY <1>1, <1>2 DEF Moved

\* Nor does a handler.
LEMMA TransferBytes ==
  ASSUME BuffersOK, DataOK, Transfer, UNCHANGED lines
  PROVE  BuffersOK' /\ DataOK'
<1>0. /\ sent \in Seq(Byte) /\ MessageBuffer \in Seq(Byte) /\ Messages \in Seq(Nat)
      /\ lines \in Nat
  BY DEF BuffersOK
<1>1. CASE UNCHANGED sent /\ Moved(MessageBuffer)
  <2>1. BuffersOK'
    BY <1>0, <1>1 DEF BuffersOK, Moved
  <2>2. Cat(Cat(sent, MessageBuffer'), BytesIn(Messages')) = Cat(Cat(sent, MessageBuffer), BytesIn(Messages))
    BY <1>0, <1>1, MovedBytes
  <2> QED BY <1>1, <2>1, <2>2 DEF DataOK
<1>2. ASSUME NEW n \in 0..Len(MessageBuffer),
             sent' = sent \o SubSeq(MessageBuffer, 1, n), Moved(Unsent(n))
      PROVE  BuffersOK' /\ DataOK'
  <2>0. n \in Nat
    BY <1>0
  <2>1. PICK a, b : a = SubSeq(MessageBuffer, 1, n) /\ b = Unsent(n)
    OBVIOUS
  <2>2. a \in Seq(Byte) /\ b \in Seq(Byte)
    BY <1>0, <2>1 DEF Unsent
  <2>3. Cat(a, b) = MessageBuffer
    <3>1. 1 \in 1..(Len(MessageBuffer) + 1) /\ n \in (1 - 1)..Len(MessageBuffer)
          /\ Len(MessageBuffer) \in n..Len(MessageBuffer)
      BY <1>0
    <3>2. SubSeq(MessageBuffer, 1, n) \o SubSeq(MessageBuffer, n + 1, Len(MessageBuffer))
            = SubSeq(MessageBuffer, 1, Len(MessageBuffer))
      BY <1>0, <3>1, ConcatAdjacentSubSeq
    <3>3. SubSeq(MessageBuffer, 1, Len(MessageBuffer)) = MessageBuffer
      BY <1>0, SubSeqFull
    <3> QED BY <2>1, <3>2, <3>3 DEF Cat, Unsent
  <2>4. sent' = Cat(sent, a)
    BY <1>2, <2>1 DEF Cat
  <2>5. sent' \in Seq(Byte) /\ Cat(Cat(sent, a), b) = Cat(sent, Cat(a, b))
    BY <1>0, <2>2, <2>4, Three
  <2>6. Cat(Cat(sent', MessageBuffer'), BytesIn(Messages')) = Cat(Cat(sent', b), BytesIn(Messages))
    BY <1>2, <2>1, <2>2, <2>5, MovedBytes
  <2>7. BuffersOK'
    BY <1>0, <1>2, <2>5 DEF BuffersOK, Moved
  <2> QED BY <2>3, <2>4, <2>5, <2>6, <2>7 DEF DataOK
<1> QED BY <1>1, <1>2 DEF Transfer

CarbonInv == BuffersOK /\ ConnectionInv /\ DataOK

\* A line is accepted, or dropped because the queue is full.
LEMMA SendMessageStep ==
  ASSUME CarbonInv, sendMessage, UNCHANGED <<MessageBuffer, sent, network>>
  PROVE  CarbonInv'
<1>0. /\ sent \in Seq(Byte) /\ MessageBuffer \in Seq(Byte) /\ Messages \in Seq(Nat)
      /\ lines \in Nat
  BY DEF BuffersOK, CarbonInv
<1>1. ConnectionInv'
  BY DEF CarbonInv, ConnectionInv, NetworkOK, network
<1>2. CASE UNCHANGED <<Messages, lines>>
  BY <1>1, <1>2 DEF CarbonInv, BuffersOK, DataOK
<1>3. CASE Messages' = Append(Messages, lines + 1) /\ lines' = lines + 1
  <2>1. lines + 1 \in Nat
    BY <1>0
  <2>2. BuffersOK'
    BY <1>0, <1>3, <2>1 DEF BuffersOK
  <2> DEFINE a == Cat(sent, MessageBuffer)
             b == BytesIn(Messages)
             l == Line(lines + 1)
  <2>3. b \in Seq(Byte) /\ BytesIn(Messages') = Cat(b, l)
    BY <1>0, <1>3, <2>1, QueueBytes
  <2>4. FlattenSeq(AllLines(lines')) = Cat(FlattenSeq(AllLines(lines)), l)
    BY <1>0, <1>3, AllBytes
  <2>5. l \in Seq(Byte)
    BY <2>1, LineFacts
  <2>6. a \in Seq(Byte)
    BY <1>0 DEF Cat
  <2> HIDE DEF a, b, l
  <2>7. Cat(Cat(a, b), l) = Cat(a, Cat(b, l))
    BY <2>3, <2>5, <2>6, Three
  <2>8. Cat(a, b) = FlattenSeq(AllLines(lines))
    BY DEF CarbonInv, DataOK, a, b
  <2>9. Cat(sent', MessageBuffer') = a
    BY DEF a
  <2>10. DataOK'
    BY <2>3, <2>4, <2>7, <2>8, <2>9 DEF DataOK
  <2> QED BY <1>1, <2>2, <2>10 DEF CarbonInv
<1> QED BY <1>2, <1>3 DEF sendMessage

\* Initially an address is asked for, and there are no bytes.
LEMMA CarbonInitInv == CarbonInit => CarbonInv
<1> SUFFICES ASSUME CarbonInit PROVE CarbonInv
  OBVIOUS
<1>1. BuffersOK
  BY DEF CarbonInit, BuffersOK
<1>2. NetworkOK
  BY DEF CarbonInit, NetworkOK, Sockets, Pendable, Keeping
<1>3. Connection({"resolve"}, << >>, "closed")
  <2>1. \A i, ops : ~HasOp(<< >>, i, ops)
    BY DEF HasOp
  <2>2. {"resolve"} \intersect Keeping = {"resolve"} /\ "resolve" \in Keeping
        /\ "write" \notin {"resolve"}
    BY DEF Keeping
  <2>3. Keeper({"resolve"}, << >>, "resolve")
    BY <2>1, <2>2 DEF Keeper
  <2>4. NoSender({"resolve"}, << >>)
    BY <2>1, <2>2 DEF NoSender
  <2>5. Known("resolve", {"resolve"}, << >>, "closed")
    BY <2>4 DEF Known
  <2> QED BY <2>2, <2>3, <2>4, <2>5 DEF Connection, OneSender
<1>4. WritesFit(<< >>, << >>)
  BY DEF WritesFit, HasOp
<1>5. DataOK
  <2>1. Cat(Cat(<< >>, << >>), << >>) = << >>
    BY DEF Cat
  <2>2. FlattenSeq(AllLines(0)) = << >> /\ BytesIn(<< >>) = << >>
    BY AllBytes
  <2> QED BY <2>1, <2>2 DEF CarbonInit, DataOK
<1> QED BY <1>1, <1>2, <1>3, <1>4, <1>5 DEF CarbonInit, CarbonInv, ConnectionInv

\* A handler runs, or an operation completes.
LEMMA CarbonStep ==
  ASSUME CarbonInv, CarbonNext PROVE CarbonInv'
<1>0. BuffersOK /\ ConnectionInv /\ DataOK
  BY DEF CarbonInv
<1>1. CASE RunHandler
  <2>1. Head(ready) \in Handlers
    BY <1>0, <1>1, HeadTailProperties DEF RunHandler, ConnectionInv, NetworkOK
  <2>2. Head(ready).op \in Keeping \/ Head(ready).op \in Sending
    BY <2>1 DEF Handlers, Operations
  <2>3. ConnectionInv' /\ Transfer
    BY <1>0, <1>1, <2>2, KeepingHandlers, SendingHandlers
  <2>4. UNCHANGED lines
    BY <1>1 DEF RunHandler
  <2> QED BY <1>0, <2>3, <2>4, TransferBytes DEF CarbonInv
<1>2. ASSUME NEW h \in Handlers, h.op \in pending, Completed(h),
             h.op = "write" => h.bytes \in 0..Len(MessageBuffer)
      PROVE  CarbonInv'
  <2>1. ConnectionInv'
    BY <1>0, <1>2, CompletionStep
  <2>2. UNCHANGED <<Messages, MessageBuffer, sent, lines>>
    BY <1>2 DEF Completed, buffers
  <2>3. BuffersOK' /\ DataOK'
    BY <1>0, <2>2 DEF BuffersOK, DataOK
  <2> QED BY <2>1, <2>3 DEF CarbonInv
<1>3. /\ \A op \in pending : op \in Operations
      /\ Len(MessageBuffer) \in Nat
  BY <1>0 DEF ConnectionInv, NetworkOK, Pendable, Operations, Sending, BuffersOK
<1>4. CASE CompleteWell
  <2>1. PICK op \in pending :
          Completed([Ok(op) EXCEPT !.bytes = IF op = "write" THEN Len(MessageBuffer) ELSE 0])
    BY <1>4 DEF CompleteWell
  <2>2. PICK n \in Nat : n = (IF op = "write" THEN Len(MessageBuffer) ELSE 0)
    BY <1>3
  <2>3. n \in 0..Len(MessageBuffer)
    BY <1>3, <2>2
  <2> DEFINE h == [Ok(op) EXCEPT !.bytes = n]
  <2>4. h \in Handlers /\ h.op = op /\ h.bytes = n
    BY <1>3, HandlerFacts
  <2>5. Completed(h)
    BY <2>1, <2>2
  <2> HIDE DEF h
  <2> QED BY <1>2, <2>3, <2>4, <2>5
<1>5. CASE ServerSends
  <2>1. "receive" \in pending /\ Completed(Ok("receive"))
    BY <1>5 DEF ServerSends
  <2> DEFINE h == Ok("receive")
  <2>2. h \in Handlers /\ h.op = "receive"
    BY <1>3, <2>1, HandlerFacts
  <2> HIDE DEF h
  <2> QED BY <1>2, <2>1, <2>2 DEF h
<1>6. CASE CompleteBadly
  <2>1. PICK op \in pending : \E n \in BytesOf(op) : Completed([Failed(op) EXCEPT !.bytes = n])
    BY <1>6 DEF CompleteBadly
  <2>2. PICK n \in BytesOf(op) : Completed([Failed(op) EXCEPT !.bytes = n])
    BY <2>1
  <2>3. n \in Nat /\ n \in 0..Len(MessageBuffer)
    BY <1>3 DEF BytesOf
  <2> DEFINE h == [Failed(op) EXCEPT !.bytes = n]
  <2>4. h \in Handlers /\ h.op = op /\ h.bytes = n
    BY <1>3, <2>3, HandlerFacts
  <2>5. Completed(h)
    BY <2>2
  <2> HIDE DEF h
  <2> QED BY <1>2, <2>3, <2>4, <2>5
<1> QED BY <1>1, <1>4, <1>5, <1>6 DEF CarbonNext

\* What the connection's invariant says of the number of operations.
LEMMA OperationsCounted ==
  ASSUME NetworkOK, Connection(pending, ready, socket)
  PROVE  Outstanding(Keeping) = 1 /\ Outstanding(Sending) <= 1
<1> DEFINE InReady(ops) == {i \in DOMAIN ready : ready[i].op \in ops}
<1>1. PICK k \in Keeping : Keeper(pending, ready, k) /\ OneSender(pending, ready)
  BY DEF Connection
<1>2. \A ops : \A i : i \in InReady(ops) <=> HasOp(ready, i, ops)
  BY DEF HasOp
<1>3. Cardinality({}) = 0 /\ \A x : Cardinality({x}) = 1
  BY FS_EmptySet, FS_Singleton
<1>4. \A ops : Outstanding(ops) = Cardinality(pending \intersect ops) + Cardinality(InReady(ops))
  BY DEF Outstanding
<1> HIDE DEF InReady
<1>5. Outstanding(Keeping) = 1
  <2>1. CASE pending \intersect Keeping = {k} /\ \A i : ~HasOp(ready, i, Keeping)
    <3>1. InReady(Keeping) = {}
      BY <1>2, <2>1
    <3>2. Outstanding(Keeping) = Cardinality({k}) + Cardinality({})
      BY <1>4, <2>1, <3>1
    <3>3. Cardinality({k}) = 1
      BY <1>3
    <3> QED BY <1>3, <3>2, <3>3
  <2>2. CASE /\ pending \intersect Keeping = {}
             /\ \E i : HasOp(ready, i, {k}) /\ \A j : HasOp(ready, j, Keeping) => j = i
    <3>1. PICK i : HasOp(ready, i, {k}) /\ \A j : HasOp(ready, j, Keeping) => j = i
      BY <2>2
    <3>2. HasOp(ready, i, Keeping)
      BY <3>1 DEF HasOp
    <3>3. InReady(Keeping) = {i}
      BY <1>2, <3>1, <3>2
    <3>4. Outstanding(Keeping) = Cardinality({}) + Cardinality({i})
      BY <1>4, <2>2, <3>3
    <3>5. Cardinality({i}) = 1
      BY <1>3
    <3> QED BY <1>3, <3>4, <3>5
  <2> QED BY <1>1, <2>1, <2>2 DEF Keeper
<1>6. Outstanding(Sending) <= 1
  <2>1. /\ "write" \in pending => pending \intersect Sending = {"write"}
        /\ "write" \notin pending => pending \intersect Sending = {}
    BY DEF NetworkOK, Pendable, Keeping, Sending
  <2>2. CASE NoSender(pending, ready) \/ ("write" \in pending /\ \A i : ~HasOp(ready, i, Sending))
    <3>1. InReady(Sending) = {}
      BY <1>2, <2>2 DEF NoSender
    <3>2. \/ Outstanding(Sending) = Cardinality({}) + Cardinality({})
          \/ Outstanding(Sending) = Cardinality({"write"}) + Cardinality({})
      BY <1>4, <2>1, <3>1
    <3>3. Cardinality({"write"}) = 1
      BY <1>3
    <3> QED BY <1>3, <3>2, <3>3
  <2>3. CASE /\ "write" \notin pending
             /\ \E i : HasOp(ready, i, Sending) /\ \A j : HasOp(ready, j, Sending) => j = i
    <3>1. PICK i : HasOp(ready, i, Sending) /\ \A j : HasOp(ready, j, Sending) => j = i
      BY <2>3
    <3>2. InReady(Sending) = {i}
      BY <1>2, <3>1
    <3>3. Outstanding(Sending) = Cardinality({}) + Cardinality({i})
      BY <1>4, <2>1, <2>3, <3>2
    <3>4. Cardinality({i}) = 1
      BY <1>3
    <3> QED BY <1>3, <3>3, <3>4
  <2> QED BY <1>1, <2>2, <2>3 DEF OneSender
<1> QED BY <1>5, <1>6

(* However counters are reported and connections break, at any byte, what was
   sent, the buffer and the queue together are the lines that were accepted, in
   their order; one operation keeps up the connection, and at most one sends. *)
THEOREM SentInOrderCorrect == Spec => []SentInOrder
<1>1. Init => CarbonInv
  BY CarbonInitInv DEF Init
<1>2. CarbonInv /\ [Next]_vars => CarbonInv'
  <2> SUFFICES ASSUME CarbonInv, [Next]_vars PROVE CarbonInv'
    OBVIOUS
  <2>1. ASSUME UNCHANGED carbon PROVE CarbonInv'
    BY <2>1 DEF carbon, buffers, network, CarbonInv, BuffersOK, ConnectionInv, NetworkOK, DataOK
  <2>2. CASE CarbonNext
    BY <2>2, CarbonStep
  <2>3. CASE reportMetric
    BY <2>1, <2>3, SendMessageStep DEF reportMetric
  <2>4. CASE construct \/ registerMetric \/ destroy \/ tryRemoveMetric \/ reportMetrics
    BY <2>1, <2>4 DEF construct, registerMetric, destroy, tryRemoveMetric, reportMetrics
  <2>5. CASE UNCHANGED vars
    BY <2>1, <2>5 DEF vars
  <2> QED BY <2>2, <2>3, <2>4, <2>5 DEF Next
<1>3. CarbonInv => SentInOrder
  <2> SUFFICES ASSUME CarbonInv PROVE SentInOrder
    OBVIOUS
  <2>1. Outstanding(Keeping) = 1 /\ Outstanding(Sending) <= 1
    BY OperationsCounted DEF CarbonInv, ConnectionInv
  <2>2. (sent \o MessageBuffer) \o FlattenSeq(LinesOf(Messages)) = FlattenSeq(AllLines(lines))
    BY DEF CarbonInv, DataOK, Cat, BytesIn
  <2> QED BY <2>1, <2>2 DEF SentInOrder, Keeping, Sending, LinesOf, AllLines
<1> QED BY <1>1, <1>2, <1>3, PTL DEF Spec
=============================================================================
