------------------------------- MODULE Metrics -------------------------------
(***************************************************************************)
(* The metrics (src/Metrics): counters that threads create and destroy,    *)
(* each registered with several Reporters. A Reporter has a thread that    *)
(* reads its counters from time to time through plain pointers and hands   *)
(* them to its sink, the log or the connection of CarbonConnection.        *)
(***************************************************************************)
EXTENDS CarbonConnection

CONSTANTS
  ReporterList, \* the reporters, in the Registrar's order: "log", "carbon"
  Metric,       \* the counters
  FullName,     \* their names, with the Registrar's prefix
  Unnamed,      \* those whose name without the prefix is empty
  SinkTypes,    \* per counter: the reporters it is to be registered with
  None,
  MaxLines      \* bound on the lines handed to the connection

Reporters == Range(ReporterList)
Names == Range(FullName)

ASSUME MetricsAssumption ==
  /\ ReporterList \in Seq(Reporters) /\ IsInjective(ReporterList)
  /\ DOMAIN FullName = Metric /\ None \notin Metric \union Names /\ MaxLines \in Nat
  /\ Unnamed \subseteq Metric /\ SinkTypes \in [Metric -> SUBSET Reporters]

VARIABLES
  metric,            \* of each counter: its life, the next reporter it is to be
                     \* registered with, and the Reporters it knows of
  MetricsToReportOn, \* per reporter and name, a pointer to a counter
  reporting          \* per reporter: names still to be reported under its mutex

metrics == <<metric, MetricsToReportOn, reporting>>
vars == <<metrics, carbon>>

Idle == {None}
Unlocked(r) == reporting[r] = Idle

Init ==
  /\ CarbonInit
  /\ metric = [m \in Metric |-> [life |-> "none", next |-> 1, Reporters |-> {}]]
  /\ MetricsToReportOn = [r \in Reporters |-> [n \in Names |-> None]]
  /\ reporting = [r \in Reporters |-> Idle]

\* A counter is constructed, and its owner calls registerMetric.
construct ==
  /\ \E m \in Metric :
       /\ metric[m].life = "none"
       /\ metric' = [metric EXCEPT ![m].life = "registering"]
  /\ UNCHANGED <<MetricsToReportOn, reporting, carbon>>

\* Mutant: only the last reporter is remembered.
setDeregistrationDetails_Last(m, r) == {r}

setDeregistrationDetails(m, r) == metric[m].Reporters \union {r}

\* One turn of the loop of registerMetric: a reporter whose sink is not asked for
\* is left out, others get an addMetric, which does nothing if the name is taken.
\* Then registerMetric throws, as it does for an empty name, and the counter is
\* destroyed.
registerMetric ==
  /\ \E m \in Metric :
       /\ metric[m].life = "registering"
       /\ \/ /\ m \in Unnamed
             /\ metric' = [metric EXCEPT ![m].life = "destroying"]
             /\ UNCHANGED MetricsToReportOn
          \/ /\ m \notin Unnamed /\ metric[m].next > Len(ReporterList)
             /\ metric' = [metric EXCEPT ![m].life = "live"]
             /\ UNCHANGED MetricsToReportOn
          \/ /\ m \notin Unnamed /\ metric[m].next <= Len(ReporterList)
             /\ ReporterList[metric[m].next] \notin SinkTypes[m]
             /\ metric' = [metric EXCEPT ![m].next = @ + 1]
             /\ UNCHANGED MetricsToReportOn
          \/ /\ m \notin Unnamed /\ metric[m].next <= Len(ReporterList)
             /\ ReporterList[metric[m].next] \in SinkTypes[m]
             /\ LET r == ReporterList[metric[m].next]
                    n == FullName[m]
                IN  /\ Unlocked(r)
                    /\ \/ /\ MetricsToReportOn[r][n] = None
                          /\ MetricsToReportOn' = [MetricsToReportOn EXCEPT ![r][n] = m]
                          /\ metric' = [metric EXCEPT
                                          ![m].next = @ + 1,
                                          ![m].Reporters = setDeregistrationDetails(m, r)]
                       \/ /\ MetricsToReportOn[r][n] # None
                          /\ metric' = [metric EXCEPT ![m].life = "destroying"]
                          /\ UNCHANGED MetricsToReportOn
  /\ UNCHANGED <<reporting, carbon>>

\* The destructor begins.
destroy ==
  /\ \E m \in Metric :
       /\ metric[m].life = "live"
       /\ metric' = [metric EXCEPT ![m].life = "destroying"]
  /\ UNCHANGED <<MetricsToReportOn, reporting, carbon>>

\* It removes the counter from a reporter, then its memory is freed.
tryRemoveMetric ==
  /\ \E m \in Metric :
       /\ metric[m].life = "destroying"
       /\ \/ /\ metric[m].Reporters = {}
             /\ metric' = [metric EXCEPT ![m].life = "gone"]
             /\ UNCHANGED MetricsToReportOn
          \/ \E r \in metric[m].Reporters :
               /\ Unlocked(r)
               /\ MetricsToReportOn' = [MetricsToReportOn EXCEPT ![r][FullName[m]] = None]
               /\ metric' = [metric EXCEPT ![m].Reporters = @ \ {r}]
  /\ UNCHANGED <<reporting, carbon>>

Registered(r) == {n \in Names : MetricsToReportOn[r][n] # None}

\* reportMetrics begins: it takes the mutex if the sink is healthy. Whatever it
\* does, it starts its timer again.
reportMetrics ==
  /\ \E r \in Reporters :
       /\ Unlocked(r) /\ Registered(r) # {}
       /\ r = "carbon" => isHealthy /\ lines < MaxLines
       /\ reporting' = [reporting EXCEPT ![r] = Registered(r)]
  /\ UNCHANGED <<metric, MetricsToReportOn, carbon>>

\* reportMetric of the sink reads a counter; at the end the mutex is released.
reportMetric ==
  /\ \E r \in Reporters :
       /\ ~Unlocked(r)
       /\ \/ \E n \in reporting[r] :
               /\ reporting' = [reporting EXCEPT ![r] = @ \ {n}]
               /\ IF r = "carbon" /\ lines < MaxLines
                  THEN sendMessage /\ UNCHANGED <<MessageBuffer, sent, network>>
                  ELSE UNCHANGED carbon
          \/ /\ reporting[r] = {}
             /\ reporting' = [reporting EXCEPT ![r] = Idle]
             /\ UNCHANGED carbon
  /\ UNCHANGED <<metric, MetricsToReportOn>>

Next ==
  \/ construct \/ registerMetric \/ destroy \/ tryRemoveMetric
  \/ reportMetrics \/ reportMetric
  \/ (CarbonNext /\ UNCHANGED metrics)

Spec == Init /\ [][Next]_vars

-----------------------------------------------------------------------------
(* No reporter has a pointer to a counter that is gone, and the counter it is
   about to read is alive, whether counters are destroyed while they are
   reported, or were refused because their name was taken. *)
NoDanglingCounter ==
  \A r \in Reporters :
    /\ \A n \in Registered(r) : metric[MetricsToReportOn[r][n]].life # "gone"
    /\ \A n \in reporting[r] \ Idle : MetricsToReportOn[r][n] # None
=============================================================================
