------------------------------ MODULE MCProcess ------------------------------
(***************************************************************************)
(* The parts of the process beside its jobs, one at a time: the metrics    *)
(* with two counters of the same name, one of them for carbon only, and    *)
(* both kinds of sinks; these and a counter without a name, while the      *)
(* connection rests; and the main loop.                                    *)
(***************************************************************************)
EXTENDS Metrics, MainLoop

VARIABLE part

MCReporterList == <<"log", "carbon">>
MCFullName == [a |-> "x", b |-> "x", c |-> ""]
MCSinkTypes == [a |-> {"log", "carbon"}, b |-> {"carbon"}, c |-> {"log"}]

MCInit == Init /\ MainInit /\ part \in {"metrics", "names", "main"}

Rest == UNCHANGED part
MCMetrics == part = "metrics" /\ Next /\ metric'["c"] = metric["c"] /\ UNCHANGED mainVars /\ Rest
MCNames == part = "names" /\ Next /\ UNCHANGED <<carbon, mainVars>> /\ Rest
MCMain == part = "main" /\ MainNext /\ UNCHANGED vars /\ Rest

\* The threads are scheduled, time goes on, and operations that the asio thread
\* has started complete.
MCSpec ==
  /\ MCInit
  /\ [][MCMetrics \/ MCNames \/ MCMain]_<<vars, mainVars, part>>
  /\ WF_vars(MCMetrics /\ RunHandler) /\ WF_vars(MCMetrics /\ CompleteWell)
  /\ WF_mainVars(MCMain /\ MainThread) /\ WF_mainVars(MCMain /\ MainTick)
=============================================================================
