----------------------------- MODULE MCPartition -----------------------------
(* Partition with filters that share a source and one that does not. Time runs
   past the latest stop time, its leeway and the error time limit. *)
EXTENDS Partition

MCSourceOf == [w \in Writers |-> IF w = "w2" THEN "s2" ELSE "s1"]

Kind(src, ts, valid, kafkaTime, skip) ==
  [src |-> src, ts |-> ts, valid |-> valid, kafkaTime |-> kafkaTime, skip |-> skip]

\* Before the window and past it; another source; broken. Their Kafka timestamps
\* are missing, at the stop time, within its leeway and past it.
MCKinds == {Kind("s1", 1, TRUE, -1, 0), Kind("s1", 3, TRUE, 3, 1),
            Kind("s2", 3, TRUE, 2, 0), Kind("s2", 1, FALSE, 4, 0)}

MCFewKinds == {Kind("s1", 1, TRUE, 1, 0), Kind("s1", 3, TRUE, 1, 1)}
=============================================================================
