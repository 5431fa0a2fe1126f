---------------------------- MODULE MCSourceFilter ----------------------------
(* SourceFilter on a small instance: two nanoseconds to a tick, so that the
   truncation of a timestamp falls on either side of Start and Stop. *)
EXTENDS SourceFilter

MCStopTimes == {2, 3}
MCTimeStamps == {1, 2, 3, 5, 6, 8}
=============================================================================
