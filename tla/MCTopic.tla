------------------------------- MODULE MCTopic -------------------------------
(* Topic with two partitions. *)
EXTENDS Topic

MCPartitionIDs == <<"p0", "p1">>
MCOffsetEnd == -1
MCOldLogs == {[p0 |-> <<0>>, p1 |-> <<>>]}
=============================================================================
