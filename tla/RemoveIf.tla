------------------------------- MODULE RemoveIf -------------------------------
(***************************************************************************)
(* std::remove_if on a vector, with which StreamController and Topic drop  *)
(* the streams and the partitions that are done. The condition is a set,   *)
(* not an operator as SelectSeq takes, so that its result can be reasoned  *)
(* about.                                                                  *)
(***************************************************************************)
EXTENDS Integers, Sequences

\* What is kept of each beginning of a vector if the elements of S are to stay.
KeptUpTo(vector, S) ==
  LET kept[n \in 0..Len(vector)] ==
        IF n = 0 THEN <<>>
        ELSE IF vector[n] \in S THEN Append(kept[n - 1], vector[n])
        ELSE kept[n - 1]
  IN  kept

\* The elements that stay, in their order.
Kept(vector, S) == KeptUpTo(vector, S)[Len(vector)]
=============================================================================
