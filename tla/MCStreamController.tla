-------------------------- MODULE MCStreamController --------------------------
(* StreamController with two or three topics, few messages and one new stop
   time. *)
EXTENDS StreamController

MCTwo == <<"a", "b">>
MCThree == <<"a", "b", "c">>
=============================================================================
