------------------------------ MODULE MCStreams ------------------------------
(* Small instances of Streams for TLC: two windows that pick while the user   *)
(* connects once (streams_sets.cfg), and one window while the user goes from  *)
(* a collector to another that goes down and comes up (streams_ends.cfg).     *)
EXTENDS Streams, TLC

OnePick == {{"a"}}
TwoPicks == {{"a"}, {"b"}}
XLogOnly == {"XLog"}
AllOfThem == {"XLog", "Counter", "Alert"}
Alike == Permutations(Slots)
==============================================================================
