---------------------------- MODULE MCStreamPipe ----------------------------
(* Small instances of StreamPipe: two writers at one end, a reader at the  *)
(* other.                                                                  *)
EXTENDS StreamPipe

CONSTANTS w1, w2, r, endA, endB

Sides == [p \in {w1, w2, r} |-> IF p = r THEN endB ELSE endA]
HomeOf(p) == Sides[p]

(* Data, ends of file and reads that split and join messages. *)
Transfers ==
  { <<w1, "write", 2>>, <<w2, "write", 1>>, <<w2, "write", 0>>,
    <<r, "read", 1>>, <<r, "read", 2>> }

(* The same, and end a reads the ends of file that end b writes. *)
BothWays == Transfers \cup { <<r, "write", 0>>, <<w1, "read", 1>> }

ASSUME ReadersAssumption == OneReader
=============================================================================
