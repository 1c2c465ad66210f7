------------------------------ MODULE MCSyncDeps ------------------------------
(* SyncDeps with two symbols, of two values besides n: 10, which may be cut  *)
(* to 1, and 1, of which nothing is left when it is cut.                     *)
EXTENDS SyncDeps

CONSTANTS s1, s2, one, ten

TheSyms == {s1, s2}
TheVals == {one, ten}
TheCut == [v \in TheVals |-> IF v = ten THEN {one} ELSE {}]
=============================================================================
