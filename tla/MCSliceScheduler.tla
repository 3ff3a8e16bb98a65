--------------------------- MODULE MCSliceScheduler ---------------------------
(* SliceScheduler with small values for TLC.                                *)
EXTENDS SliceScheduler

(* A chain without payload and one of a quadword.                           *)
Walkable == {[qwc |-> 0, end |-> 0], [qwc |-> 1, end |-> 1]}
OneChain == {[qwc |-> 1, end |-> 1]}
===============================================================================
