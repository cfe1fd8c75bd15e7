------------------------------- MODULE MCMLFQ -------------------------------
(* Small instances of MLFQ for TLC.  The turns are a few ticks instead of   *)
(* milliseconds, and the load bands are narrowed so that four processes     *)
(* cross all of them.                                                       *)
EXTENDS MLFQ, TLC

Quanta     == [l \in 0 .. 3 |-> IF l < 2 THEN 1 ELSE 2]
Thresholds == [l \in 0 .. 2 |-> 1]
ShortQuanta == [l \in 0 .. 3 |-> 1]
PidSymmetry == Permutations(Pids)
=============================================================================
