----------------------------- MODULE MCDispatch -----------------------------
(* Small instances of Dispatch for TLC, with turns of a few ticks.          *)
EXTENDS Dispatch, TLC

ShortQuanta == [l \in 0 .. 3 |-> 1]
Thresholds  == [l \in 0 .. 2 |-> 1]
PidSymmetry == Permutations(Pids)
=============================================================================
