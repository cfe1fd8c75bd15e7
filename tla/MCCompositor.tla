---------------------------- MODULE MCCompositor ----------------------------
(* Compositor has no parameters: its whole state space is checked, together  *)
(* with a terminal of two rows.                                              *)
EXTENDS Terminal
=============================================================================
