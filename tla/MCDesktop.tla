------------------------------ MODULE MCDesktop ------------------------------
(* Small instances of Desktop for TLC.                                       *)
EXTENDS Desktop, TLC

AppSymmetry == Permutations(Windows \ Menus)
=============================================================================
