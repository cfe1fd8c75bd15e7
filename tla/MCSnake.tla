------------------------------ MODULE MCSnake ------------------------------
(* A board of six by two: small enough to be filled, wide enough for the    *)
(* four segments a game starts with.  Two keys fit between two frames, the  *)
(* fewest that could turn the snake back.  A game that is over restarts     *)
(* through a click, which calls the same Reset as Enter and Space; adding   *)
(* Enter to the keys passes too, with half as many states again.            *)
EXTENDS Snake

MCKeys == Directions \cup {"P"}
=============================================================================
