------------------------------ MODULE MCMemory ------------------------------
(* A small instance of Memory for TLC.  A frame is two units.                *)
EXTENDS Memory

\* Two usable regions with bounds off the frames' alignment, one that is too small
\* for a frame, and a reserved one in between.
Regions == <<[start |-> 1, end |-> 9, usable |-> TRUE],
             [start |-> 9, end |-> 14, usable |-> FALSE],
             [start |-> 15, end |-> 17, usable |-> TRUE],
             [start |-> 17, end |-> 38, usable |-> TRUE]>>

\* The code ends with a page, so that it takes the first page of the data as well.
TestApp == <<[start |-> 1, size |-> 1, write |-> FALSE],
             [start |-> 2, size |-> 1, write |-> TRUE]>>

UserStack == <<2>>

FreePages == {<<3, 4>>}
=============================================================================
