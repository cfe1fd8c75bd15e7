------------------------------- MODULE MCShell -------------------------------
(* A small instance of Shell for TLC: a file at the root, a folder with its    *)
(* entry and a file in the image, and a folder that comes and goes with the    *)
(* one file in it.                                                             *)
EXTENDS Shell, TLC

CONSTANTS hello, random, dd, stuff, new, b, zero

Hello == <<hello>>
New   == <<stuff, new>>

Paths == {Hello, New, <<random, NoName>>, <<random, dd>>}

\* A write at the start of hello shows, and so does a copy that is not made.
Disk == (Hello :> <<zero, b>>) @@ (<<random, NoName>> :> <<>>) @@ (<<random, dd>> :> <<zero>>)

Args == {[absolute |-> TRUE, path |-> Hello], [absolute |-> FALSE, path |-> <<stuff>>],
         [absolute |-> FALSE, path |-> <<new>>]}

Flags == {{"WRITE", "APPEND", "CREATE"}, {"READ", "TRUNC"}, {"READ", "WRITE", "CREATE", "TRUNC"}}

ByHandle == {Hello, New}

Appended == {Hello}

Written == {<<>>, <<b>>}
=============================================================================
