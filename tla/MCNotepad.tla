------------------------------ MODULE MCNotepad ------------------------------
(* Small instances of Notepad for TLC: a few rows of a few characters, one   *)
(* file in the TAR image and one that can only be in RAM.                    *)
EXTENDS Notepad

Tar == "readme" :> <<Space, NL>>
=============================================================================
