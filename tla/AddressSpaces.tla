---------------------------- MODULE AddressSpaces ----------------------------
(***************************************************************************)
(* What kernel/src/vm.rs and kernel/src/memory.rs promise to processes: a  *)
(* page holds what was last stored in it, and zeroes before.  Only a store *)
(* of a process into its own space changes it.  Page faults and page       *)
(* tables cannot be seen.                                                  *)
(***************************************************************************)
CONSTANTS Cells,         \* pages, each in its space
          Values,        \* what processes store
          Zero

VARIABLES booted,        \* the images are loaded and processes run
          mem            \* contents by cell

AInit == booted = FALSE /\ mem = [c \in Cells |-> Zero]

\* The loader fills pages as it likes, until processes run.
Load == ~booted /\ booted' \in BOOLEAN /\ DOMAIN mem' = Cells

Store(c) ==
  /\ booted
  /\ mem'[c] \in Values
  /\ \A d \in Cells \ {c} : mem'[d] = mem[d]
  /\ DOMAIN mem' = Cells
  /\ UNCHANGED booted

ANext == Load \/ \E c \in Cells : Store(c)

ASpec == AInit /\ [][ANext]_<<booted, mem>>
=============================================================================
