------------------------------ MODULE FileStore ------------------------------
(***************************************************************************)
(* What kernel/src/fs.rs promises to its users: files by name, of which    *)
(* some come with the image, and descriptors with an offset.  Where the    *)
(* bytes are kept, in the image or in RAM, cannot be seen.                 *)
(***************************************************************************)
EXTENDS Integers, Sequences

CONSTANTS Image,     \* contents by name; Missing for names that are not in the image
          Missing, Zero,
          Buffers    \* what is written

VARIABLES files,     \* contents by name, or Missing
          handles    \* descriptors: [path, offset, flags]

Writes(handle) == "WRITE" \in handle.flags

Text(n) == IF files[n] = Missing THEN <<>> ELSE files[n]

\* The contents s with buf at the offset: a gap before it is filled with zeroes.
Overwritten(s, offset, buf) ==
  LET end == offset + Len(buf)
  IN  [i \in 1 .. (IF end > Len(s) THEN end ELSE Len(s)) |->
         IF offset < i /\ i <= end THEN buf[i - offset]
         ELSE IF i <= Len(s) THEN s[i] ELSE Zero]

AInit == files = Image /\ handles = << >>

Changed == {n \in DOMAIN Image : files'[n] # files[n]}

Becomes(n, text) == Changed \subseteq {n} /\ files'[n] = text

OthersKept(h) == \A g \in DOMAIN handles \ {h} : g \in DOMAIN handles' /\ handles'[g] = handles[g]

\* A new file is empty; one that is there loses its contents to a writer only.
Open(h) ==
  /\ h \notin DOMAIN handles /\ DOMAIN handles' = DOMAIN handles \cup {h}
  /\ OthersKept(h)
  /\ LET n == handles'[h].path
     IN  \/ files[n] # Missing /\ Changed = {}
         \/ files[n] = Missing /\ Becomes(n, <<>>)
         \/ Writes(handles'[h]) /\ Becomes(n, <<>>)

Close(h) ==
  /\ h \in DOMAIN handles /\ DOMAIN handles' = DOMAIN handles \ {h}
  /\ OthersKept(h)
  /\ Changed = {}

\* Reading and seeking.
Move(h) ==
  /\ h \in DOMAIN handles /\ DOMAIN handles' = DOMAIN handles
  /\ OthersKept(h)
  /\ handles'[h].offset \in Nat /\ handles'[h] = [handles[h] EXCEPT !.offset = handles'[h].offset]
  /\ Changed = {}

Write(h, buf) ==
  /\ Writes(handles[h])
  /\ handles' = [handles EXCEPT ![h].offset = @ + Len(buf)]
  /\ Becomes(handles[h].path, Overwritten(Text(handles[h].path), handles[h].offset, buf))

Replace(n, buf) == Becomes(n, buf)

AppendTo(n, buf) == Becomes(n, Text(n) \o buf)

\* A file of the image comes back as it was.
Remove(n) == files[n] # Missing /\ Becomes(n, Image[n])

WholeFile ==
  /\ UNCHANGED handles
  /\ \E n \in Changed :
       Remove(n) \/ \E buf \in Buffers : Replace(n, buf) \/ AppendTo(n, buf)

ANext ==
  \/ WholeFile
  \/ \E h \in DOMAIN handles' : Open(h)
  \/ \E h \in DOMAIN handles : Close(h) \/ Move(h) \/ \E buf \in Buffers : Write(h, buf)

ASpec == AInit /\ [][ANext]_<<files, handles>>
=============================================================================
