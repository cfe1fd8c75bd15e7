---------------------------- MODULE Shell_proofs ----------------------------
(***************************************************************************)
(* Theorems about Shell and the file system under it, for any names, any   *)
(* image and any calls in any order.                                       *)
(***************************************************************************)
EXTENDS Shell, SequenceTheorems, TLAPS

Files == {s \in Seq(Bytes) : Len(s) <= MaxLen}

Handles == [path : Names, flags : FlagSets, offset : 0 .. MaxLen]

FilesTyped == DOMAIN ram_files \subseteq Names /\ ram_files \in [DOMAIN ram_files -> Files]

FdsTyped ==
  /\ next_fd \in Nat /\ next_fd >= 3 /\ Fds \subseteq 3 .. next_fd - 1
  /\ open_files \in [Fds -> Handles]
  /\ disturbed \subseteq Fds

FsTypes == FilesTyped /\ FdsTyped

-----------------------------------------------------------------------------
(* Operators.                                                                 *)

LEMMA SeqOfFunction ==
  ASSUME NEW S, NEW size \in Nat, NEW f \in [1 .. size -> S]
  PROVE  f \in Seq(S) /\ Len(f) = size
<1>1. f \in Seq(S)
  BY SeqDef, Zenon
<1> QED
  BY <1>1, LenProperties

LEMMA MaxOfTwo ==
  ASSUME NEW a \in Int, NEW b \in Int
  PROVE  Max({a, b}) = IF a >= b THEN a ELSE b
<1> DEFINE m == IF a >= b THEN a ELSE b
<1>1. m \in {a, b} /\ \A y \in {a, b} : m >= y
  OBVIOUS
<1>2. \A x \in {a, b} : (\A y \in {a, b} : x >= y) => x = m
  OBVIOUS
<1> HIDE DEF m
<1>3. (CHOOSE x \in {a, b} : \A y \in {a, b} : x >= y) = m
  BY <1>1, <1>2
<1> QED
  BY <1>3 DEF Max, m

LEMMA MinOfTwo ==
  ASSUME NEW a \in Int, NEW b \in Int
  PROVE  Min({a, b}) = IF a <= b THEN a ELSE b
<1> DEFINE m == IF a <= b THEN a ELSE b
<1>1. m \in {a, b} /\ \A y \in {a, b} : m <= y
  OBVIOUS
<1>2. \A x \in {a, b} : (\A y \in {a, b} : x <= y) => x = m
  OBVIOUS
<1> HIDE DEF m
<1>3. (CHOOSE x \in {a, b} : \A y \in {a, b} : x <= y) = m
  BY <1>1, <1>2
<1> QED
  BY <1>3 DEF Min, m

\* The contents a user sees.
LEMMA EnsureRamType ==
  ASSUME FilesTyped, NEW n \in Names
  PROVE  /\ EnsureRam(n) \in Files /\ Len(EnsureRam(n)) \in 0 .. MaxLen
         /\ Length(n) = Len(EnsureRam(n))
<1>1. n \in DOMAIN TarFiles => TarFiles[n] \in Files
  BY OverlayAssumption DEF Files
<1>2. <<>> \in Files /\ Len(<<>>) = 0
  BY OverlayAssumption DEF Files
<1>3. EnsureRam(n) \in Files
  BY <1>1, <1>2 DEF EnsureRam, Exists, ReadSlice, FilesTyped
<1>4. \A s \in Files : Len(s) \in 0 .. MaxLen
  BY OverlayAssumption DEF Files
<1> QED
  BY <1>2, <1>3, <1>4 DEF Length, EnsureRam

\* A write never shortens a file, and past the end it fills with zeroes.
LEMMA PatchedIs ==
  ASSUME NEW data \in Files, NEW offset \in Nat, NEW buf \in Seq(Bytes), offset + Len(buf) <= MaxLen
  PROVE  /\ Patched(data, offset, buf) \in Files
         /\ Len(Patched(data, offset, buf)) =
              IF offset + Len(buf) > Len(data) THEN offset + Len(buf) ELSE Len(data)
         /\ Patched(data, offset, buf) =
              [i \in 1 .. (IF offset + Len(buf) > Len(data) THEN offset + Len(buf) ELSE Len(data)) |->
                 IF offset < i /\ i <= offset + Len(buf) THEN buf[i - offset]
                 ELSE IF i <= Len(data) THEN data[i] ELSE Zero]
<1> DEFINE end == offset + Len(buf)
           size == IF end > Len(data) THEN end ELSE Len(data)
           byte(i) == IF offset < i /\ i <= end THEN buf[i - offset]
                      ELSE IF i <= Len(data) THEN data[i] ELSE Zero
           new == [i \in 1 .. size |-> byte(i)]
<1>1. data \in Seq(Bytes) /\ Len(data) \in Nat /\ Len(buf) \in Nat /\ Len(data) <= MaxLen
  BY DEF Files
<1>2. size \in Nat /\ size <= MaxLen /\ Max({Len(data), end}) = size
  BY <1>1, MaxOfTwo
<1>3. ASSUME NEW i \in 1 .. size
      PROVE  /\ byte(i) \in Bytes
             /\ byte(i) = IF i \in offset + 1 .. end THEN buf[i - offset]
                          ELSE IF i \in DOMAIN data THEN data[i] ELSE Zero
  <2>1. i \in offset + 1 .. end <=> offset < i /\ i <= end
    BY <1>1, <1>2
  <2>2. i \in DOMAIN data <=> i <= Len(data)
    BY <1>1, <1>2
  <2>3. offset < i /\ i <= end => i - offset \in 1 .. Len(buf)
    BY <1>1, <1>2
  <2> QED
    BY <1>1, <2>1, <2>2, <2>3, OverlayAssumption
<1> HIDE DEF size
<1>4. Patched(data, offset, buf) = new
  BY <1>2, <1>3 DEF Patched
<1> HIDE DEF byte
<1>5. new \in [1 .. size -> Bytes]
  BY <1>3
<1> HIDE DEF new
<1>6. size \in Nat
  BY <1>2
<1>7. new \in Seq(Bytes) /\ Len(new) = size
  BY <1>5, <1>6, SeqOfFunction
<1>8. Patched(data, offset, buf) \in Files /\ Len(Patched(data, offset, buf)) = size
  BY <1>2, <1>4, <1>7 DEF Files
<1> QED
  BY <1>4, <1>8 DEF size, new, byte

-----------------------------------------------------------------------------
(* The calls.                                                                 *)

\* A call of the file system, whoever makes it.
FsCall ==
  \/ \E n \in OpenNames, flags \in FlagSets : Open(n, flags)
  \/ \E fd \in Fds, len \in 1 .. MaxLen : Read(fd, len)
  \/ \E fd \in Fds, buf \in Buffers : open_files[fd].offset + Len(buf) <= MaxLen /\ Write(fd, buf)
  \/ \E fd \in Fds, from \in {"Start", "Current", "End"}, d \in -1 .. 1 :
       Seek(fd, from, d) /\ open_files'[fd].offset <= MaxLen
  \/ \E fd \in Fds : Close(fd)
  \/ \E n \in Names, data \in Buffers : WriteFile(n, data)
  \/ \E n \in Names, buf \in Buffers : Length(n) + Len(buf) <= MaxLen /\ AppendFile(n, buf)
  \/ \E n \in Names : RemoveFiles(n)

LEMMA CallOrNothing == FilesTyped /\ [Next]_vars => FsCall \/ FilesKept
<1> SUFFICES ASSUME FilesTyped, [Next]_vars PROVE FsCall \/ FilesKept
  OBVIOUS
<1>1. ASSUME NEW arg \in Arguments, RmCommand(arg) PROVE FsCall
  BY <1>1 DEF RmCommand, RemoveFiles, FsCall, FilesTyped
<1>2. ASSUME NEW arg \in Arguments, NEW data \in Buffers, WriteCommand(arg, data) PROVE FsCall
  BY <1>2 DEF WriteCommand, FsCall
<1>3. CASE OpenCall
  BY <1>3 DEF OpenCall, FsCall
<1>4. ASSUME NEW fd \in Fds, ReadCall(fd) PROVE FsCall
  BY <1>4 DEF ReadCall, FsCall
<1>5. ASSUME NEW fd \in Fds, WriteCall(fd) PROVE FsCall
  BY <1>5 DEF WriteCall, FsCall
<1>6. ASSUME NEW fd \in Fds, SeekCall(fd) PROVE FsCall
  BY <1>6 DEF SeekCall, FsCall
<1>7. ASSUME NEW fd \in Fds, Close(fd) PROVE FsCall
  BY <1>7 DEF FsCall
<1>8. ASSUME NEW n \in AppendNames, NEW buf \in Buffers, Length(n) + Len(buf) <= MaxLen, AppendFile(n, buf)
      PROVE  FsCall
  BY <1>8, ShellAssumption DEF FsCall
<1>9. CASE OtherCall
  BY <1>3, <1>4, <1>5, <1>6, <1>7, <1>8, <1>9 DEF OtherCall
<1>10. CASE CdRoot \/ CdUp \/ \E arg \in Arguments : Cd(arg)
  BY <1>10 DEF CdRoot, CdUp, Cd
<1>11. CASE OpenFiles \/ BackClick \/ \E entry \in explorer.displayed_entries : RowClick(entry)
  BY <1>11 DEF OpenFiles, BackClick, RowClick
<1>12. CASE UNCHANGED vars
  BY <1>12 DEF vars, FilesKept
<1> QED
  BY <1>1, <1>2, <1>9, <1>10, <1>11, <1>12 DEF Next

\* What changes: one file becomes data, or nothing.
LEMMA PutTyped ==
  ASSUME FilesTyped, NEW n \in Names, NEW data \in Files, Put(n, data)
  PROVE  /\ FilesTyped'
         /\ DOMAIN ram_files' = DOMAIN ram_files \cup {n}
         /\ ram_files'[n] = data
         /\ \A m \in DOMAIN ram_files \ {n} : ram_files'[m] = ram_files[m]
<1> DEFINE D == DOMAIN ram_files
<1>1. ram_files \in [D -> Files] /\ D \subseteq Names
  BY DEF FilesTyped
<1>2. ram_files' = [k \in D \cup {n} |-> IF k = n THEN data ELSE ram_files[k]]
  BY DEF Put, Inserted
<1> HIDE DEF D
<1>3. /\ ram_files' \in [D \cup {n} -> Files] /\ DOMAIN ram_files' = D \cup {n}
      /\ ram_files'[n] = data /\ \A m \in D \ {n} : ram_files'[m] = ram_files[m]
  BY <1>1, <1>2
<1> QED
  BY <1>1, <1>3 DEF FilesTyped, D

LEMMA RemoveTyped ==
  ASSUME FilesTyped, NEW n \in Names, RemoveFiles(n)
  PROVE  FilesTyped'
<1> DEFINE D == DOMAIN ram_files \ {n}
<1>1. ram_files' = [m \in D |-> ram_files[m]]
  BY DEF RemoveFiles
<1>2. \A m \in D : ram_files[m] \in Files
  BY DEF FilesTyped
<1>3. DOMAIN ram_files' = D /\ D \subseteq Names
  BY <1>1 DEF FilesTyped
<1> HIDE DEF D
<1>4. ram_files' \in [D -> Files]
  BY <1>1, <1>2
<1> QED
  BY <1>3, <1>4 DEF FilesTyped

\* A new descriptor.
LEMMA OpenedIs ==
  ASSUME FsTypes, NEW n \in OpenNames, NEW flags \in FlagSets, Open(n, flags)
  PROVE  LET truncate == {"TRUNC", "WRITE"} \subseteq flags
             data == IF truncate THEN <<>> ELSE EnsureRam(n)
         IN  /\ n \in Names /\ next_fd \notin Fds /\ next_fd' = next_fd + 1
             /\ Fds' = Fds \cup {next_fd}
             /\ open_files' \in [Fds' -> Handles]
             /\ open_files'[next_fd].path = n /\ open_files'[next_fd].flags = flags
             /\ "APPEND" \in flags => open_files'[next_fd].offset = Len(data)
             /\ \A fd \in Fds : open_files'[fd] = open_files[fd]
             /\ data \in Files
             /\ IF ~Exists(n) \/ truncate THEN Put(n, data) /\ Disturb(n, next_fd)
                ELSE UNCHANGED <<ram_files, disturbed>>
<1> DEFINE truncate == {"TRUNC", "WRITE"} \subseteq flags
           data == IF truncate THEN <<>> ELSE EnsureRam(n)
           end == IF truncate THEN 0 ELSE Length(n)
           offset == IF "APPEND" \in flags THEN end ELSE 0
           handle == [path |-> n, flags |-> flags, offset |-> offset]
<1>1. n \in Names /\ <<>> \in Files /\ Len(<<>>) = 0
  BY OverlayAssumption DEF Files
<1>2. EnsureRam(n) \in Files /\ Len(EnsureRam(n)) \in 0 .. MaxLen /\ Length(n) = Len(EnsureRam(n))
  BY <1>1, EnsureRamType DEF FsTypes
<1>3. data \in Files /\ end = Len(data) /\ end \in 0 .. MaxLen
  BY <1>1, <1>2, OverlayAssumption
<1>4. /\ IF ~Exists(n) \/ truncate THEN Put(n, data) /\ Disturb(n, next_fd)
         ELSE UNCHANGED <<ram_files, disturbed>>
      /\ open_files' = Inserted(open_files, next_fd, handle)
      /\ next_fd' = next_fd + 1
  BY DEF Open, Opened
<1> HIDE DEF truncate, data, end
<1>5. offset \in 0 .. MaxLen
  BY <1>3, OverlayAssumption
<1> HIDE DEF offset
<1>6. handle \in Handles /\ handle.path = n /\ handle.flags = flags /\ handle.offset = offset
  BY <1>1, <1>5 DEF Handles
<1> HIDE DEF handle
<1>7. open_files \in [Fds -> Handles] /\ next_fd \notin Fds /\ next_fd \in Nat
  BY DEF FsTypes, FdsTyped
<1>8. open_files' = [k \in Fds \cup {next_fd} |-> IF k = next_fd THEN handle ELSE open_files[k]]
  BY <1>4 DEF Inserted, Fds
<1>9. open_files' \in [Fds \cup {next_fd} -> Handles] /\ DOMAIN open_files' = Fds \cup {next_fd}
      /\ open_files'[next_fd] = handle
      /\ \A fd \in Fds \ {next_fd} : open_files'[fd] = open_files[fd]
  BY <1>6, <1>7, <1>8
<1>10. /\ Fds' = Fds \cup {next_fd} /\ open_files' \in [Fds' -> Handles]
       /\ open_files'[next_fd] = handle
       /\ \A fd \in Fds : open_files'[fd] = open_files[fd]
  BY <1>7, <1>9 DEF Fds
<1>11. "APPEND" \in flags => offset = Len(data)
  BY <1>3 DEF offset
<1> QED
  BY <1>1, <1>3, <1>4, <1>6, <1>7, <1>10, <1>11 DEF truncate, data

\* The offset of one descriptor changes.
LEMMA MovedTyped ==
  ASSUME FsTypes, NEW fd \in Fds, NEW off \in 0 .. MaxLen,
         open_files' = [open_files EXCEPT ![fd].offset = off]
  PROVE  /\ Fds' = Fds /\ open_files' \in [Fds' -> Handles]
         /\ open_files'[fd] = [open_files[fd] EXCEPT !.offset = off]
         /\ open_files'[fd].path = open_files[fd].path /\ open_files'[fd].flags = open_files[fd].flags
         /\ open_files'[fd].offset = off
         /\ \A d \in Fds \ {fd} : open_files'[d] = open_files[d]
<1> DEFINE handle == [open_files[fd] EXCEPT !.offset = off]
<1>1. open_files \in [Fds -> Handles] /\ open_files[fd] \in Handles
  BY DEF FsTypes, FdsTyped
<1>2. /\ handle \in Handles /\ handle.offset = off
      /\ handle.path = open_files[fd].path /\ handle.flags = open_files[fd].flags
  BY <1>1 DEF Handles
<1>3. open_files' = [open_files EXCEPT ![fd] = handle]
  OBVIOUS
<1> HIDE DEF handle
<1>4. /\ open_files' \in [Fds -> Handles] /\ open_files'[fd] = handle
      /\ \A d \in Fds \ {fd} : open_files'[d] = open_files[d]
  BY <1>1, <1>2, <1>3
<1>5. Fds' = Fds
  BY <1>4 DEF Fds
<1> QED
  BY <1>2, <1>4, <1>5 DEF handle

\* Read and Seek: the offset moves, and the history says so.
Moves(fd, off) ==
  /\ open_files' = [open_files EXCEPT ![fd].offset = off]
  /\ disturbed' \in {disturbed, disturbed \cup {fd}}
  /\ off # open_files[fd].offset => fd \in disturbed'
  /\ UNCHANGED <<ram_files, next_fd>>

LEMMA HandleType ==
  ASSUME FsTypes, NEW fd \in Fds
  PROVE  /\ open_files[fd] \in Handles /\ open_files[fd].path \in Names
         /\ open_files[fd].offset \in 0 .. MaxLen /\ open_files[fd].offset \in Nat
         /\ EnsureRam(open_files[fd].path) \in Files
         /\ Length(open_files[fd].path) = Len(EnsureRam(open_files[fd].path))
         /\ Length(open_files[fd].path) \in 0 .. MaxLen
<1>1. open_files[fd] \in Handles
  BY DEF FsTypes, FdsTyped
<1>2. open_files[fd].path \in Names /\ open_files[fd].offset \in 0 .. MaxLen
  BY <1>1 DEF Handles
<1> QED
  BY <1>1, <1>2, EnsureRamType, OverlayAssumption DEF FsTypes

LEMMA ReadMoves ==
  ASSUME FsTypes, NEW fd \in Fds, NEW len \in 1 .. MaxLen, Read(fd, len)
  PROVE  \E off \in 0 .. MaxLen : Moves(fd, off)
<1> DEFINE old == open_files[fd].offset
           size == Length(open_files[fd].path)
           left == Min({len, size - old})
           n == Max({0, left})
<1>1. old \in 0 .. MaxLen /\ size \in 0 .. MaxLen /\ MaxLen \in Nat
  BY HandleType, OverlayAssumption
<1>2. /\ open_files' = [open_files EXCEPT ![fd].offset = old + n]
      /\ disturbed' = IF n = 0 THEN disturbed ELSE disturbed \cup {fd}
      /\ UNCHANGED <<ram_files, next_fd>>
  BY DEF Read
<1> HIDE DEF old, size
<1>3. left = IF len <= size - old THEN len ELSE size - old
  BY <1>1, MinOfTwo
<1> HIDE DEF left
<1>4. left \in Int /\ left <= size - old
  BY <1>1, <1>3
<1>5. n = IF 0 >= left THEN 0 ELSE left
  BY <1>4, MaxOfTwo
<1> HIDE DEF n
<1>6. n \in Nat /\ old + n \in 0 .. MaxLen /\ (old + n # old => n # 0)
  BY <1>1, <1>4, <1>5
<1>7. Moves(fd, old + n)
  BY <1>2, <1>6 DEF Moves, old
<1> QED
  BY <1>6, <1>7

LEMMA SeekMoves ==
  ASSUME FsTypes, NEW fd \in Fds, NEW from \in {"Start", "Current", "End"}, NEW d \in -1 .. 1,
         Seek(fd, from, d), open_files'[fd].offset <= MaxLen
  PROVE  \E off \in 0 .. MaxLen : Moves(fd, off)
<1> DEFINE off == SeekBase(fd)[from] + d
<1>1. open_files[fd].offset \in Nat /\ Length(open_files[fd].path) \in Nat
  BY HandleType
<1>2. SeekBase(fd)[from] \in Nat
  BY <1>1 DEF SeekBase
<1>3. off \in Nat /\ open_files' = [open_files EXCEPT ![fd].offset = off]
      /\ disturbed' = disturbed \cup {fd} /\ UNCHANGED <<ram_files, next_fd>>
  BY <1>2 DEF Seek
<1> HIDE DEF off
<1>4. open_files[fd] \in Handles /\ open_files'[fd] = [open_files[fd] EXCEPT !.offset = off]
  BY <1>3, HandleType DEF FsTypes, FdsTyped
<1>5. open_files'[fd].offset = off
  BY <1>4 DEF Handles
<1>6. off \in 0 .. MaxLen
  BY <1>3, <1>5, OverlayAssumption
<1> QED
  BY <1>3, <1>6 DEF Moves

LEMMA WriteIs ==
  ASSUME FsTypes, NEW fd \in Fds, NEW buf \in Buffers, open_files[fd].offset + Len(buf) <= MaxLen,
         Write(fd, buf)
  PROVE  LET of == open_files[fd]
             data == Patched(EnsureRam(of.path), of.offset, buf)
             off == of.offset + Len(buf)
         IN  /\ data \in Files /\ off \in 0 .. MaxLen
             /\ Len(data) = IF off > Len(EnsureRam(of.path)) THEN off ELSE Len(EnsureRam(of.path))
             /\ Put(of.path, data) /\ Disturb(of.path, fd)
             /\ open_files' = [open_files EXCEPT ![fd].offset = off]
             /\ next_fd' = next_fd
<1> DEFINE of == open_files[fd]
           data == Patched(EnsureRam(of.path), of.offset, buf)
           off == of.offset + Len(buf)
<1>1. buf \in Seq(Bytes) /\ Len(buf) \in Nat
  BY OverlayAssumption
<1>2. /\ of.path \in Names /\ of.offset \in Nat /\ EnsureRam(of.path) \in Files
  BY HandleType
<1>3. /\ data \in Files
      /\ Len(data) = IF off > Len(EnsureRam(of.path)) THEN off ELSE Len(EnsureRam(of.path))
  BY <1>1, <1>2, PatchedIs
<1>4. off \in 0 .. MaxLen
  BY <1>1, <1>2
<1>5. /\ Put(of.path, data) /\ Disturb(of.path, fd)
      /\ open_files' = [open_files EXCEPT ![fd].offset = off]
      /\ next_fd' = next_fd
  BY DEF Write
<1> QED
  BY <1>3, <1>4, <1>5

LEMMA CloseIs ==
  ASSUME FsTypes, NEW fd \in Fds, Close(fd)
  PROVE  /\ Fds' = Fds \ {fd} /\ open_files' \in [Fds' -> Handles]
         /\ \A d \in Fds' : open_files'[d] = open_files[d]
         /\ disturbed' = disturbed \ {fd}
         /\ UNCHANGED <<ram_files, next_fd>>
<1> DEFINE D == Fds \ {fd}
<1>1. /\ open_files' = [d \in D |-> open_files[d]]
      /\ disturbed' = disturbed \ {fd} /\ UNCHANGED <<ram_files, next_fd>>
  BY DEF Close
<1>2. D \subseteq Fds /\ \A d \in Fds : open_files[d] \in Handles
  BY DEF FsTypes, FdsTyped
<1> HIDE DEF D
<1>3. DOMAIN open_files' = D /\ open_files' \in [D -> Handles] /\ \A d \in D : open_files'[d] = open_files[d]
  BY <1>1, <1>2
<1> QED
  BY <1>1, <1>3 DEF Fds, D

\* Appending to a whole file.
LEMMA AppendedIs ==
  ASSUME FsTypes, NEW n \in Names, NEW buf \in Buffers, Length(n) + Len(buf) <= MaxLen
  PROVE  EnsureRam(n) \o buf \in Files
<1>1. buf \in Seq(Bytes) /\ Len(buf) \in Nat
  BY OverlayAssumption
<1>2. EnsureRam(n) \in Seq(Bytes) /\ Length(n) = Len(EnsureRam(n))
  BY EnsureRamType DEF FsTypes, Files
<1>3. EnsureRam(n) \o buf \in Seq(Bytes) /\ Len(EnsureRam(n) \o buf) = Len(EnsureRam(n)) + Len(buf)
  BY <1>1, <1>2
<1> QED
  BY <1>2, <1>3 DEF Files

\* The names and the descriptors keep their types.
LEMMA FsTypesStep == FsTypes /\ FsCall => FsTypes'
<1> SUFFICES ASSUME FsTypes, FsCall PROVE FsTypes'
  OBVIOUS
<1>1. next_fd \in Nat /\ next_fd >= 3 /\ Fds \subseteq 3 .. next_fd - 1 /\ open_files \in [Fds -> Handles] /\ disturbed \subseteq Fds
  BY DEF FsTypes, FdsTyped
<1>2. FilesTyped /\ ((UNCHANGED ram_files) => FilesTyped')
  BY DEF FsTypes, FilesTyped
<1>3. ASSUME NEW n \in OpenNames, NEW flags \in FlagSets, Open(n, flags) PROVE FsTypes'
  <2> DEFINE data == IF {"TRUNC", "WRITE"} \subseteq flags THEN <<>> ELSE EnsureRam(n)
  <2>1. /\ n \in Names /\ data \in Files /\ next_fd' = next_fd + 1
        /\ Fds' = Fds \cup {next_fd} /\ open_files' \in [Fds' -> Handles]
        /\ (Put(n, data) /\ Disturb(n, next_fd)) \/ UNCHANGED <<ram_files, disturbed>>
    BY <1>3, OpenedIs
  <2> HIDE DEF data
  <2>2. FilesTyped'
    BY <1>2, <2>1, PutTyped
  <2>3. disturbed' \subseteq Fds'
    BY <1>1, <2>1 DEF Disturb
  <2>4. next_fd' \in Nat /\ next_fd' >= 3 /\ Fds' \subseteq 3 .. next_fd' - 1
    BY <1>1, <2>1
  <2> QED
    BY <2>1, <2>2, <2>3, <2>4 DEF FsTypes, FdsTyped
<1>4. ASSUME NEW fd \in Fds, NEW off \in 0 .. MaxLen, Moves(fd, off) PROVE FsTypes'
  <2>1. Fds' = Fds /\ open_files' \in [Fds' -> Handles]
    BY <1>4, MovedTyped DEF Moves
  <2>2. disturbed' \subseteq Fds /\ next_fd' = next_fd /\ FilesTyped'
    BY <1>1, <1>2, <1>4 DEF Moves
  <2> QED
    BY <1>1, <2>1, <2>2 DEF FsTypes, FdsTyped
<1>5. ASSUME NEW fd \in Fds, NEW buf \in Buffers, open_files[fd].offset + Len(buf) <= MaxLen, Write(fd, buf)
      PROVE  FsTypes'
  <2> DEFINE n == open_files[fd].path
             data == Patched(EnsureRam(n), open_files[fd].offset, buf)
             off == open_files[fd].offset + Len(buf)
  <2>1. data \in Files /\ off \in 0 .. MaxLen /\ Put(n, data) /\ Disturb(n, fd)
        /\ open_files' = [open_files EXCEPT ![fd].offset = off] /\ next_fd' = next_fd
    BY <1>5, WriteIs
  <2>2. n \in Names
    BY HandleType
  <2> HIDE DEF n, data, off
  <2>3. FilesTyped'
    BY <1>2, <2>1, <2>2, PutTyped
  <2>4. Fds' = Fds /\ open_files' \in [Fds' -> Handles]
    BY <2>1, MovedTyped
  <2>5. disturbed' \subseteq Fds
    BY <1>1, <2>1 DEF Disturb
  <2> QED
    BY <1>1, <2>1, <2>3, <2>4, <2>5 DEF FsTypes, FdsTyped
<1>6. ASSUME NEW fd \in Fds, Close(fd) PROVE FsTypes'
  <2>1. /\ Fds' = Fds \ {fd} /\ open_files' \in [Fds' -> Handles]
        /\ disturbed' = disturbed \ {fd} /\ UNCHANGED <<ram_files, next_fd>>
    BY <1>6, CloseIs
  <2> QED
    BY <1>1, <1>2, <2>1 DEF FsTypes, FdsTyped
<1>7. ASSUME NEW n \in Names, FilesTyped', Disturb(n, NoFile), UNCHANGED <<open_files, next_fd>> PROVE FsTypes'
  BY <1>1, <1>7 DEF FsTypes, FdsTyped, Disturb, Fds
<1>8. ASSUME NEW n \in Names, NEW data \in Buffers, WriteFile(n, data) PROVE FsTypes'
  <2>1. data \in Files
    BY OverlayAssumption DEF Files
  <2>2. FilesTyped'
    BY <1>2, <1>8, <2>1, PutTyped DEF WriteFile
  <2> QED
    BY <1>7, <1>8, <2>2 DEF WriteFile
<1>9. ASSUME NEW n \in Names, NEW buf \in Buffers, Length(n) + Len(buf) <= MaxLen, AppendFile(n, buf) PROVE FsTypes'
  <2>1. EnsureRam(n) \o buf \in Files
    BY <1>9, AppendedIs
  <2>2. FilesTyped'
    BY <1>2, <1>9, <2>1, PutTyped DEF AppendFile
  <2> QED
    BY <1>7, <1>9, <2>2 DEF AppendFile
<1>10. ASSUME NEW n \in Names, RemoveFiles(n) PROVE FsTypes'
  <2>1. FilesTyped'
    BY <1>2, <1>10, RemoveTyped
  <2> QED
    BY <1>7, <1>10, <2>1 DEF RemoveFiles
<1>11. ASSUME NEW fd \in Fds, NEW len \in 1 .. MaxLen, Read(fd, len) PROVE FsTypes'
  BY <1>4, <1>11, ReadMoves
<1>12. ASSUME NEW fd \in Fds, NEW from \in {"Start", "Current", "End"}, NEW d \in -1 .. 1,
              Seek(fd, from, d), open_files'[fd].offset <= MaxLen
       PROVE  FsTypes'
  BY <1>4, <1>12, SeekMoves
<1> QED
  BY <1>3, <1>5, <1>6, <1>8, <1>9, <1>10, <1>11, <1>12 DEF FsCall

-----------------------------------------------------------------------------
(* Paths.                                                                     *)

Parts == UNION {ToSet(n) : n \in Names}

PathsTyped ==
  /\ cwd \in Seq(Parts) /\ explorer.path \in Seq(Parts)
  /\ \A e \in explorer.displayed_entries : e.name \in Parts /\ e.folder \in BOOLEAN

LEMMA Wider ==
  \A S, T : S \subseteq T => Seq(S) \subseteq Seq(T)
<1> SUFFICES ASSUME NEW S, NEW T, S \subseteq T, NEW s \in Seq(S) PROVE s \in Seq(T)
  OBVIOUS
<1>1. Len(s) \in Nat /\ s \in [1 .. Len(s) -> S]
  BY LenProperties
<1>2. s \in [1 .. Len(s) -> T]
  BY <1>1
<1> QED
  BY <1>1, <1>2, SeqOfFunction

LEMMA NamesArePaths == Names \subseteq Seq(Parts)
<1> SUFFICES ASSUME NEW n \in Names PROVE n \in Seq(Parts)
  OBVIOUS
<1>1. n \in Seq(ToSet(n)) /\ ToSet(n) \subseteq Parts
  BY ShellAssumption DEF Parts
<1> QED
  BY <1>1, Wider

LEMMA PrefixIs ==
  \A S : \A s, t \in Seq(S) :
    IsPrefix(s, t) <=> Len(s) <= Len(t) /\ \A i \in 1 .. Len(s) : s[i] = t[i]
<1> SUFFICES ASSUME NEW S, NEW s \in Seq(S), NEW t \in Seq(S)
             PROVE  IsPrefix(s, t) <=> Len(s) <= Len(t) /\ \A i \in 1 .. Len(s) : s[i] = t[i]
  OBVIOUS
<1>1. Len(s) \in Nat /\ Len(t) \in Nat /\ s \in [1 .. Len(s) -> S] /\ t \in [1 .. Len(t) -> S]
  BY LenProperties
<1>2. CASE ~(Len(s) <= Len(t))
  BY <1>2 DEF IsPrefix
<1>3. CASE Len(s) <= Len(t)
  <2> DEFINE u == SubSeq(t, 1, Len(s))
  <2>1. \A i \in 1 .. Len(s) : t[i] \in S
    BY <1>1, <1>3
  <2>2. u \in Seq(S) /\ Len(u) = Len(s) /\ \A i \in 1 .. Len(s) : u[i] = t[i]
    BY <1>1, <2>1, SubSeqProperties
  <2>3. SubSeq(s, 1, Len(s)) = s
    BY SubSeqFull
  <2>4. IsPrefix(s, t) <=> s = u
    BY <1>3, <2>3 DEF IsPrefix
  <2> HIDE DEF u
  <2>5. s = u <=> \A i \in 1 .. Len(s) : s[i] = u[i]
    BY <2>2, SeqEqual
  <2> QED
    BY <1>3, <2>2, <2>4, <2>5
<1> QED
  BY <1>2, <1>3

LEMMA StrictPrefixIs ==
  \A S : \A s, t \in Seq(S) :
    IsStrictPrefix(s, t) <=> Len(s) < Len(t) /\ \A i \in 1 .. Len(s) : s[i] = t[i]
<1> SUFFICES ASSUME NEW S, NEW s \in Seq(S), NEW t \in Seq(S)
             PROVE  IsStrictPrefix(s, t) <=> Len(s) < Len(t) /\ \A i \in 1 .. Len(s) : s[i] = t[i]
  OBVIOUS
<1>1. Len(s) \in Nat /\ Len(t) \in Nat
  BY LenProperties
<1>2. Len(s) = Len(t) /\ (\A i \in 1 .. Len(s) : s[i] = t[i]) => s = t
  BY SeqEqual
<1> QED
  BY <1>1, <1>2, PrefixIs DEF IsStrictPrefix

\* A prefix of a path is a path.
LEMMA PrefixOfPath ==
  ASSUME NEW S, NEW s \in Seq(S), NEW t \in Seq(Parts), IsStrictPrefix(s, t)
  PROVE  s \in Seq(Parts)
<1> DEFINE T == S \cup Parts
<1>1. s \in Seq(T) /\ t \in Seq(T)
  BY Wider
<1> HIDE DEF T
<1>2. Len(s) < Len(t) /\ \A i \in 1 .. Len(s) : s[i] = t[i]
  BY <1>1, StrictPrefixIs
<1>3. Len(s) \in Nat /\ Len(t) \in Nat /\ s \in [1 .. Len(s) -> S] /\ t \in [1 .. Len(t) -> Parts]
  BY LenProperties
<1>4. s \in [1 .. Len(s) -> Parts]
  BY <1>2, <1>3
<1> QED
  BY <1>3, <1>4, SeqOfFunction

LEMMA FrontIsPath ==
  ASSUME NEW s \in Seq(Parts), s # <<>>
  PROVE  Front(s) \in Seq(Parts)
<1>1. Len(s) \in Nat /\ s \in [1 .. Len(s) -> Parts]
  BY LenProperties
<1>2. \A i \in 1 .. Len(s) - 1 : s[i] \in Parts
  BY <1>1
<1>3. SubSeq(s, 1, Len(s) - 1) \in Seq(Parts)
  BY <1>1, <1>2, SubSeqProperties
<1> QED
  BY <1>3 DEF Front

\* What is listed of a folder: the part of a name after the folder.
LEMMA ListedIs ==
  ASSUME FilesTyped, NEW folder \in Seq(Parts), NEW e \in Listing(folder)
  PROVE  \E m \in ListFiles :
           /\ m \in Seq(Parts) /\ IsStrictPrefix(folder, m) /\ Len(folder) < Len(m)
           /\ \A i \in 1 .. Len(folder) : folder[i] = m[i]
           /\ e.name = m[Len(folder) + 1] /\ e.name \in Parts
           /\ e.folder \in BOOLEAN /\ (e.folder <=> Len(m) > Len(folder) + 1)
<1>1. PICK m \in ListFiles : IsStrictPrefix(folder, m) /\ e = EntryOf(Rest(folder, m))
  BY DEF Listing
<1>2. m \in Seq(Parts)
  BY NamesArePaths, OverlayAssumption DEF ListFiles, FilesTyped
<1>3. Len(folder) \in Nat /\ Len(m) \in Nat /\ m \in [1 .. Len(m) -> Parts]
  BY <1>2, LenProperties
<1>4. Len(folder) < Len(m) /\ \A i \in 1 .. Len(folder) : folder[i] = m[i]
  BY <1>1, <1>2, StrictPrefixIs
<1> DEFINE k == Len(folder) + 1
           rest == SubSeq(m, k, Len(m))
<1>5. k \in 1 .. Len(m) /\ Len(m) \in k .. Len(m)
  BY <1>3, <1>4
<1>6. \A i \in k .. Len(m) : m[i] \in Parts
  BY <1>3, <1>5
<1>7. Head(rest) = m[k]
  BY <1>2, <1>5, HeadTailOfSubSeq
<1>8. Len(rest) = Len(m) - k + 1
  BY <1>3, <1>5, <1>6, SubSeqProperties
<1>9. e = [name |-> Head(rest), folder |-> Len(rest) > 1]
  BY <1>1 DEF EntryOf, Rest
<1> HIDE DEF rest
<1>10. e.name = m[k] /\ e.folder = (Len(rest) > 1)
  BY <1>7, <1>9
<1>11. Len(rest) > 1 <=> Len(m) > Len(folder) + 1
  BY <1>3, <1>8
<1>12. e.folder \in BOOLEAN /\ (e.folder <=> Len(rest) > 1)
  <2> DEFINE deep == Len(rest) > 1
  <2>1. deep \in BOOLEAN
    BY <1>3, <1>8
  <2>2. e.folder = deep
    BY <1>10
  <2> HIDE DEF deep
  <2>3. e.folder \in BOOLEAN /\ (e.folder <=> deep)
    BY <2>1, <2>2, Zenon
  <2> QED
    BY <2>3 DEF deep
<1> QED
  BY <1>1, <1>2, <1>4, <1>5, <1>6, <1>10, <1>11, <1>12

\* A folder and what is listed of it.
LEMMA ListedPath ==
  ASSUME FilesTyped, NEW folder \in Seq(Parts), NEW e \in Listing(folder)
  PROVE  LET path == Append(folder, e.name)
         IN  IF e.folder THEN IsFolder(path) ELSE Exists(path)
<1>1. PICK m \in ListFiles :
           /\ m \in Seq(Parts) /\ Len(folder) < Len(m)
           /\ \A i \in 1 .. Len(folder) : folder[i] = m[i]
           /\ e.name = m[Len(folder) + 1] /\ e.name \in Parts
           /\ e.folder \in BOOLEAN /\ (e.folder <=> Len(m) > Len(folder) + 1)
  BY ListedIs
<1> DEFINE path == Append(folder, e.name)
<1>2. /\ path \in Seq(Parts) /\ Len(path) = Len(folder) + 1
      /\ \A i \in 1 .. Len(folder) : path[i] = folder[i]
      /\ path[Len(folder) + 1] = e.name
  BY <1>1, AppendProperties
<1>3. Len(folder) \in Nat /\ Len(m) \in Nat
  BY <1>1, LenProperties
<1> HIDE DEF path
<1>4. \A i \in 1 .. Len(path) : path[i] = m[i]
  BY <1>1, <1>2, <1>3
<1>5. CASE e.folder
  <2>1. IsStrictPrefix(path, m)
    BY <1>1, <1>2, <1>3, <1>4, <1>5, StrictPrefixIs
  <2> QED
    BY <1>1, <1>5, <2>1 DEF IsFolder, path
<1>6. CASE ~e.folder
  <2>1. Len(path) = Len(m)
    BY <1>1, <1>2, <1>3, <1>6
  <2>2. path = m
    BY <1>1, <1>2, <1>4, <2>1, SeqEqual
  <2> QED
    BY <1>1, <1>6, <2>2 DEF Exists, ListFiles, path
<1> QED
  BY <1>5, <1>6

LEMMA FullPathIs ==
  ASSUME PathsTyped, NEW arg \in Arguments
  PROVE  \E S : FullPath(arg) \in Seq(S)
<1> DEFINE S == Parts \cup ToSet(arg.path)
<1>1. cwd \in Seq(S) /\ arg.path \in Seq(S)
  BY Wider, ShellAssumption DEF PathsTyped
<1> HIDE DEF S
<1>2. cwd \o arg.path \in Seq(S)
  BY <1>1
<1> QED
  BY <1>1, <1>2 DEF FullPath

LEMMA ShownTyped ==
  ASSUME FilesTyped, NEW path \in Seq(Parts), explorer' = Shown(path)
  PROVE  /\ explorer'.path \in Seq(Parts)
         /\ \A e \in explorer'.displayed_entries : e.name \in Parts /\ e.folder \in BOOLEAN
<1>1. explorer'.path = path /\ explorer'.displayed_entries = Listing(path)
  BY DEF Shown
<1>2. ASSUME NEW e \in Listing(path) PROVE e.name \in Parts /\ e.folder \in BOOLEAN
  BY ListedIs
<1> QED
  BY <1>1, <1>2

LEMMA PathsStep == FilesTyped /\ PathsTyped /\ [Next]_vars => PathsTyped'
<1> SUFFICES ASSUME FilesTyped, PathsTyped, [Next]_vars PROVE PathsTyped'
  OBVIOUS
<1>1. <<>> \in Seq(Parts)
  OBVIOUS
<1>2. cwd \in Seq(Parts) /\ explorer.path \in Seq(Parts)
  BY DEF PathsTyped
<1>3. CASE UNCHANGED <<cwd, explorer>>
  BY <1>3 DEF PathsTyped
<1>4. ASSUME cwd' \in Seq(Parts), UNCHANGED explorer PROVE PathsTyped'
  BY <1>4 DEF PathsTyped
<1>5. ASSUME NEW path \in Seq(Parts), explorer' = Shown(path), UNCHANGED cwd PROVE PathsTyped'
  BY <1>2, <1>5, ShownTyped DEF PathsTyped
<1>6. CASE CdRoot
  BY <1>1, <1>4, <1>6 DEF CdRoot
<1>7. CASE CdUp
  BY <1>2, <1>4, <1>7, FrontIsPath DEF CdUp
<1>8. ASSUME NEW arg \in Arguments, Cd(arg) PROVE PathsTyped'
  <2>1. PICK n \in ListFiles : IsStrictPrefix(FullPath(arg), n)
    BY <1>8 DEF Cd, IsFolder
  <2>2. n \in Seq(Parts)
    BY NamesArePaths, OverlayAssumption DEF ListFiles, FilesTyped
  <2>3. PICK S : FullPath(arg) \in Seq(S)
    BY FullPathIs
  <2>4. FullPath(arg) \in Seq(Parts)
    BY <2>1, <2>2, <2>3, PrefixOfPath
  <2> QED
    BY <1>4, <1>8, <2>4 DEF Cd
<1>9. CASE OpenFiles
  BY <1>1, <1>5, <1>9 DEF OpenFiles
<1>10. CASE BackClick
  BY <1>1, <1>2, <1>5, <1>10, FrontIsPath DEF BackClick
<1>11. ASSUME NEW entry \in explorer.displayed_entries, RowClick(entry) PROVE PathsTyped'
  <2>1. entry.name \in Parts
    BY DEF PathsTyped
  <2>2. Append(explorer.path, entry.name) \in Seq(Parts)
    BY <1>2, <2>1, AppendProperties
  <2> QED
    BY <1>2, <1>5, <1>11, <2>2 DEF RowClick
<1>12. CASE \E arg \in Arguments : RmCommand(arg) \/ \E data \in Buffers : WriteCommand(arg, data)
  BY <1>3, <1>12 DEF RmCommand, WriteCommand
<1>13. CASE OtherCall /\ UNCHANGED <<cwd, explorer>>
  BY <1>3, <1>13
<1>14. CASE UNCHANGED vars
  BY <1>3, <1>14 DEF vars
<1> QED
  BY <1>6, <1>7, <1>8, <1>9, <1>10, <1>11, <1>12, <1>13, <1>14 DEF Next

-----------------------------------------------------------------------------
(* Invariants.                                                                *)

ShellTypes == FsTypes /\ PathsTyped

LEMMA ShellTypesInvariant == Spec => []ShellTypes
<1>1. Init => ShellTypes
  <2> SUFFICES ASSUME Init PROVE ShellTypes
    OBVIOUS
  <2>1. ram_files = << >> /\ open_files = << >> /\ next_fd = 3 /\ disturbed = {}
    BY DEF Init, FsInit
  <2>2. DOMAIN ram_files = {} /\ DOMAIN open_files = {}
    BY <2>1
  <2>3. ram_files \in [{} -> Files] /\ open_files \in [{} -> Handles]
    BY <2>1
  <2>4. FilesTyped
    BY <2>2, <2>3 DEF FilesTyped
  <2>5. FdsTyped
    BY <2>1, <2>2, <2>3 DEF FdsTyped, Fds
  <2>6. <<>> \in Seq(Parts) /\ cwd = <<>> /\ explorer = Shown(<<>>)
    BY DEF Init
  <2>7. \A e \in Listing(<<>>) : e.name \in Parts /\ e.folder \in BOOLEAN
    BY <2>4, <2>6, ListedIs
  <2>8. explorer.path = <<>> /\ explorer.displayed_entries = Listing(<<>>)
    BY <2>6 DEF Shown
  <2> QED
    BY <2>4, <2>5, <2>6, <2>7, <2>8 DEF ShellTypes, FsTypes, PathsTyped
<1>2. ShellTypes /\ [Next]_vars => ShellTypes'
  <2> SUFFICES ASSUME ShellTypes, [Next]_vars PROVE ShellTypes'
    OBVIOUS
  <2>1. FsTypes /\ FilesTyped /\ PathsTyped
    BY DEF ShellTypes, FsTypes
  <2>2. FsCall \/ FilesKept
    BY <2>1, CallOrNothing
  <2>3. FilesKept => FsTypes'
    BY <2>1 DEF FilesKept, FsTypes, FilesTyped, FdsTyped, Fds
  <2> QED
    BY <2>1, <2>2, <2>3, FsTypesStep, PathsStep DEF ShellTypes
<1> QED
  BY <1>1, <1>2, PTL DEF Spec

\* Names, contents, descriptors and folders are what they should be: descriptors are from
\* 3 and below the next one, and no offset is negative.
THEOREM Shell_TypeOK == Spec => []TypeOK
<1>1. ShellTypes => TypeOK
  <2> SUFFICES ASSUME ShellTypes PROVE TypeOK
    OBVIOUS
  <2>1. FilesTyped /\ FdsTyped /\ PathsTyped
    BY DEF ShellTypes, FsTypes
  <2>2. DOMAIN ram_files \subseteq Names /\ \A n \in DOMAIN ram_files : ram_files[n] \in Seq(Bytes)
    BY <2>1 DEF FilesTyped, Files
  <2>3. \A fd \in Fds : open_files[fd].path \in Names /\ open_files[fd].offset \in 0 .. MaxLen
    BY <2>1 DEF FdsTyped, Handles
  <2> QED
    BY <2>1, <2>2, <2>3 DEF TypeOK, FdsTyped, PathsTyped, Parts
<1> QED
  BY <1>1, ShellTypesInvariant, PTL

-----------------------------------------------------------------------------
(* Stale rows.                                                                *)

\* What there is has existed, and what has existed are names.
Remembered == ListFiles \subseteq existed /\ existed \subseteq Names

LEMMA NextRemembers == FilesTyped /\ FilesTyped' /\ Remembered /\ [Next]_vars
                         => Remembered' /\ existed \subseteq existed'
<1> SUFFICES ASSUME FilesTyped, FilesTyped', Remembered, [Next]_vars
             PROVE  Remembered' /\ existed \subseteq existed'
  OBVIOUS
<1>1. ListFiles' \subseteq Names
  BY OverlayAssumption DEF ListFiles, FilesTyped
<1>2. CASE UNCHANGED <<ram_files, existed>>
  BY <1>2 DEF Remembered, ListFiles
<1>3. CASE Recorded
  BY <1>1, <1>3 DEF Remembered, Recorded
<1>4. CASE CdRoot \/ CdUp \/ (\E arg \in Arguments : Cd(arg)) \/ OpenFiles \/ BackClick
           \/ \E entry \in explorer.displayed_entries : RowClick(entry)
  BY <1>2, <1>4 DEF CdRoot, CdUp, Cd, OpenFiles, BackClick, RowClick, FilesKept
<1>5. CASE \E arg \in Arguments : RmCommand(arg) \/ \E data \in Buffers : WriteCommand(arg, data)
  BY <1>3, <1>5 DEF RmCommand, WriteCommand
<1>6. CASE UNCHANGED vars
  BY <1>2, <1>6 DEF vars
<1> QED
  BY <1>3, <1>4, <1>5, <1>6 DEF Next

\* A folder around a folder that was there was there.
LEMMA FrontWasFolder ==
  ASSUME existed \subseteq Names, NEW path \in Seq(Parts), path # <<>>, WasFolder(path)
  PROVE  Front(path) = <<>> \/ WasFolder(Front(path))
<1>1. PICK n \in existed : IsStrictPrefix(path, n)
  BY DEF WasFolder
<1>2. n \in Seq(Parts) /\ Front(path) \in Seq(Parts)
  BY NamesArePaths, FrontIsPath
<1>3. Len(path) \in Nat \ {0} /\ Len(n) \in Nat
  BY <1>2, LenProperties, EmptySeq
<1>4. /\ Len(Front(path)) = Len(path) - 1
      /\ \A i \in 1 .. Len(path) - 1 : Front(path)[i] = path[i]
  <2>1. path \in [1 .. Len(path) -> Parts]
    BY LenProperties
  <2>2. \A i \in 1 .. Len(path) - 1 : path[i] \in Parts
    BY <1>3, <2>1
  <2> DEFINE k == Len(path) - 1
             u == SubSeq(path, 1, k)
  <2>3. k \in Nat /\ \A i \in 1 .. k : path[i] \in Parts
    BY <1>3, <2>2
  <2>4. Front(path) = u
    BY DEF Front
  <2> HIDE DEF k
  <2>5. /\ Len(u) = IF 1 <= k THEN k - 1 + 1 ELSE 0
        /\ \A i \in 1 .. k - 1 + 1 : u[i] = path[1 + i - 1]
    BY <2>3, SubSeqProperties
  <2> HIDE DEF u
  <2>6. Len(u) = k /\ \A i \in 1 .. k : u[i] = path[i]
    BY <2>3, <2>5
  <2> QED
    BY <2>4, <2>6 DEF k
<1>5. Len(path) < Len(n) /\ \A i \in 1 .. Len(path) : path[i] = n[i]
  BY <1>1, <1>2, StrictPrefixIs
<1>6. /\ Len(Front(path)) < Len(n)
      /\ \A i \in 1 .. Len(Front(path)) : Front(path)[i] = n[i]
  BY <1>3, <1>4, <1>5
<1>7. IsStrictPrefix(Front(path), n)
  BY <1>2, <1>6, StrictPrefixIs
<1> QED
  BY <1>7 DEF WasFolder

\* The two parts of RowsWereThere.
FoldersWere == \A folder \in {cwd, explorer.path} : folder = <<>> \/ WasFolder(folder)
RowsWere ==
  \A e \in explorer.displayed_entries :
    LET path == Append(explorer.path, e.name)
    IN  IF e.folder THEN WasFolder(path) ELSE path \in existed

\* A new picture shows what is there.
LEMMA ShownRows ==
  ASSUME FilesTyped, ListFiles \subseteq existed, NEW folder \in Seq(Parts)
  PROVE  \A e \in Shown(folder).displayed_entries :
           LET path == Append(folder, e.name)
           IN  IF e.folder THEN WasFolder(path) ELSE path \in existed
<1> SUFFICES ASSUME NEW e \in Listing(folder)
             PROVE  LET path == Append(folder, e.name)
                    IN  IF e.folder THEN WasFolder(path) ELSE path \in existed
  BY DEF Shown
<1> DEFINE path == Append(folder, e.name)
<1>1. IF e.folder THEN IsFolder(path) ELSE Exists(path)
  BY ListedPath
<1>2. IsFolder(path) => WasFolder(path)
  BY DEF IsFolder, WasFolder
<1>3. Exists(path) => path \in existed
  BY DEF Exists, ListFiles
<1> QED
  BY <1>1, <1>2, <1>3

\* Files come and go behind the rows, which go on belonging to their path.
LEMMA RowsStep ==
  ShellTypes /\ ShellTypes' /\ Remembered /\ RowsWereThere /\ [Next]_vars => RowsWereThere'
<1> SUFFICES ASSUME ShellTypes, ShellTypes', Remembered, RowsWereThere, [Next]_vars
             PROVE  RowsWereThere'
  OBVIOUS
<1>0. /\ FilesTyped /\ FilesTyped' /\ FoldersWere /\ RowsWere
      /\ cwd \in Seq(Parts) /\ explorer.path \in Seq(Parts)
  BY DEF ShellTypes, FsTypes, PathsTyped, RowsWereThere, FoldersWere, RowsWere
<1>1. /\ existed \subseteq existed' /\ existed \subseteq Names
      /\ \A path : WasFolder(path) => WasFolder(path)'
  <2>1. existed \subseteq existed' /\ existed \subseteq Names
    BY <1>0, NextRemembers DEF Remembered
  <2> QED
    BY <2>1 DEF WasFolder
<1>2. CASE UNCHANGED <<cwd, explorer>>
  <2>1. FoldersWere'
    BY <1>0, <1>1, <1>2 DEF FoldersWere
  <2>2. RowsWere'
    BY <1>0, <1>1, <1>2 DEF RowsWere
  <2> QED
    BY <2>1, <2>2 DEF RowsWereThere, FoldersWere, RowsWere
<1>3. ASSUME cwd' = <<>> \/ WasFolder(cwd'), UNCHANGED <<explorer, existed>> PROVE RowsWereThere'
  <2>1. FoldersWere' /\ RowsWere'
    BY <1>0, <1>3 DEF FoldersWere, RowsWere, WasFolder
  <2> QED
    BY <2>1 DEF RowsWereThere, FoldersWere, RowsWere
<1>4. ASSUME NEW path \in Seq(Parts), path = <<>> \/ WasFolder(path), explorer' = Shown(path),
             UNCHANGED <<cwd, existed>>
      PROVE  RowsWereThere'
  <2>1. explorer'.path = path /\ explorer'.displayed_entries = Shown(path).displayed_entries
    BY <1>4 DEF Shown
  <2>2. FoldersWere'
    BY <1>0, <1>4, <2>1 DEF FoldersWere, WasFolder
  <2>3. \A e \in Shown(path).displayed_entries :
          LET p == Append(path, e.name) IN IF e.folder THEN WasFolder(p) ELSE p \in existed
    BY <1>0, ShownRows DEF Remembered
  <2>4. RowsWere'
    BY <1>4, <2>1, <2>3 DEF RowsWere, WasFolder
  <2> QED
    BY <2>2, <2>4 DEF RowsWereThere, FoldersWere, RowsWere
<1>5. <<>> \in Seq(Parts)
  OBVIOUS
<1>6. CASE CdRoot
  BY <1>3, <1>6 DEF CdRoot, FilesKept
<1>7. CASE CdUp
  BY <1>0, <1>1, <1>3, <1>7, FrontWasFolder DEF CdUp, FilesKept, FoldersWere
<1>8. ASSUME NEW arg \in Arguments, Cd(arg) PROVE RowsWereThere'
  <2>1. WasFolder(FullPath(arg))
    BY <1>8 DEF Cd, IsFolder, WasFolder, Remembered
  <2> QED
    BY <1>3, <1>8, <2>1 DEF Cd, FilesKept
<1>9. CASE OpenFiles
  BY <1>4, <1>5, <1>9 DEF OpenFiles, FilesKept
<1>10. CASE BackClick
  <2> DEFINE path == IF explorer.path = <<>> THEN <<>> ELSE Front(explorer.path)
  <2>1. path \in Seq(Parts)
    BY <1>0, <1>5, FrontIsPath
  <2>2. path = <<>> \/ WasFolder(path)
    BY <1>0, <1>1, FrontWasFolder DEF FoldersWere
  <2>3. explorer' = Shown(path) /\ UNCHANGED <<cwd, existed>>
    BY <1>10 DEF BackClick, FilesKept
  <2> HIDE DEF path
  <2> QED
    BY <1>4, <2>1, <2>2, <2>3
<1>11. ASSUME NEW entry \in explorer.displayed_entries, RowClick(entry) PROVE RowsWereThere'
  <2> DEFINE path == IF entry.folder THEN Append(explorer.path, entry.name) ELSE explorer.path
  <2>1. entry.name \in Parts
    BY DEF ShellTypes, PathsTyped
  <2>2. path \in Seq(Parts)
    BY <1>0, <2>1, AppendProperties
  <2>3. path = <<>> \/ WasFolder(path)
    BY <1>0 DEF FoldersWere, RowsWere
  <2>4. explorer' = Shown(path) /\ UNCHANGED <<cwd, existed>>
    BY <1>11 DEF RowClick, FilesKept
  <2> HIDE DEF path
  <2> QED
    BY <1>4, <2>2, <2>3, <2>4
<1>12. CASE \E arg \in Arguments : RmCommand(arg) \/ \E data \in Buffers : WriteCommand(arg, data)
  BY <1>2, <1>12 DEF RmCommand, WriteCommand
<1>13. CASE OtherCall /\ UNCHANGED <<cwd, explorer>>
  BY <1>2, <1>13
<1>14. CASE UNCHANGED vars
  BY <1>2, <1>14 DEF vars
<1> QED
  BY <1>6, <1>7, <1>8, <1>9, <1>10, <1>11, <1>12, <1>13, <1>14 DEF Next

\* However many files come and go after the explorer was drawn, its rows belong to the path
\* they are shown under, and a click on any of them leads to a folder that was there once.
THEOREM Shell_RowsWereThere == Spec => []RowsWereThere
<1> DEFINE RowsInv == ShellTypes /\ Remembered /\ RowsWereThere
<1>1. Init /\ ShellTypes => RowsInv
  <2> SUFFICES ASSUME Init, ShellTypes PROVE RowsInv
    OBVIOUS
  <2>1. FilesTyped /\ existed = ListFiles /\ cwd = <<>> /\ explorer = Shown(<<>>)
    BY DEF Init, ShellTypes, FsTypes
  <2>2. Remembered
    BY <2>1, OverlayAssumption DEF Remembered, ListFiles, FilesTyped
  <2>3. explorer.path = <<>> /\ <<>> \in Seq(Parts)
    BY <2>1 DEF Shown
  <2>4. RowsWere
    BY <2>1, <2>3, ShownRows DEF RowsWere
  <2> QED
    BY <2>1, <2>2, <2>3, <2>4 DEF RowsWereThere, RowsWere
<1>2. RowsInv /\ ShellTypes' /\ [Next]_vars => RowsInv'
  <2>1. (ShellTypes => FilesTyped) /\ (ShellTypes' => FilesTyped')
    BY DEF ShellTypes, FsTypes
  <2> QED
    BY <2>1, NextRemembers, RowsStep
<1>3. RowsInv => RowsWereThere
  OBVIOUS
<1> QED
  BY <1>1, <1>2, <1>3, ShellTypesInvariant, PTL DEF Spec

-----------------------------------------------------------------------------
(* Descriptors that append.                                                   *)

\* The contents of m, given the files in RAM.
Seen(ram, m) ==
  IF m \in DOMAIN ram THEN ram[m] ELSE IF m \in DOMAIN TarFiles THEN TarFiles[m] ELSE <<>>

LEMMA EnsureRamIsSeen == \A m : EnsureRam(m) = Seen(ram_files, m)
  BY DEF EnsureRam, Exists, ReadSlice, Seen

KeptFile(m) ==
  /\ m \in DOMAIN ram_files' <=> m \in DOMAIN ram_files
  /\ m \in DOMAIN ram_files => ram_files'[m] = ram_files[m]

LEMMA KeptIsSeen == \A m : KeptFile(m) => Seen(ram_files', m) = Seen(ram_files, m)
  BY DEF KeptFile, Seen

LEMMA PutKeeps ==
  ASSUME FilesTyped, NEW n \in Names, NEW data \in Files, Put(n, data)
  PROVE  Seen(ram_files', n) = data /\ \A m : m # n => KeptFile(m)
<1>1. /\ DOMAIN ram_files' = DOMAIN ram_files \cup {n} /\ ram_files'[n] = data
      /\ \A m \in DOMAIN ram_files \ {n} : ram_files'[m] = ram_files[m]
  BY PutTyped
<1>2. Seen(ram_files', n) = data
  BY <1>1 DEF Seen
<1>3. \A m : m # n => KeptFile(m)
  BY <1>1 DEF KeptFile
<1> QED
  BY <1>2, <1>3

LEMMA RemoveKeeps ==
  ASSUME NEW n, RemoveFiles(n)
  PROVE  \A m : m # n => KeptFile(m)
<1> DEFINE D == DOMAIN ram_files \ {n}
<1>1. ram_files' = [m \in D |-> ram_files[m]]
  BY DEF RemoveFiles
<1> HIDE DEF D
<1>2. DOMAIN ram_files' = D /\ \A m \in D : ram_files'[m] = ram_files[m]
  BY <1>1
<1> QED
  BY <1>2 DEF KeptFile, D

SameHandle(fd) ==
  /\ open_files'[fd].path = open_files[fd].path
  /\ open_files'[fd].flags = open_files[fd].flags
  /\ open_files'[fd].offset = open_files[fd].offset

\* What the history of a descriptor says: nothing happened to its file but its own writing.
LEMMA Undisturbed ==
  ASSUME FsTypes, FsCall \/ FilesKept, NEW fd \in Fds, fd \in Fds', fd \notin disturbed'
  PROVE  /\ fd \notin disturbed
         /\ \/ SameHandle(fd) /\ KeptFile(open_files[fd].path)
            \/ \E buf \in Buffers : open_files[fd].offset + Len(buf) <= MaxLen /\ Write(fd, buf)
<1> DEFINE Q == \/ SameHandle(fd) /\ KeptFile(open_files[fd].path)
                \/ \E buf \in Buffers : open_files[fd].offset + Len(buf) <= MaxLen /\ Write(fd, buf)
<1>1. FilesTyped /\ fd \in Nat /\ fd # next_fd /\ fd # NoFile
  BY OverlayAssumption DEF FsTypes, FdsTyped
<1>2. (UNCHANGED ram_files) => \A m : KeptFile(m)
  BY DEF KeptFile
<1>3. (open_files'[fd] = open_files[fd]) => SameHandle(fd)
  BY DEF SameHandle
<1>4. ASSUME NEW n \in Names, NEW by, Disturb(n, by), fd # by, \A m : m # n => KeptFile(m)
      PROVE  fd \notin disturbed /\ KeptFile(open_files[fd].path)
  BY <1>4 DEF Disturb
<1>5. ASSUME NEW n \in OpenNames, NEW flags \in FlagSets, Open(n, flags)
      PROVE  fd \notin disturbed /\ Q
  <2> DEFINE data == IF {"TRUNC", "WRITE"} \subseteq flags THEN <<>> ELSE EnsureRam(n)
  <2>1. /\ n \in Names /\ data \in Files /\ open_files'[fd] = open_files[fd]
        /\ (Put(n, data) /\ Disturb(n, next_fd)) \/ UNCHANGED <<ram_files, disturbed>>
    BY <1>5, OpenedIs
  <2> HIDE DEF data
  <2>2. CASE Put(n, data) /\ Disturb(n, next_fd)
    <3>1. \A m : m # n => KeptFile(m)
      BY <1>1, <2>1, <2>2, PutKeeps
    <3> QED
      BY <1>1, <1>3, <1>4, <2>1, <2>2, <3>1
  <2>3. CASE UNCHANGED <<ram_files, disturbed>>
    BY <1>2, <1>3, <2>1, <2>3
  <2> QED
    BY <2>1, <2>2, <2>3
<1>6. ASSUME NEW d \in Fds, NEW off \in 0 .. MaxLen, Moves(d, off)
      PROVE  fd \notin disturbed /\ Q
  <2>1. /\ open_files'[d].path = open_files[d].path /\ open_files'[d].flags = open_files[d].flags
        /\ open_files'[d].offset = off
        /\ \A g \in Fds \ {d} : open_files'[g] = open_files[g]
    BY <1>6, MovedTyped DEF Moves
  <2>2. fd \notin disturbed /\ UNCHANGED ram_files /\ (fd = d => off = open_files[d].offset)
    BY <1>6 DEF Moves
  <2>3. SameHandle(fd)
    BY <1>3, <2>1, <2>2 DEF SameHandle
  <2> QED
    BY <1>2, <2>2, <2>3
<1>7. ASSUME NEW d \in Fds, NEW buf \in Buffers, open_files[d].offset + Len(buf) <= MaxLen, Write(d, buf)
      PROVE  fd \notin disturbed /\ Q
  <2> DEFINE n == open_files[d].path
             data == Patched(EnsureRam(n), open_files[d].offset, buf)
             off == open_files[d].offset + Len(buf)
  <2>1. /\ data \in Files /\ off \in 0 .. MaxLen /\ Put(n, data) /\ Disturb(n, d)
        /\ open_files' = [open_files EXCEPT ![d].offset = off]
    BY <1>7, WriteIs
  <2>2. fd # d => open_files'[fd] = open_files[fd]
    BY <2>1, MovedTyped
  <2>3. n \in Names
    BY HandleType
  <2>4. CASE fd = d
    BY <1>7, <2>1, <2>4 DEF Disturb
  <2>5. CASE fd # d
    <3> HIDE DEF n, data
    <3>1. \A m : m # n => KeptFile(m)
      BY <1>1, <2>1, <2>3, PutKeeps
    <3> QED
      BY <1>3, <1>4, <2>1, <2>2, <2>3, <2>5, <3>1
  <2> QED
    BY <2>4, <2>5
<1>8. ASSUME NEW d \in Fds, Close(d)
      PROVE  fd \notin disturbed /\ Q
  BY <1>2, <1>3, <1>8, CloseIs
<1>9. ASSUME NEW n \in Names, NEW data \in Files, Put(n, data), Disturb(n, NoFile), UNCHANGED open_files
      PROVE  fd \notin disturbed /\ Q
  <2>1. \A m : m # n => KeptFile(m)
    BY <1>1, <1>9, PutKeeps
  <2> QED
    BY <1>1, <1>3, <1>4, <1>9, <2>1
<1>10. ASSUME NEW n \in Names, NEW data \in Buffers, WriteFile(n, data)
       PROVE  fd \notin disturbed /\ Q
  <2>1. data \in Files
    BY OverlayAssumption DEF Files
  <2> QED
    BY <1>9, <1>10, <2>1 DEF WriteFile
<1>11. ASSUME NEW n \in Names, NEW buf \in Buffers, Length(n) + Len(buf) <= MaxLen, AppendFile(n, buf)
       PROVE  fd \notin disturbed /\ Q
  <2>1. EnsureRam(n) \o buf \in Files
    BY <1>11, AppendedIs
  <2> QED
    BY <1>9, <1>11, <2>1 DEF AppendFile
<1>12. ASSUME NEW n \in Names, RemoveFiles(n)
       PROVE  fd \notin disturbed /\ Q
  <2>1. \A m : m # n => KeptFile(m)
    BY <1>12, RemoveKeeps
  <2> QED
    BY <1>1, <1>3, <1>4, <1>12, <2>1 DEF RemoveFiles
<1>13. ASSUME FilesKept PROVE fd \notin disturbed /\ Q
  BY <1>2, <1>3, <1>13 DEF FilesKept
<1>14. ASSUME NEW d \in Fds, NEW len \in 1 .. MaxLen, Read(d, len)
       PROVE  fd \notin disturbed /\ Q
  BY <1>6, <1>14, ReadMoves
<1>15. ASSUME NEW d \in Fds, NEW from \in {"Start", "Current", "End"}, NEW k \in -1 .. 1,
              Seek(d, from, k), open_files'[d].offset <= MaxLen
       PROVE  fd \notin disturbed /\ Q
  BY <1>6, <1>15, SeekMoves
<1> HIDE DEF Q
<1>16. ASSUME FsCall PROVE fd \notin disturbed /\ Q
  BY <1>5, <1>7, <1>8, <1>10, <1>11, <1>12, <1>14, <1>15, <1>16 DEF FsCall
<1>17. fd \notin disturbed /\ Q
  BY <1>13, <1>16
<1> QED
  BY <1>17 DEF Q

\* A descriptor that appends is at the end of its file until somebody disturbs it.
AtEnd ==
  \A fd \in Fds \ disturbed :
    "APPEND" \in open_files[fd].flags =>
      open_files[fd].offset = Len(Seen(ram_files, open_files[fd].path))

LEMMA AtEndStep == FsTypes /\ AtEnd /\ (FsCall \/ FilesKept) => AtEnd'
<1> SUFFICES ASSUME FsTypes, AtEnd, FsCall \/ FilesKept,
                    NEW fd \in Fds', fd \notin disturbed', "APPEND" \in open_files'[fd].flags
             PROVE  open_files'[fd].offset = Len(Seen(ram_files', open_files'[fd].path))
  BY DEF AtEnd
<1>1. CASE fd \in Fds
  <2>1. /\ fd \notin disturbed
        /\ \/ SameHandle(fd) /\ KeptFile(open_files[fd].path)
           \/ \E buf \in Buffers : open_files[fd].offset + Len(buf) <= MaxLen /\ Write(fd, buf)
    BY <1>1, Undisturbed
  <2>2. CASE SameHandle(fd) /\ KeptFile(open_files[fd].path)
    BY <1>1, <2>1, <2>2, KeptIsSeen DEF AtEnd, SameHandle
  <2>3. ASSUME NEW buf \in Buffers, open_files[fd].offset + Len(buf) <= MaxLen, Write(fd, buf)
        PROVE  open_files'[fd].offset = Len(Seen(ram_files', open_files'[fd].path))
    <3> DEFINE n == open_files[fd].path
               old == EnsureRam(n)
               data == Patched(old, open_files[fd].offset, buf)
               off == open_files[fd].offset + Len(buf)
    <3>1. /\ data \in Files /\ off \in 0 .. MaxLen /\ Put(n, data)
          /\ Len(data) = IF off > Len(old) THEN off ELSE Len(old)
          /\ open_files' = [open_files EXCEPT ![fd].offset = off]
      BY <1>1, <2>3, WriteIs
    <3>2. n \in Names /\ open_files[fd].offset \in Nat /\ Len(buf) \in Nat
      BY <1>1, HandleType, OverlayAssumption
    <3>3. open_files'[fd].path = n /\ open_files'[fd].flags = open_files[fd].flags
          /\ open_files'[fd].offset = off
      BY <1>1, <3>1, MovedTyped
    <3>4. open_files[fd].offset = Len(old)
      BY <1>1, <2>1, <3>3, EnsureRamIsSeen DEF AtEnd
    <3>5. Len(data) = off
      BY <3>1, <3>2, <3>4
    <3> HIDE DEF data, off, n
    <3>6. Seen(ram_files', n) = data
      BY <3>1, <3>2, PutKeeps DEF FsTypes
    <3> QED
      BY <3>3, <3>5, <3>6
  <2> QED
    BY <2>1, <2>2, <2>3
<1>2. CASE fd \notin Fds
  <2>1. PICK n \in OpenNames, flags \in FlagSets : Open(n, flags)
    <3>1. FilesKept => Fds' = Fds
      BY DEF FilesKept, Fds
    <3>2. \A d \in Fds, off \in 0 .. MaxLen : Moves(d, off) => Fds' = Fds
      BY MovedTyped DEF Moves
    <3>3. \A d \in Fds, buf \in Buffers :
            open_files[d].offset + Len(buf) <= MaxLen /\ Write(d, buf) => Fds' = Fds
      BY WriteIs, MovedTyped
    <3>4. \A d \in Fds : Close(d) => Fds' \subseteq Fds
      BY CloseIs
    <3>5. \A n \in Names :
             /\ \A data \in Buffers : WriteFile(n, data) \/ AppendFile(n, data) => Fds' = Fds
             /\ RemoveFiles(n) => Fds' = Fds
      BY DEF WriteFile, AppendFile, RemoveFiles, Fds
    <3>6. \A d \in Fds, len \in 1 .. MaxLen : Read(d, len) => Fds' = Fds
      BY <3>2, ReadMoves
    <3>7. \A d \in Fds, from \in {"Start", "Current", "End"}, k \in -1 .. 1 :
             Seek(d, from, k) /\ open_files'[d].offset <= MaxLen => Fds' = Fds
      BY <3>2, SeekMoves
    <3> QED
      BY <1>2, <3>1, <3>3, <3>4, <3>5, <3>6, <3>7 DEF FsCall
  <2> DEFINE truncate == {"TRUNC", "WRITE"} \subseteq flags
             data == IF truncate THEN <<>> ELSE EnsureRam(n)
  <2>2. /\ n \in Names /\ data \in Files /\ Fds' = Fds \cup {next_fd}
        /\ open_files'[next_fd].path = n /\ open_files'[next_fd].flags = flags
        /\ "APPEND" \in flags => open_files'[next_fd].offset = Len(data)
        /\ IF ~Exists(n) \/ truncate THEN Put(n, data) ELSE UNCHANGED ram_files
    BY <2>1, OpenedIs
  <2>3. fd = next_fd
    BY <1>2, <2>2
  <2>4. CASE Put(n, data)
    <3> HIDE DEF data
    <3> QED
      BY <2>2, <2>3, <2>4, PutKeeps DEF FsTypes
  <2>5. CASE ~truncate /\ UNCHANGED ram_files
    BY <2>2, <2>3, <2>5, EnsureRamIsSeen
  <2> QED
    BY <2>2, <2>4, <2>5
<1> QED
  BY <1>1, <1>2

LEMMA AtEndInvariant == Spec => []AtEnd
<1>1. Init => AtEnd
  BY DEF Init, FsInit, AtEnd, Fds
<1>2. ShellTypes /\ AtEnd /\ [Next]_vars => AtEnd'
  BY AtEndStep, CallOrNothing DEF ShellTypes, FsTypes
<1> QED
  BY <1>1, <1>2, ShellTypesInvariant, PTL DEF Spec

\* While only one appending descriptor changes a file, and nobody moves it, the old
\* contents stay a prefix of the new ones.
THEOREM Shell_SoleAppenderKeeps == Spec => SoleAppenderKeeps
<1> DEFINE Step ==
      \A fd \in Fds \cap DOMAIN open_files' :
        "APPEND" \in open_files[fd].flags /\ fd \notin disturbed /\ fd \notin disturbed'
          => IsPrefix(EnsureRam(open_files[fd].path),
                      IF open_files[fd].path \in DOMAIN ram_files'
                      THEN ram_files'[open_files[fd].path]
                      ELSE EnsureRam(open_files[fd].path))
<1>1. ShellTypes /\ AtEnd /\ [Next]_vars => Step
  <2> SUFFICES ASSUME ShellTypes, AtEnd, [Next]_vars,
                      NEW fd \in Fds, fd \in Fds', "APPEND" \in open_files[fd].flags,
                      fd \notin disturbed, fd \notin disturbed'
               PROVE  IsPrefix(EnsureRam(open_files[fd].path),
                               IF open_files[fd].path \in DOMAIN ram_files'
                               THEN ram_files'[open_files[fd].path]
                               ELSE EnsureRam(open_files[fd].path))
    BY DEF Fds
  <2> DEFINE n == open_files[fd].path
             old == EnsureRam(n)
             new == IF n \in DOMAIN ram_files' THEN ram_files'[n] ELSE old
  <2>1. FsTypes /\ FilesTyped /\ (FsCall \/ FilesKept)
    BY CallOrNothing DEF ShellTypes, FsTypes
  <2>2. n \in Names /\ old \in Seq(Bytes) /\ old \in Files /\ open_files[fd].offset \in Nat
    BY <2>1, HandleType DEF Files
  <2>3. \/ KeptFile(n)
        \/ \E buf \in Buffers : open_files[fd].offset + Len(buf) <= MaxLen /\ Write(fd, buf)
    BY <2>1, Undisturbed
  <2>4. CASE KeptFile(n)
    <3>1. new = old
      BY <2>4, EnsureRamIsSeen DEF KeptFile, Seen
    <3> HIDE DEF new, old
    <3> QED
      BY <2>2, <3>1, PrefixIs, LenProperties DEF new, old
  <2>5. ASSUME NEW buf \in Buffers, open_files[fd].offset + Len(buf) <= MaxLen, Write(fd, buf)
        PROVE  IsPrefix(old, new)
    <3> DEFINE data == Patched(old, open_files[fd].offset, buf)
               size == IF open_files[fd].offset + Len(buf) > Len(old)
                       THEN open_files[fd].offset + Len(buf) ELSE Len(old)
    <3>1. buf \in Seq(Bytes) /\ Len(buf) \in Nat /\ Len(old) \in Nat
      BY <2>2, OverlayAssumption
    <3>2. /\ data \in Files /\ Len(data) = size
          /\ data = [i \in 1 .. size |->
                       IF open_files[fd].offset < i /\ i <= open_files[fd].offset + Len(buf)
                       THEN buf[i - open_files[fd].offset]
                       ELSE IF i <= Len(old) THEN old[i] ELSE Zero]
      BY <2>2, <2>5, <3>1, PatchedIs, ZenonT(30)
    <3>3. Put(n, data)
      BY <2>1, <2>5, WriteIs
    <3>4. open_files[fd].offset = Len(old)
      BY EnsureRamIsSeen DEF AtEnd
    <3> HIDE DEF data, n, old
    <3>5. size \in Nat /\ Len(old) <= size
      BY <2>2, <3>1
    <3> HIDE DEF size
    <3>6. \A i \in 1 .. Len(old) : data[i] = old[i]
      BY <2>2, <3>1, <3>2, <3>4, <3>5
    <3>7. new = data
      BY <2>1, <2>2, <3>2, <3>3, PutTyped
    <3>8. data \in Seq(Bytes)
      BY <3>2 DEF Files
    <3> HIDE DEF new
    <3> QED
      BY <2>2, <3>2, <3>5, <3>6, <3>7, <3>8, PrefixIs
  <2> QED
    BY <2>3, <2>4, <2>5
<1>2. Spec => [][Step]_vars
  <2> HIDE DEF Step
  <2> QED
    BY <1>1, ShellTypesInvariant, AtEndInvariant, PTL DEF Spec
<1> QED
  BY <1>2 DEF SoleAppenderKeeps

-----------------------------------------------------------------------------
(* Refinement of FileStore.                                                   *)

LEMMA VisibleIs ==
  ASSUME FilesTyped, NEW n \in Names
  PROVE  /\ Visible[n] = IF Exists(n) THEN EnsureRam(n) ELSE NoFile
         /\ Visible[n] = NoFile <=> ~Exists(n)
         /\ Store!Text(n) = EnsureRam(n)
<1>1. EnsureRam(n) \in Seq(Bytes) /\ NoFile \notin Seq(Bytes)
  BY EnsureRamType, OverlayAssumption DEF Files
<1>2. Visible[n] = IF Exists(n) THEN EnsureRam(n) ELSE NoFile
  BY DEF Visible, EnsureRam
<1>3. ~Exists(n) => EnsureRam(n) = <<>>
  BY DEF EnsureRam
<1> QED
  BY <1>1, <1>2, <1>3 DEF Store!Text

LEMMA ChangedIs ==
  /\ Store!Changed = {m \in Names : Visible'[m] # Visible[m]}
  /\ Store!Changed = {} => Visible' = Visible
<1>1. DOMAIN Image = Names
  BY DEF Image
<1>2. Store!Changed = {m \in Names : Visible'[m] # Visible[m]}
  BY <1>1 DEF Store!Changed
<1>3. Store!Changed = {} => \A m \in Names : Visible'[m] = Visible[m]
  BY <1>2
<1>4. /\ Visible = [m \in Names |-> Visible[m]]
      /\ Visible' = [m \in Names |-> Visible'[m]]
  BY DEF Visible
<1> HIDE DEF Visible
<1>5. (\A m \in Names : Visible'[m] = Visible[m]) => Visible' = Visible
  BY <1>4, Zenon
<1> QED
  BY <1>2, <1>3, <1>5

LEMMA KeptVisible ==
  ASSUME NEW m \in Names, KeptFile(m)
  PROVE  Visible'[m] = Visible[m]
  BY DEF Visible, Exists, ReadSlice, KeptFile

LEMMA KeptUnchanged == (UNCHANGED ram_files) => Store!Changed = {}
<1> SUFFICES ASSUME UNCHANGED ram_files PROVE Store!Changed = {}
  OBVIOUS
<1>1. \A m \in Names : KeptFile(m)
  BY DEF KeptFile
<1> QED
  BY <1>1, KeptVisible, ChangedIs

LEMMA PutBecomes ==
  ASSUME FilesTyped, NEW n \in Names, NEW data \in Files, Put(n, data)
  PROVE  Store!Becomes(n, data)
<1>1. n \in DOMAIN ram_files' /\ ram_files'[n] = data
  BY PutTyped
<1>2. Visible'[n] = data
  BY <1>1 DEF Visible, Exists, ReadSlice
<1>3. \A m \in Names \ {n} : Visible'[m] = Visible[m]
  BY PutKeeps, KeptVisible
<1>4. Store!Changed \subseteq {n}
  BY <1>3, ChangedIs
<1> QED
  BY <1>2, <1>4 DEF Store!Becomes

LEMMA WholeFileStep ==
  ASSUME NEW n \in Names, NEW text, Store!Becomes(n, text), UNCHANGED open_files,
         n \in Store!Changed =>
           Store!Remove(n) \/ \E buf \in Buffers : Store!Replace(n, buf) \/ Store!AppendTo(n, buf)
  PROVE  Store!WholeFile \/ UNCHANGED <<Visible, open_files>>
<1>1. CASE n \in Store!Changed
  BY <1>1 DEF Store!WholeFile
<1>2. CASE n \notin Store!Changed
  <2>1. Store!Changed = {}
    BY <1>2 DEF Store!Becomes
  <2> QED
    BY <2>1, ChangedIs
<1> QED
  BY <1>1, <1>2

\* Every call of the file system is one of those its users can tell apart.
LEMMA StoreStep ==
  ASSUME FsTypes, FsCall \/ FilesKept
  PROVE  Store!ANext \/ UNCHANGED <<Visible, open_files>>
<1> DEFINE Goal == Store!ANext \/ UNCHANGED <<Visible, open_files>>
<1>1. FilesTyped /\ Fds = DOMAIN open_files
  BY DEF FsTypes, Fds
<1>2. ASSUME NEW n \in OpenNames, NEW flags \in FlagSets, Open(n, flags) PROVE Goal
  <2> DEFINE truncate == {"TRUNC", "WRITE"} \subseteq flags
             data == IF truncate THEN <<>> ELSE EnsureRam(n)
             h == next_fd
  <2>1. /\ n \in Names /\ h \notin Fds /\ Fds' = Fds \cup {h} /\ data \in Files
        /\ open_files'[h].path = n /\ open_files'[h].flags = flags
        /\ \A fd \in Fds : open_files'[fd] = open_files[fd]
        /\ IF ~Exists(n) \/ truncate THEN Put(n, data) ELSE UNCHANGED ram_files
    BY <1>2, OpenedIs
  <2>2. ~Exists(n) => data = <<>>
    BY DEF EnsureRam
  <2>3. truncate => data = <<>> /\ "WRITE" \in flags
    OBVIOUS
  <2> HIDE DEF data, truncate, h
  <2>4. Visible[n] = NoFile <=> ~Exists(n)
    BY <1>1, <2>1, VisibleIs
  <2>5. CASE ~Exists(n) \/ truncate
    <3>1. Store!Becomes(n, <<>>)
      BY <1>1, <2>1, <2>2, <2>3, <2>5, PutBecomes
    <3>2. Visible[n] = NoFile \/ Store!Writes(open_files'[h])
      BY <2>1, <2>3, <2>4, <2>5 DEF Store!Writes
    <3>3. Store!OthersKept(h)
      BY <1>1, <2>1 DEF Store!OthersKept, Fds
    <3>4. Store!Open(h)
      BY <2>1, <3>1, <3>2, <3>3 DEF Store!Open, Fds
    <3> QED
      BY <2>1, <3>4 DEF Store!ANext, Fds
  <2>6. CASE ~(~Exists(n) \/ truncate)
    <3>1. Store!Changed = {} /\ Visible[n] # NoFile
      BY <2>1, <2>4, <2>6, KeptUnchanged
    <3>2. Store!OthersKept(h)
      BY <1>1, <2>1 DEF Store!OthersKept, Fds
    <3>3. Store!Open(h)
      BY <2>1, <3>1, <3>2 DEF Store!Open, Fds
    <3> QED
      BY <2>1, <3>3 DEF Store!ANext, Fds
  <2> QED
    BY <2>5, <2>6
<1>3. ASSUME NEW fd \in Fds, NEW off \in 0 .. MaxLen, Moves(fd, off) PROVE Goal
  <2>1. /\ Fds' = Fds /\ open_files'[fd] = [open_files[fd] EXCEPT !.offset = off]
        /\ open_files'[fd].offset = off /\ \A d \in Fds \ {fd} : open_files'[d] = open_files[d]
    BY <1>3, MovedTyped DEF Moves
  <2>2. Store!Changed = {} /\ off \in Nat
    BY <1>3, KeptUnchanged, OverlayAssumption DEF Moves
  <2>3. Store!OthersKept(fd)
    BY <1>1, <2>1 DEF Store!OthersKept, Fds
  <2>4. open_files'[fd] = [open_files[fd] EXCEPT !.offset = open_files'[fd].offset]
    BY <2>1
  <2>5. Store!Move(fd)
    BY <2>1, <2>2, <2>3, <2>4 DEF Store!Move, Fds
  <2> QED
    BY <2>5 DEF Store!ANext, Fds
<1>4. ASSUME NEW fd \in Fds, NEW buf \in Buffers, open_files[fd].offset + Len(buf) <= MaxLen, Write(fd, buf)
      PROVE  Goal
  <2> DEFINE n == open_files[fd].path
             old == EnsureRam(n)
             data == Patched(old, open_files[fd].offset, buf)
  <2>1. /\ data \in Files /\ Put(n, data)
        /\ open_files' = [open_files EXCEPT ![fd].offset = open_files[fd].offset + Len(buf)]
    BY <1>4, WriteIs
  <2>2. n \in Names /\ old \in Files /\ open_files[fd].offset \in Nat /\ buf \in Seq(Bytes)
    BY HandleType, OverlayAssumption
  <2>3. data = Store!Overwritten(old, open_files[fd].offset, buf)
    BY <1>4, <2>2, PatchedIs, ZenonT(30) DEF Store!Overwritten
  <2>4. "WRITE" \in open_files[fd].flags
    BY <1>4 DEF Write
  <2>5. Store!Text(n) = old
    BY <1>1, <2>2, VisibleIs
  <2> HIDE DEF data
  <2>6. Store!Becomes(n, data)
    BY <1>1, <2>1, <2>2, PutBecomes
  <2>7. Store!Becomes(n, Store!Overwritten(Store!Text(n), open_files[fd].offset, buf))
    BY <2>3, <2>5, <2>6
  <2>8. Store!Write(fd, buf)
    BY <2>1, <2>4, <2>7 DEF Store!Write, Store!Writes
  <2> QED
    BY <2>8 DEF Store!ANext, Fds
<1>5. ASSUME NEW fd \in Fds, Close(fd) PROVE Goal
  <2>1. /\ Fds' = Fds \ {fd} /\ \A d \in Fds' : open_files'[d] = open_files[d]
        /\ UNCHANGED ram_files
    BY <1>5, CloseIs
  <2>2. Store!OthersKept(fd) /\ Store!Changed = {}
    BY <2>1, KeptUnchanged DEF Store!OthersKept, Fds
  <2>3. Store!Close(fd)
    BY <2>1, <2>2 DEF Store!Close, Fds
  <2> QED
    BY <2>3 DEF Store!ANext, Fds
<1>6. ASSUME NEW n \in Names, NEW data \in Buffers, WriteFile(n, data) PROVE Goal
  <2>1. data \in Files
    BY OverlayAssumption DEF Files
  <2>2. Store!Becomes(n, data)
    BY <1>1, <1>6, <2>1, PutBecomes DEF WriteFile
  <2>3. Store!Replace(n, data)
    BY <2>2 DEF Store!Replace
  <2> QED
    BY <1>6, <2>2, <2>3, WholeFileStep DEF WriteFile, Store!ANext
<1>7. ASSUME NEW n \in Names, NEW buf \in Buffers, Length(n) + Len(buf) <= MaxLen, AppendFile(n, buf)
      PROVE  Goal
  <2> DEFINE data == EnsureRam(n) \o buf
  <2>1. data \in Files
    BY <1>7, AppendedIs
  <2>2. Store!Text(n) \o buf = data
    BY <1>1, VisibleIs
  <2>3. Put(n, data) /\ UNCHANGED open_files
    BY <1>7 DEF AppendFile
  <2> HIDE DEF data
  <2>4. Store!Becomes(n, data)
    BY <1>1, <2>1, <2>3, PutBecomes
  <2>5. Store!AppendTo(n, buf)
    BY <2>2, <2>4 DEF Store!AppendTo
  <2> QED
    BY <2>3, <2>4, <2>5, WholeFileStep DEF Store!ANext
<1>8. ASSUME NEW n \in Names, RemoveFiles(n) PROVE Goal
  <2>1. n \in DOMAIN ram_files /\ n \notin DOMAIN ram_files' /\ UNCHANGED open_files
    BY <1>8 DEF RemoveFiles
  <2>2. \A m \in Names \ {n} : Visible'[m] = Visible[m]
    BY <1>8, RemoveKeeps, KeptVisible
  <2>3. Visible'[n] = Image[n]
    BY <2>1 DEF Visible, Exists, ReadSlice, Image
  <2>4. Store!Becomes(n, Image[n])
    BY <2>2, <2>3, ChangedIs DEF Store!Becomes
  <2>5. Visible[n] # NoFile
    BY <1>1, <2>1, VisibleIs DEF Exists
  <2>6. Store!Remove(n)
    BY <2>4, <2>5 DEF Store!Remove
  <2> QED
    BY <2>1, <2>4, <2>6, WholeFileStep DEF Store!ANext
<1>9. ASSUME FilesKept PROVE Goal
  BY <1>9, KeptUnchanged, ChangedIs DEF FilesKept
<1>10. ASSUME NEW fd \in Fds, NEW len \in 1 .. MaxLen, Read(fd, len) PROVE Goal
  BY <1>3, <1>10, ReadMoves
<1>11. ASSUME NEW fd \in Fds, NEW from \in {"Start", "Current", "End"}, NEW d \in -1 .. 1,
              Seek(fd, from, d), open_files'[fd].offset <= MaxLen
       PROVE  Goal
  BY <1>3, <1>11, SeekMoves
<1> HIDE DEF Goal
<1>12. ASSUME FsCall PROVE Goal
  BY <1>2, <1>4, <1>5, <1>6, <1>7, <1>8, <1>10, <1>11, <1>12 DEF FsCall
<1>13. Goal
  BY <1>9, <1>12
<1> QED
  BY <1>13 DEF Goal

\* Where the bytes are kept cannot be seen: the file system is a store of files by name
\* with descriptors on them.
THEOREM Shell_StoreImplemented == Spec => StoreImplemented
<1>1. Init => Store!AInit
  <2> SUFFICES ASSUME Init PROVE Store!AInit
    OBVIOUS
  <2>1. ram_files = << >> /\ open_files = << >>
    BY DEF Init, FsInit
  <2>2. DOMAIN ram_files = {}
    BY <2>1
  <2>3. Visible = Image
    BY <2>2 DEF Visible, Image, Exists, ReadSlice
  <2> QED
    BY <2>1, <2>3 DEF Store!AInit
<1>2. ShellTypes /\ [Next]_vars => [Store!ANext]_<<Visible, open_files>>
  BY CallOrNothing, StoreStep DEF ShellTypes, FsTypes
<1> QED
  BY <1>1, <1>2, ShellTypesInvariant, PTL DEF Spec, StoreImplemented, Store!ASpec
=============================================================================
