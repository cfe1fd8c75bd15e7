------------------------------ MODULE OverlayFS ------------------------------
(***************************************************************************)
(* The file system of kernel/src/fs.rs: a read-only TAR image under files  *)
(* kept in RAM.  The first change of a file of the image copies it up.     *)
(* The shell, the editor and the file explorer use whole files; the        *)
(* descriptors have no caller yet.  FILESYSTEM is a Mutex, so a call is    *)
(* one step.  Calls that return an error change nothing and are left out.  *)
(***************************************************************************)
EXTENDS Integers, Sequences, FiniteSetsExt

CONSTANTS
  Names,         \* paths
  TarFiles,      \* contents of the files of the image, by path
  Bytes, Zero,
  Buffers,       \* what a call writes
  OpenNames,     \* paths opened
  FlagSets,      \* OpenFlags asked for: sets of "READ", "WRITE", "CREATE", "APPEND", "TRUNC"
  MaxLen,        \* bound on the length of a file and on offsets
  MaxFd,         \* bound on the descriptors ever opened
  NoFile

ASSUME OverlayAssumption ==
  /\ DOMAIN TarFiles \cup OpenNames \subseteq Names
  /\ Zero \in Bytes
  /\ MaxLen \in Nat /\ MaxFd \in Nat
  /\ \A n \in DOMAIN TarFiles : TarFiles[n] \in Seq(Bytes) /\ Len(TarFiles[n]) <= MaxLen
  /\ <<>> \in Buffers /\ \A buf \in Buffers : buf \in Seq(Bytes) /\ Len(buf) <= MaxLen
  /\ NoFile \notin Seq(Bytes) /\ NoFile \notin Nat

VARIABLES
  ram_files,     \* contents by path
  open_files,    \* by descriptor: [path, offset, flags]
  next_fd,
  disturbed      \* history: descriptors that were moved, or whose file others changed

fsvars == <<ram_files, open_files, next_fd, disturbed>>

-----------------------------------------------------------------------------
Fds == DOMAIN open_files

Exists(n) == n \in DOMAIN ram_files \cup DOMAIN TarFiles

ReadSlice(n) == IF n \in DOMAIN ram_files THEN ram_files[n] ELSE TarFiles[n]

Length(n) == IF Exists(n) THEN Len(ReadSlice(n)) ELSE 0

\* Mutant of EnsureRam: a file of the image is not copied.
EnsureRamEmpty(n) == IF n \in DOMAIN ram_files THEN ram_files[n] ELSE <<>>

\* The RAM copy that ensure_ram leaves.
EnsureRam(n) == IF Exists(n) THEN ReadSlice(n) ELSE <<>>

\* insert of a BTreeMap.
Inserted(map, key, value) == [k \in DOMAIN map \cup {key} |-> IF k = key THEN value ELSE map[k]]

Put(n, data) == ram_files' = Inserted(ram_files, n, data)

\* resize, then copy_from_slice.
Patched(data, offset, buf) ==
  LET end == offset + Len(buf)
  IN  [i \in 1 .. Max({Len(data), end}) |->
         IF i \in offset + 1 .. end THEN buf[i - offset]
         ELSE IF i \in DOMAIN data THEN data[i] ELSE Zero]

\* History: a change of file n disturbs the descriptors of n except fd.
Disturb(n, fd) ==
  disturbed' = disturbed \cup {d \in Fds : open_files[d].path = n /\ d # fd}

-----------------------------------------------------------------------------
FsInit == ram_files = << >> /\ open_files = << >> /\ next_fd = 3 /\ disturbed = {}

\* open, for a descriptor number, the length taken for APPEND, and whether it truncates.
Opened(n, flags, fd, end, truncate) ==
  LET data == IF truncate THEN <<>> ELSE EnsureRam(n)
  IN  /\ Exists(n) \/ "CREATE" \in flags
      /\ IF ~Exists(n) \/ truncate THEN Put(n, data) /\ Disturb(n, fd)
         ELSE UNCHANGED <<ram_files, disturbed>>
      /\ open_files' = Inserted(open_files, fd,
                                [path |-> n, flags |-> flags,
                                 offset |-> IF "APPEND" \in flags THEN end ELSE 0])
      /\ next_fd' = next_fd + 1

\* Mutant of Open: the length of a file that is still in the image counts as 0.
OpenAppendRam(n, flags) ==
  Opened(n, flags, next_fd, IF n \in DOMAIN ram_files /\ "TRUNC" \notin flags THEN Length(n) ELSE 0,
         {"TRUNC", "WRITE"} \subseteq flags)

\* The offset of an APPEND descriptor is taken here, once.
Open(n, flags) ==
  LET truncate == {"TRUNC", "WRITE"} \subseteq flags
  IN  Opened(n, flags, next_fd, IF truncate THEN 0 ELSE Length(n), truncate)

\* Any descriptor reads, whatever its flags.
Read(fd, len) ==
  LET of == open_files[fd]
      n == Max({0, Min({len, Length(of.path) - of.offset})})
  IN  /\ Exists(of.path)
      /\ open_files' = [open_files EXCEPT ![fd].offset = @ + n]
      /\ disturbed' = IF n = 0 THEN disturbed ELSE disturbed \cup {fd}
      /\ UNCHANGED <<ram_files, next_fd>>

\* A removed file comes back with its old contents, or empty.
Write(fd, buf) ==
  LET of == open_files[fd]
  IN  /\ "WRITE" \in of.flags
      /\ Put(of.path, Patched(EnsureRam(of.path), of.offset, buf))
      /\ Disturb(of.path, fd)
      /\ open_files' = [open_files EXCEPT ![fd].offset = @ + Len(buf)]
      /\ UNCHANGED next_fd

SeekBase(fd) ==
  [Start |-> 0, Current |-> open_files[fd].offset, End |-> Length(open_files[fd].path)]

\* Mutant of Seek: an offset below zero is not refused.
SeekUnchecked(fd, from, d) ==
  /\ open_files' = [open_files EXCEPT ![fd].offset = SeekBase(fd)[from] + d]
  /\ disturbed' = disturbed \cup {fd}
  /\ UNCHANGED <<ram_files, next_fd>>

\* SeekFrom::Start, Current and End; below zero is InvalidSeek.
Seek(fd, from, d) ==
  /\ SeekBase(fd)[from] + d >= 0
  /\ open_files' = [open_files EXCEPT ![fd].offset = SeekBase(fd)[from] + d]
  /\ disturbed' = disturbed \cup {fd}
  /\ UNCHANGED <<ram_files, next_fd>>

Close(fd) ==
  /\ open_files' = [d \in Fds \ {fd} |-> open_files[d]]
  /\ disturbed' = disturbed \ {fd}
  /\ UNCHANGED <<ram_files, next_fd>>

WriteFile(n, data) == Put(n, data) /\ Disturb(n, NoFile) /\ UNCHANGED <<open_files, next_fd>>

AppendFile(n, data) ==
  /\ Put(n, EnsureRam(n) \o data)
  /\ Disturb(n, NoFile)
  /\ UNCHANGED <<open_files, next_fd>>

\* Only RAM files can be removed; one that is in the image as well shows again.
RemoveFiles(n) ==
  /\ n \in DOMAIN ram_files
  /\ ram_files' = [m \in DOMAIN ram_files \ {n} |-> ram_files[m]]
  /\ Disturb(n, NoFile)
  /\ UNCHANGED <<open_files, next_fd>>

\* Calls with bounded inputs.
OpenCall == \E n \in OpenNames, flags \in FlagSets : next_fd < MaxFd /\ Open(n, flags)

ReadCall(fd) == \E len \in 1 .. MaxLen : Read(fd, len)

WriteCall(fd) == \E buf \in Buffers : open_files[fd].offset + Len(buf) <= MaxLen /\ Write(fd, buf)

SeekCall(fd) ==
  \E from \in {"Start", "Current", "End"}, d \in -1 .. 1 :
    Seek(fd, from, d) /\ open_files'[fd].offset <= MaxLen
=============================================================================
