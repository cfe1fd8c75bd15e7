-------------------------------- MODULE Shell --------------------------------
(***************************************************************************)
(* The users of the file system: the shell's commands on files             *)
(* (kernel/src/cli.rs) and the file explorer (kernel/src/gui/window.rs).   *)
(* There are no directories: both read them off the names of the files.    *)
(*                                                                         *)
(* A path is the sequence of what its slashes separate, so that the entry  *)
(* of a folder in the TAR image ends in NoName.  A folder is the part of a *)
(* path before one of its slashes; <<>> is the root.                       *)
(***************************************************************************)
EXTENDS OverlayFS, SequencesExt

CONSTANTS
  NoName,        \* what follows a final slash
  Arguments,     \* paths given to a command: [absolute, path]
  AppendNames    \* files given to append_file

ASSUME ShellAssumption ==
  /\ \A n \in Names : n \in Seq(ToSet(n))
  /\ \A arg \in Arguments : arg.path \in Seq(ToSet(arg.path))
  /\ AppendNames \subseteq Names

VARIABLES
  cwd,           \* the shell's folder
  explorer,      \* a Files window: [path, displayed_entries]
  existed        \* history: the files there are and have been

vars == <<ram_files, open_files, next_fd, disturbed, cwd, explorer, existed>>

-----------------------------------------------------------------------------
ListFiles == DOMAIN ram_files \cup DOMAIN TarFiles

Rest(folder, n) == SubSeq(n, Len(folder) + 1, Len(n))

EntryOf(rest) == [name |-> Head(rest), folder |-> Len(rest) > 1]

\* What ls and the explorer show of a folder.
Listing(folder) ==
  {EntryOf(Rest(folder, n)) :
     n \in {m \in ListFiles : IsStrictPrefix(folder, m) /\ Rest(folder, m) # <<NoName>>}}

IsFolder(path) == \E n \in ListFiles : IsStrictPrefix(path, n)

FullPath(arg) == IF arg.absolute THEN arg.path ELSE cwd \o arg.path

FilesKept == UNCHANGED <<ram_files, open_files, next_fd, disturbed, existed>>
Recorded  == existed' = existed \cup ListFiles'

\* A Files window is drawn when it opens, and again by a click, with the files of that time.
Shown(path) == [path |-> path, displayed_entries |-> Listing(path)]

-----------------------------------------------------------------------------
Init == FsInit /\ cwd = <<>> /\ explorer = Shown(<<>>) /\ existed = ListFiles

\* cd without an argument or with a slash, with two dots, and with a folder.
CdRoot == cwd' = <<>> /\ UNCHANGED explorer /\ FilesKept

CdUp == cwd # <<>> /\ cwd' = Front(cwd) /\ UNCHANGED explorer /\ FilesKept

Cd(arg) ==
  /\ IsFolder(FullPath(arg))
  /\ cwd' = FullPath(arg)
  /\ UNCHANGED explorer /\ FilesKept

\* touch and write.
WriteCommand(arg, data) ==
  /\ FullPath(arg) \in Names
  /\ WriteFile(FullPath(arg), data)
  /\ UNCHANGED <<cwd, explorer>> /\ Recorded

RmCommand(arg) == RemoveFiles(FullPath(arg)) /\ UNCHANGED <<cwd, explorer>> /\ Recorded

\* The window is closed and opened again.
OpenFiles == explorer' = Shown(<<>>) /\ UNCHANGED cwd /\ FilesKept

BackClick ==
  /\ explorer' = Shown(IF explorer.path = <<>> THEN <<>> ELSE Front(explorer.path))
  /\ UNCHANGED cwd /\ FilesKept

\* Mutant of RowClick: the folder is entered and its rows are not drawn.
RowClickUndrawn(entry) ==
  /\ entry \in explorer.displayed_entries
  /\ explorer' = IF entry.folder
                 THEN [explorer EXCEPT !.path = Append(@, entry.name)] ELSE Shown(explorer.path)
  /\ UNCHANGED cwd /\ FilesKept

\* A row of the last picture: a folder is entered, a file only selected.
RowClick(entry) ==
  /\ entry \in explorer.displayed_entries
  /\ explorer' = Shown(IF entry.folder THEN Append(explorer.path, entry.name) ELSE explorer.path)
  /\ UNCHANGED cwd /\ FilesKept

\* Calls that only other programs make.  The editor saves as write does, with a path
\* from the root.
OtherCall ==
  \/ OpenCall
  \/ \E fd \in Fds : ReadCall(fd) \/ WriteCall(fd) \/ SeekCall(fd) \/ Close(fd)
  \/ \E n \in AppendNames, buf \in Buffers :
       Length(n) + Len(buf) <= MaxLen /\ AppendFile(n, buf)

Next ==
  \/ CdRoot \/ CdUp \/ \E arg \in Arguments : Cd(arg)
  \/ \E arg \in Arguments : RmCommand(arg) \/ \E data \in Buffers : WriteCommand(arg, data)
  \/ OpenFiles \/ BackClick
  \/ \E entry \in explorer.displayed_entries : RowClick(entry)
  \/ OtherCall /\ UNCHANGED <<cwd, explorer>> /\ Recorded

Spec == Init /\ [][Next]_vars

-----------------------------------------------------------------------------
(* Properties.                                                             *)

\* Among the types: descriptors are below next_fd and from 3, as 0, 1 and 2 are the
\* standard streams; offsets are not negative.
TypeOK ==
  /\ DOMAIN ram_files \subseteq Names /\ \A n \in DOMAIN ram_files : ram_files[n] \in Seq(Bytes)
  /\ Fds \subseteq 3 .. next_fd - 1
  /\ \A fd \in Fds : open_files[fd].path \in Names /\ open_files[fd].offset \in 0 .. MaxLen
  /\ disturbed \subseteq Fds
  /\ cwd \in Seq(UNION {ToSet(n) : n \in Names})
  /\ \A e \in explorer.displayed_entries : e.folder \in BOOLEAN

WasFolder(path) == \E n \in existed : IsStrictPrefix(path, n)

\* Rows and folders may be stale, but never mixed up: the rows belong to the path they are
\* shown under, so that a click on a row, however old, leads to a folder that was once
\* there, and the shell's folder was one when cd looked.
RowsWereThere ==
  /\ \A folder \in {cwd, explorer.path} : folder = <<>> \/ WasFolder(folder)
  /\ \A e \in explorer.displayed_entries :
       LET path == Append(explorer.path, e.name)
       IN  IF e.folder THEN WasFolder(path) ELSE path \in existed

\* They are there now.
RowsAreThere ==
  \A e \in explorer.displayed_entries :
    LET path == Append(explorer.path, e.name)
    IN  IF e.folder THEN IsFolder(path) ELSE Exists(path)

\* As long as only one APPEND descriptor changes a file and is not moved, what was in the
\* file stays: its offset, taken when it was opened, is the end of the file.  When others
\* write as well, their bytes are overwritten.
SoleAppenderKeeps ==
  [][\A fd \in Fds \cap DOMAIN open_files' :
        "APPEND" \in open_files[fd].flags /\ fd \notin disturbed /\ fd \notin disturbed'
          => IsPrefix(EnsureRam(open_files[fd].path),
                      IF open_files[fd].path \in DOMAIN ram_files'
                      THEN ram_files'[open_files[fd].path]
                      ELSE EnsureRam(open_files[fd].path))]_vars

\* The files, wherever they are kept, and the descriptors on them.
Image == [n \in Names |-> IF n \in DOMAIN TarFiles THEN TarFiles[n] ELSE NoFile]

Visible == [n \in Names |-> IF Exists(n) THEN ReadSlice(n) ELSE NoFile]

Store == INSTANCE FileStore WITH
  Missing <- NoFile, files <- Visible, handles <- open_files

\* Copying up cannot be seen: every call changes one file at most, in the way the user
\* asked for, and a descriptor that may not write changes nothing that is there.
StoreImplemented == Store!ASpec
=============================================================================
