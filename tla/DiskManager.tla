---------------------------- MODULE DiskManager ----------------------------
(***************************************************************************)
(* DiskManager (src/storage/disk_manager.cpp): the table of open files,    *)
(* the counters that number new pages, and page-sized reads and writes.    *)
(*                                                                         *)
(* The file system is external.  A file is its size in pages and the page  *)
(* contents; a page below the end that was never written is a hole and     *)
(* reads as zeros.  Operations that throw without changing anything        *)
(* (FileExistsError, FileNotFoundError, FileNotClosedError,                *)
(* FileNotOpenError) are stuttering steps.                                 *)
(***************************************************************************)
EXTENDS Integers, FiniteSets

CONSTANTS
  Path,      \* file names
  MaxFd,     \* MAX_FD: descriptors the manager has a page counter for
  MaxPage,   \* bound on the number of pages of a file
  Data,      \* contents of a page
  Zero       \* the contents of a page of zeros

NoPath == "no_path"

ASSUME DiskAssumption ==
  /\ NoPath \notin Path
  /\ MaxFd \in Nat
  /\ MaxPage \in Nat
  /\ Zero \in Data

VARIABLES
  exists,      \* the files there are (external)
  size,        \* their length in pages (external)
  content,     \* their pages (external)
  path2fd,     \* path2fd_: path -> descriptor, for open files
  fd2path,     \* fd2path_: descriptor -> path, for open files
  fd2pageno    \* fd2pageno_: next page number to allocate, per descriptor

fileVars == <<exists, path2fd, fd2path>>
ioVars == <<size, content>>
diskVars == <<fileVars, ioVars, fd2pageno>>

Fd == 0..(MaxFd - 1)
NoFd == -1
PageNo == 0..(MaxPage - 1)
ZeroPages == [n \in PageNo |-> Zero]

Open(fd) == fd2path[fd] # NoPath

-----------------------------------------------------------------------------
(* Page input and output, on an open descriptor. *)
OnDisk(fd, n) == content[fd2path[fd]][n]

(* read_page() throws when it gets fewer bytes than a page. *)
PastEnd(fd, n) == n >= size[fd2path[fd]]

WritePage(fd, n, d) ==
  /\ content' = [content EXCEPT ![fd2path[fd]][n] = d]
  /\ size' = [size EXCEPT ![fd2path[fd]] = IF n >= @ THEN n + 1 ELSE @]

(* allocate_page(): fd2pageno_[fd]++.  The bound MaxPage is the model's. *)
AllocatePage(fd) ==
  /\ fd2pageno[fd] < MaxPage
  /\ fd2pageno' = [fd2pageno EXCEPT ![fd] = @ + 1]

-----------------------------------------------------------------------------
(* Files. *)
CreateFile(path) ==
  /\ path \notin exists
  /\ exists' = exists \union {path}
  /\ size' = [size EXCEPT ![path] = 0]
  /\ content' = [content EXCEPT ![path] = ZeroPages]
  /\ UNCHANGED <<path2fd, fd2path, fd2pageno>>

DestroyFile(path) ==
  /\ path2fd[path] = NoFd
  /\ path \in exists
  /\ exists' = exists \ {path}
  /\ UNCHANGED <<path2fd, fd2path, ioVars, fd2pageno>>

(* open_file(): a file that is open keeps its descriptor, and nothing      *)
(* changes.  Otherwise the operating system picks a descriptor no open     *)
(* file has; one that is not in Fd is closed again and not recorded.       *)
OpenFileAgain(path) ==
  /\ path \in exists
  /\ \E fd \in Fd :
       /\ ~Open(fd)
       /\ path2fd' = [path2fd EXCEPT ![path] = fd]
       /\ fd2path' = [fd2path EXCEPT ![fd] = path]
  /\ UNCHANGED <<exists, ioVars, fd2pageno>>

OpenFile(path) ==
  /\ path2fd[path] = NoFd
  /\ path \in exists
  /\ \E fd \in Fd :
       /\ ~Open(fd)
       /\ path2fd' = [path2fd EXCEPT ![path] = fd]
       /\ fd2path' = [fd2path EXCEPT ![fd] = path]
  /\ UNCHANGED <<exists, ioVars, fd2pageno>>

CloseFileKeepPath(fd) ==
  /\ Open(fd)
  /\ fd2path' = [fd2path EXCEPT ![fd] = NoPath]
  /\ UNCHANGED <<exists, path2fd, ioVars, fd2pageno>>

CloseFile(fd) ==
  /\ Open(fd)
  /\ path2fd' = [path2fd EXCEPT ![fd2path[fd]] = NoFd]
  /\ fd2path' = [fd2path EXCEPT ![fd] = NoPath]
  /\ UNCHANGED <<exists, ioVars, fd2pageno>>

SetFd2pageno(fd, n) ==
  /\ fd2pageno' = [fd2pageno EXCEPT ![fd] = n]
  /\ UNCHANGED <<fileVars, ioVars>>

-----------------------------------------------------------------------------
(* The disk manager on its own, called in any order on its open files. *)
DiskInit ==
  /\ exists = {}
  /\ size = [path \in Path |-> 0]
  /\ content = [path \in Path |-> ZeroPages]
  /\ path2fd = [path \in Path |-> NoFd]
  /\ fd2path = [fd \in Fd |-> NoPath]
  /\ fd2pageno = [fd \in Fd |-> 0]

AllocateStep(fd) == Open(fd) /\ AllocatePage(fd) /\ UNCHANGED <<fileVars, ioVars>>

WriteStep(fd, n, d) ==
  Open(fd) /\ WritePage(fd, n, d) /\ UNCHANGED <<fileVars, fd2pageno>>

DiskNext ==
  \/ \E path \in Path : CreateFile(path) \/ DestroyFile(path) \/ OpenFile(path)
  \/ \E fd \in Fd : CloseFile(fd) \/ AllocateStep(fd)
  \/ \E fd \in Fd, n \in 0..MaxPage : SetFd2pageno(fd, n)
  \/ \E fd \in Fd, n \in PageNo, d \in Data : WriteStep(fd, n, d)

DiskSpec == DiskInit /\ [][DiskNext]_diskVars

-----------------------------------------------------------------------------
DiskTypeOK ==
  /\ exists \subseteq Path
  /\ size \in [Path -> 0..MaxPage]
  /\ content \in [Path -> [PageNo -> Data]]
  /\ path2fd \in [Path -> Fd \union {NoFd}]
  /\ fd2path \in [Fd -> Path \union {NoPath}]
  /\ fd2pageno \in [Fd -> 0..MaxPage]

(* The two tables of open files are each other's inverse, after any opens  *)
(* and closes that reuse descriptors: close_file() and open_file() find    *)
(* the same file from either side (disk_manager.cpp:221-222, 246-251).     *)
FdTablesInverse ==
  \A path \in Path, fd \in Fd : path2fd[path] = fd <=> fd2path[fd] = path

(* A descriptor always names a file that is there: destroy_file() refuses  *)
(* a file that is open (disk_manager.cpp:167-170).                         *)
OpenFilesExist == \A fd \in Fd : Open(fd) => fd2path[fd] \in exists

(* A page past the end of a file has no contents, so what a later write    *)
(* leaves between the old end and the new one reads as zeros.              *)
HolesAreZero ==
  \A path \in Path, n \in PageNo : n >= size[path] => content[path][n] = Zero
=============================================================================
