--------------------------------- MODULE Files ---------------------------------
(***************************************************************************)
(* The files of the processes of lab8: the tables of open files            *)
(* (kern/fs/file.c, fs.c), the VFS calls below them (vfsfile.c, vfspath.c, *)
(* vfs.c, vfslookup.c) and what fork, exec and exit do to the tables       *)
(* (kern/process/proc.c), over the file system of Sfs.                     *)
(*                                                                         *)
(* The kernel is not preemptive and nothing in these calls waits, so a     *)
(* system call is one step.  The statuses FD_INIT and FD_CLOSED and the    *)
(* open_count of an entry change within a call only: between calls an      *)
(* entry is FD_NONE or FD_OPENED.  The body of sfs_io_nolock is an         *)
(* exercise left open and moves no bytes: a read or a write leaves the     *)
(* position where it is.                                                   *)
(* kernel_thread shares no tables (nobody passes CLONE_FS).                *)
(***************************************************************************)
EXTENDS Sfs

CONSTANTS
  Procs,
  NFD,         \* FILES_STRUCT_NENTRY
  FirstFd,     \* files_closeall leaves the descriptors below it open
  Positions,   \* the arguments of lseek
  MaxRef,      \* bound: open with O_EXCL leaks references up to this many
  MaxOpen      \* bound: descriptors open at once in all processes

Fds == 0..(NFD - 1)
Root == Min(Dirs)

ASSUME FilesAssumption ==
  /\ Dirs # {} /\ Procs # {} /\ IsFiniteSet(Procs)
  /\ NFD \in Nat \ {0} /\ FirstFd \in Fds
  /\ Positions \subseteq Nat
  /\ MaxRef \in Nat /\ MaxOpen \in Nat

VARIABLES
  fs,     \* the mounted file system, a record of Sfs
  pwd,    \* current directory of a process, None for one that has no table
  fd,     \* fd_array of a process: FD_NONE or what is open
  alive   \* the processes

files_vars == <<fs, pwd, fd, alive>>
tables == <<pwd, fd, alive>>

FD_NONE == [node |-> None]
File(i, pos, writable) == [node |-> i, pos |-> pos, writable |-> writable]
Opened(p) == {k \in Fds : fd[p][k] # FD_NONE}
Free(p) == Fds \ Opened(p)
RoomFor(n) == n + Cardinality({x \in Procs \X Fds : x[2] \in Opened(x[1])}) <= MaxOpen
NoFiles == [k \in Fds |-> FD_NONE]

Running(p) == p \in alive /\ fs.panic = ""

(* vfs_set_bootfs: bootfs_node and the first process name the root.        *)
FilesInit ==
  LET first == CHOOSE p \in Procs : TRUE
  IN  /\ fs = inode_ref_inc(sfs_load_inode(sfs_do_mount, Root), Root)
      /\ pwd = [p \in Procs |-> IF p = first THEN Root ELSE None]
      /\ fd = [p \in Procs |-> NoFiles]
      /\ alive = {first}
-----------------------------------------------------------------------------
(* file_open and vfs_open.  vop_create and vop_truncate are NULL for a     *)
(* directory; calling them fails an assertion.  O_EXCL of a file that      *)
(* exists returns without vop_ref_dec.                                     *)
vfs_open(f, i, can_write, trunc, create, excl, append) ==
  LET opened == inode_open_inc(f, i)
  IN  IF excl /\ create THEN Failed(f)
      ELSE IF i \in Dirs /\ (can_write \/ append) THEN Failed(inode_ref_dec(f, i))
      ELSE IF ~(trunc \/ create) THEN Done(opened)
      ELSE IF i \in Dirs THEN Failed(Panic(opened, "vop_truncate"))
      ELSE sfs_truncfile(opened, i, 0)

file_open(p, i, can_write, trunc, create, excl, append) ==
  /\ Running(p)
  /\ Free(p) # {}                \* or -E_MAX_OPEN
  /\ RoomFor(1)
  /\ trunc => can_write          \* or -E_INVAL
  /\ excl /\ create /\ Cached(fs, i) => fs.cache[i].ref < MaxRef
  /\ LET r == vfs_open(sfs_load_inode(fs, i), i, can_write, trunc, create, excl, append)
         pos == IF append THEN r.fs.cache[i].din.size ELSE 0
     IN  /\ fs' = r.fs
         /\ fd' = IF r.ok
                  THEN [fd EXCEPT ![p][Min(Free(p))] = File(i, pos, can_write)]
                  ELSE fd
  /\ UNCHANGED <<pwd, alive>>

Open(p, i) ==
  \E can_write, trunc, create, excl, append \in BOOLEAN :
    file_open(p, i, can_write, trunc, create, excl, append)

(* O_CREAT of a name that is not there.                                    *)
OpenMissing(p) ==
  /\ Running(p) /\ Free(p) # {}
  /\ fs' = Panic(fs, "vop_create")
  /\ UNCHANGED tables

file_close(p, k) ==
  /\ Running(p) /\ k \in Opened(p)
  /\ fs' = vfs_close(fs, fd[p][k].node)
  /\ fd' = [fd EXCEPT ![p][k] = FD_NONE]
  /\ UNCHANGED <<pwd, alive>>

(* file_read: reading a file changes nothing; a directory, which can only  *)
(* be opened for reading, has no vop_read, and the call of it fails an     *)
(* assertion.                                                              *)
file_read(p, k) ==
  /\ Running(p) /\ k \in Opened(p)
  /\ fs' = IF fd[p][k].node \in Dirs THEN Panic(fs, "vop_read") ELSE fs
  /\ UNCHANGED tables

(* sfs_io_nolock after its empty part: a position past the end of the file *)
(* becomes its size.                                                       *)
file_write(p, k) ==
  /\ Running(p) /\ k \in Opened(p) /\ fd[p][k].writable
  /\ LET i == fd[p][k].node
     IN  fs' = IF fd[p][k].pos > fs.cache[i].din.size
               THEN [fs EXCEPT !.cache[i].din.size = fd[p][k].pos, !.cache[i].dirty = TRUE]
               ELSE fs
  /\ UNCHANGED tables

(* file_seek and sfs_tryseek: a position past the end extends the file.    *)
(* A directory has no vop_tryseek.                                         *)
file_seek(p, k, pos) ==
  /\ Running(p) /\ k \in Opened(p)
  /\ LET i == fd[p][k].node
         r == IF i \in Dirs THEN Failed(Panic(fs, "vop_tryseek"))
              ELSE IF pos > fs.cache[i].din.size THEN sfs_truncfile(fs, i, pos)
              ELSE Done(fs)
     IN  /\ fs' = r.fs
         /\ fd' = IF r.ok THEN [fd EXCEPT ![p][k].pos = pos] ELSE fd
  /\ UNCHANGED <<pwd, alive>>

file_fsync(p, k) ==
  /\ Running(p) /\ k \in Opened(p)
  /\ fs' = sfs_fsync(fs, fd[p][k].node)
  /\ UNCHANGED tables

Bug_DupInc(f, i) == inode_ref_inc(f, i)   \* without vop_open_inc

(* One more descriptor for an open file, fd_array_dup.                     *)
DupInc(f, i) == inode_open_inc(inode_ref_inc(f, i), i)

file_dup(p, k, to) ==
  /\ Running(p) /\ k \in Opened(p) /\ to \in Free(p) /\ RoomFor(1)
  /\ fs' = DupInc(fs, fd[p][k].node)
  /\ fd' = [fd EXCEPT ![p][to] = fd[p][k]]
  /\ UNCHANGED <<pwd, alive>>

(* vfs_chdir: the references of vfs_lookup, vfs_set_curdir and vfs_chdir.  *)
vfs_chdir(p, i) ==
  /\ Running(p)
  /\ LET found == sfs_load_inode(fs, i)
         set == inode_ref_dec(inode_ref_inc(found, i), pwd[p])
     IN  IF i \in Dirs /\ i # pwd[p]
         THEN fs' = inode_ref_dec(set, i) /\ pwd' = [pwd EXCEPT ![p] = i]
         ELSE fs' = inode_ref_dec(found, i) /\ UNCHANGED pwd
  /\ UNCHANGED <<fd, alive>>
-----------------------------------------------------------------------------
(* Processes.  The loops go over the whole of fd_array: after[k] is the    *)
(* file system when k entries are done.                                    *)
CloseAll(f, p, ks) ==
  LET after[k \in 0..NFD] ==
        IF k = 0 THEN f
        ELSE IF k - 1 \in ks THEN vfs_close(after[k - 1], fd[p][k - 1].node)
        ELSE after[k - 1]
  IN  after[NFD]

DupAll(f, p, ks) ==
  LET after[k \in 0..NFD] ==
        IF k = 0 THEN f
        ELSE IF k - 1 \in ks THEN DupInc(after[k - 1], fd[p][k - 1].node)
        ELSE after[k - 1]
  IN  after[NFD]

(* fork: copy_files and dup_files.                                         *)
copy_files(p, child) ==
  /\ Running(p) /\ pwd[child] = None /\ RoomFor(Cardinality(Opened(p)))
  /\ fs' = DupAll(inode_ref_inc(fs, pwd[p]), p, Opened(p))
  /\ pwd' = [pwd EXCEPT ![child] = pwd[p]]
  /\ fd' = [fd EXCEPT ![child] = fd[p]]
  /\ alive' = alive \cup {child}

(* exit of a process with an mm: put_files and files_destroy.  An exec of  *)
(* a program that is not there is this step too: sysfile_open fails after  *)
(* files_closeall, mm is still there, and do_exit closes what is left.     *)
put_files(p) ==
  /\ Running(p)
  /\ fs' = CloseAll(inode_ref_dec(fs, pwd[p]), p, Opened(p))
  /\ pwd' = [pwd EXCEPT ![p] = None]
  /\ fd' = [fd EXCEPT ![p] = NoFiles]
  /\ alive' = alive \ {p}

(* do_execve: files_closeall, sysfile_open of the program i, which may be  *)
(* a directory, and load_icode, an exercise left open that may return      *)
(* anything; its failure ends in do_exit when mm is NULL already, which    *)
(* then skips put_files.                                                   *)
do_execve(p, i) ==
  /\ Running(p)
  /\ LET closing == {k \in Opened(p) : k >= FirstFd}
         closed == CloseAll(fs, p, closing)
         free == Free(p) \cup closing
         left == [k \in Fds |-> IF k \in closing THEN FD_NONE ELSE fd[p][k]]
     IN  /\ free # {} /\ RoomFor(1 - Cardinality(closing))
         /\ fs' = vfs_open(sfs_load_inode(closed, i), i, FALSE, FALSE, FALSE, FALSE, FALSE).fs
         /\ fd' = [fd EXCEPT ![p] = [left EXCEPT ![Min(free)] = File(i, 0, FALSE)]]
  /\ \/ UNCHANGED alive
     \/ alive' = alive \ {p}
  /\ UNCHANGED pwd

(* fs_cleanup, that init_main calls when all other processes are gone.     *)
fs_cleanup ==
  /\ fs.panic = "" /\ alive = {}
  /\ fs' = sfs_sync(fs)
  /\ UNCHANGED tables

FilesNext ==
  \/ \E p \in Procs :
       \/ \E i \in Inos : Open(p, i) \/ vfs_chdir(p, i) \/ do_execve(p, i)
       \/ OpenMissing(p)
       \/ \E k \in Fds : file_close(p, k) \/ file_read(p, k) \/ file_write(p, k) \/ file_fsync(p, k)
       \/ \E k \in Fds, pos \in Positions : file_seek(p, k, pos)
       \/ \E k, to \in Fds : file_dup(p, k, to)
       \/ \E child \in Procs : copy_files(p, child)
       \/ put_files(p)
  \/ fs_cleanup

FilesSpec == FilesInit /\ [][FilesNext]_files_vars
-----------------------------------------------------------------------------
(* Who refers to an inode: the open files, and the directories in use.     *)
Holders(i) == {x \in Procs \X Fds : fd[x[1]][x[2]].node = i}
Cwds(i) == {p \in Procs : pwd[p] = i}
References(i) == Cardinality(Holders(i)) + Cardinality(Cwds(i)) + (IF i = Root THEN 1 ELSE 0)

(* The counts of the VFS cover all uses of an inode, so that none is       *)
(* reclaimed while an open file or a current directory points to it, over  *)
(* any sequence of open, dup, fork, exec, chdir, close and exit by several *)
(* processes, and the failures of each; an inode is in memory only while   *)
(* there are references.                                                   *)
RefsCovered ==
  fs.panic = "" =>
    \A i \in Inos :
      IF Cached(fs, i)
      THEN /\ fs.cache[i].ref > 0
           /\ fs.cache[i].ref >= References(i)
           /\ fs.cache[i].open = Cardinality(Holders(i))
      ELSE References(i) = 0

(* Each block of the disk is in one place of one file or is free, also     *)
(* after extensions that ran out of blocks half way, and the two counts of *)
(* free blocks agree (sfs_do_mount asserts that they do).                  *)
BlocksOwnedOnce ==
  fs.panic = "" =>
    OwnedOnce(fs, [i \in Inos |-> Din(fs, i)], fs.freemap, fs.unused)

(* Whenever sfs_sync runs, it leaves a disk that is by itself a file       *)
(* system on which every block has one owner: what the next mount reads.   *)
SyncSaves ==
  fs.panic = "" =>
    LET f == sfs_sync(fs)
    IN  ~f.super_dirty /\ OwnedOnce(f, f.disk, f.saved.freemap, f.saved.unused)

(* The kernel does not fail the assertion of sfs_truncfile that a file has *)
(* as many blocks as its size takes.                                       *)
SizeAsserted == fs.panic # "tblks == din->blocks"

(* "true if inode modified".                                      *)
DirtyMarked ==
  \A i \in Inos : Cached(fs, i) /\ fs.cache[i].din # fs.disk[i] => fs.cache[i].dirty

(* An inode that nobody refers to is reclaimed.                            *)
Reclaimed ==
  fs.panic = "" => \A i \in Inos : Cached(fs, i) => References(i) > 0

(* A process that has exited has no files (fs.c, files_destroy: "Called when a proc exit"). *)
ExitDestroys ==
  fs.panic = "" => \A p \in Procs : p \notin alive => pwd[p] = None /\ fd[p] = NoFiles
================================================================================
