---------------------------------- MODULE Sfs ----------------------------------
(***************************************************************************)
(* The simple file system of lab8 (kern/fs/sfs) and the counts that the    *)
(* VFS keeps on its inodes (kern/fs/vfs/inode.c), as operators that turn   *)
(* one state of the mounted file system into the next; the system calls    *)
(* that apply them are the actions of Files.                               *)
(*                                                                         *)
(* A mounted file system is a record:                                      *)
(*   cache        the inodes in memory, sfs->hash_list                     *)
(*   disk         the inodes in their disk blocks                          *)
(*   entries      the contents of the blocks used as indirect blocks       *)
(*   freemap      the free blocks, by sfs->freemap                         *)
(*   unused, super_dirty   of the superblock in memory                     *)
(*   saved        the free map and unused_blocks that are on the disk      *)
(*   panic        the assertion that has failed, or ""                     *)
(*                                                                         *)
(* The disk is a copy in memory (kern/driver/ramdisk.c), so no call waits  *)
(* inside the file system, nobody ever waits for one of its semaphores and *)
(* no read or write fails; a call is one step.  For the same reason        *)
(* reclaim_count of an inode is always 1, and it is left out.  No call     *)
(* removes a name, so nlinks stays above 0.  The blocks of the directories *)
(* are not counted: nothing allocates or frees them.                       *)
(***************************************************************************)
EXTENDS Integers, FiniteSets, FiniteSetsExt, Functions

CONSTANTS
  Files, Dirs,        \* the regular files and directories: their inode numbers
  NData,              \* how many blocks there are for the data of files
  SFS_NDIRECT,        \* block numbers in an inode
  SFS_BLK_NENTRY,     \* block numbers in an indirect block
  SFS_BLKSIZE

Inos == Files \cup Dirs
Data == 1..NData
None == 0   \* ino 0, no block

Blocks(len) == (len + SFS_BLKSIZE - 1) \div SFS_BLKSIZE   \* ROUNDUP_DIV

ASSUME SfsAssumption ==
  /\ Inos \subseteq Nat \ {0} /\ IsFiniteSet(Inos) /\ Files \cap Dirs = {}
  /\ {NData, SFS_NDIRECT, SFS_BLK_NENTRY} \subseteq Nat
  /\ SFS_BLKSIZE \in Nat \ {0}

NoNode == [ref |-> 0]
EmptyDin == [size |-> 0, blocks |-> 0, indirect |-> None,
             direct |-> [k \in 0..(SFS_NDIRECT - 1) |-> None]]
ZeroBlock == [k \in 0..(SFS_BLK_NENTRY - 1) |-> None]

(* A file system that mksfs has written, with files that are empty.        *)
sfs_do_mount ==
  [cache |-> [i \in Inos |-> NoNode],
   disk |-> [i \in Inos |-> EmptyDin],
   entries |-> [b \in Data |-> ZeroBlock],
   freemap |-> Data, unused |-> NData, super_dirty |-> FALSE,
   saved |-> [freemap |-> Data, unused |-> NData],
   panic |-> ""]

Cached(fs, i) == fs.cache[i] # NoNode
Panic(fs, what) == [fs EXCEPT !.panic = what]
-----------------------------------------------------------------------------
(* Blocks.  A call that may fail returns [fs, ok].  A definition named     *)
(* Bug_x is x with a plausible mistake; the mutation runs put it in the    *)
(* place of x.                                                             *)
Done(fs) == [fs |-> fs, ok |-> TRUE]
Failed(fs) == [fs |-> fs, ok |-> FALSE]

bitmap_alloc(fs) == Min(fs.freemap)   \* the first free block

Bug_sfs_block_alloc(fs) ==   \* does not set super_dirty
  [fs EXCEPT !.freemap = @ \ {bitmap_alloc(fs)}, !.unused = @ - 1,
             !.entries[bitmap_alloc(fs)] = ZeroBlock]

sfs_block_alloc(fs) ==
  [fs EXCEPT !.freemap = @ \ {bitmap_alloc(fs)}, !.unused = @ - 1,
             !.super_dirty = TRUE, !.entries[bitmap_alloc(fs)] = ZeroBlock]

sfs_block_free(fs, b) ==
  [fs EXCEPT !.freemap = @ \cup {b}, !.unused = @ + 1, !.super_dirty = TRUE]

(* Block k of the indirect block, which is allocated with its first entry; *)
(* when there is no block for the entry, the new indirect block is freed.  *)
sfs_bmap_get_sub_nolock(fs, i, k) ==
  LET ent == fs.cache[i].din.indirect
      WithEntry(f, e) ==
        [sfs_block_alloc(f) EXCEPT !.entries[e][k] = bitmap_alloc(f)]
  IN  CASE ent # None /\ fs.entries[ent][k] # None -> Done(fs)
        [] ent # None /\ fs.entries[ent][k] = None /\ fs.freemap # {} -> Done(WithEntry(fs, ent))
        [] ent = None /\ Cardinality(fs.freemap) > 1 ->
             LET new == bitmap_alloc(fs)
                 f == WithEntry(sfs_block_alloc(fs), new)
             IN  Done([f EXCEPT !.cache[i].din.indirect = new, !.cache[i].dirty = TRUE])
        [] ent = None /\ Cardinality(fs.freemap) = 1 ->
             Failed(sfs_block_free(sfs_block_alloc(fs), bitmap_alloc(fs)))
        [] OTHER -> Failed(fs)

sfs_bmap_get_nolock(fs, i, k) ==
  IF k >= SFS_NDIRECT + SFS_BLK_NENTRY THEN Failed(Panic(fs, "index out of range"))
  ELSE IF k >= SFS_NDIRECT THEN sfs_bmap_get_sub_nolock(fs, i, k - SFS_NDIRECT)
  ELSE IF fs.cache[i].din.direct[k] # None THEN Done(fs)
  ELSE IF fs.freemap = {} THEN Failed(fs)
  ELSE Done([sfs_block_alloc(fs) EXCEPT !.cache[i].din.direct[k] = bitmap_alloc(fs),
                                        !.cache[i].dirty = TRUE])

(* The block after the last one: index == din->blocks.                     *)
sfs_bmap_load_nolock(fs, i) ==
  LET r == sfs_bmap_get_nolock(fs, i, fs.cache[i].din.blocks)
  IN  IF r.ok THEN Done([r.fs EXCEPT !.cache[i].din.blocks = @ + 1]) ELSE r

Bug_sfs_bmap_free_nolock(fs, i, k) ==   \* does not clear the entry of the indirect block
  LET din == fs.cache[i].din
      j == k - SFS_NDIRECT
  IN  CASE k < SFS_NDIRECT /\ din.direct[k] # None ->
             [sfs_block_free(fs, din.direct[k]) EXCEPT !.cache[i].din.direct[k] = None,
                                                       !.cache[i].dirty = TRUE]
        [] k >= SFS_NDIRECT /\ din.indirect # None /\ fs.entries[din.indirect][j] # None ->
             sfs_block_free(fs, fs.entries[din.indirect][j])
        [] OTHER -> fs

sfs_bmap_free_nolock(fs, i, k) ==
  LET din == fs.cache[i].din
      j == k - SFS_NDIRECT
  IN  CASE k < SFS_NDIRECT /\ din.direct[k] # None ->
             [sfs_block_free(fs, din.direct[k]) EXCEPT !.cache[i].din.direct[k] = None,
                                                       !.cache[i].dirty = TRUE]
        [] k >= SFS_NDIRECT /\ din.indirect # None /\ fs.entries[din.indirect][j] # None ->
             [sfs_block_free(fs, fs.entries[din.indirect][j])
                EXCEPT !.entries[din.indirect][j] = None]
        [] OTHER -> fs

sfs_bmap_truncate_nolock(fs, i) ==
  [sfs_bmap_free_nolock(fs, i, fs.cache[i].din.blocks - 1)
     EXCEPT !.cache[i].din.blocks = @ - 1, !.cache[i].dirty = TRUE]

(* The loops of sfs_truncfile, to n blocks, turn by turn; the first one    *)
(* stops at the first block that cannot be had, and keeps those it got.    *)
Turn(r, i, n) ==
  LET blocks == r.fs.cache[i].din.blocks
  IN  CASE ~r.ok \/ blocks = n -> r
        [] r.ok /\ blocks > n -> Done(sfs_bmap_truncate_nolock(r.fs, i))
        [] OTHER -> sfs_bmap_load_nolock(r.fs, i)

Resize(fs, i, n) ==
  LET blocks == fs.cache[i].din.blocks
      turns == IF blocks > n THEN blocks - n ELSE n - blocks
      after[k \in 0..turns] == IF k = 0 THEN Done(fs) ELSE Turn(after[k - 1], i, n)
  IN  after[turns]

sfs_truncfile(fs, i, len) ==
  LET din == fs.cache[i].din
      r == Resize(fs, i, Blocks(len))
  IN  IF din.size = len
      THEN IF din.blocks = Blocks(len) THEN Done(fs)
           ELSE Failed(Panic(fs, "tblks == din->blocks"))
      ELSE IF r.ok
           THEN Done([r.fs EXCEPT !.cache[i].din.size = len, !.cache[i].dirty = TRUE])
           ELSE r
-----------------------------------------------------------------------------
(* Inodes in memory and on the disk.                                       *)
sfs_fsync(fs, i) ==
  IF fs.cache[i].dirty
  THEN [fs EXCEPT !.disk[i] = fs.cache[i].din, !.cache[i].dirty = FALSE]
  ELSE fs

sfs_reclaim(fs, i) == [sfs_fsync(fs, i) EXCEPT !.cache[i] = NoNode]

inode_ref_inc(fs, i) == [fs EXCEPT !.cache[i].ref = @ + 1]

inode_ref_dec(fs, i) ==
  LET f == [fs EXCEPT !.cache[i].ref = @ - 1]
  IN  IF f.cache[i].ref = 0 THEN sfs_reclaim(f, i) ELSE f

inode_open_inc(fs, i) == [fs EXCEPT !.cache[i].open = @ + 1]

(* The last close writes the inode: sfs_close.                             *)
inode_open_dec(fs, i) ==
  LET f == [fs EXCEPT !.cache[i].open = @ - 1]
  IN  IF f.cache[i].open = 0 THEN sfs_fsync(f, i) ELSE f

vfs_close(fs, i) == inode_ref_dec(inode_open_dec(fs, i), i)

sfs_load_inode(fs, i) ==
  IF Cached(fs, i)
  THEN inode_ref_inc(fs, i)
  ELSE [fs EXCEPT !.cache[i] = [ref |-> 1, open |-> 0, dirty |-> FALSE, din |-> fs.disk[i]]]

(* sfs_sync: the inodes of inode_list, then superblock and free map.       *)
sfs_sync(fs) ==
  LET f == [fs EXCEPT
             !.disk = [i \in Inos |-> IF Cached(fs, i) /\ fs.cache[i].dirty
                                      THEN fs.cache[i].din ELSE @[i]],
             !.cache = [i \in Inos |-> IF Cached(fs, i)
                                       THEN [@[i] EXCEPT !.dirty = FALSE] ELSE @[i]]]
  IN  IF fs.super_dirty
      THEN [f EXCEPT !.super_dirty = FALSE,
                     !.saved = [freemap |-> fs.freemap, unused |-> fs.unused]]
      ELSE f
-----------------------------------------------------------------------------
(* The blocks that an inode names, as often as it names them, each by the  *)
(* place of its number; the entries of the indirect block count even when  *)
(* they are past din->blocks.                                              *)
Places(fs, din) ==
  {<<"direct", k>> : k \in {k \in DOMAIN din.direct : din.direct[k] # None}}
  \cup (IF din.indirect = None THEN {}
        ELSE {<<"indirect", 0>>}
             \cup {<<"entry", k>> : k \in {k \in DOMAIN ZeroBlock :
                                             fs.entries[din.indirect][k] # None}})

BlockAt(fs, din, place) ==
  CASE place[1] = "direct" -> din.direct[place[2]]
    [] place[1] = "indirect" -> din.indirect
    [] place[1] = "entry" -> fs.entries[din.indirect][place[2]]

Din(fs, i) == IF Cached(fs, i) THEN fs.cache[i].din ELSE fs.disk[i]

Uses(fs, dins) ==
  UNION {{<<i, place>> : place \in Places(fs, dins[i])} : i \in Files}

(* No block belongs to two places, and the free map is right about all.    *)
OwnedOnce(fs, dins, freemap, unused) ==
  LET BlockOf(use) == BlockAt(fs, dins[use[1]], use[2])
      uses == Uses(fs, dins)
      used == {BlockOf(use) : use \in uses}
  IN  /\ Cardinality(used) = Cardinality(uses)
      /\ used = Data \ freemap
      /\ unused = Cardinality(freemap)
================================================================================
