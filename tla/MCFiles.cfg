SPECIFICATION FilesSpec
CONSTANTS
  Files = {3}
  Dirs = {1,2}
  NData = 3
  SFS_NDIRECT = 1
  SFS_BLK_NENTRY = 2
  SFS_BLKSIZE = 1
  Procs = {"p1","p2"}
  NFD = 2
  FirstFd = 1
  Positions = {2,3}
  MaxRef = 1
  MaxOpen = 2
INVARIANTS RefsCovered BlocksOwnedOnce SyncSaves
CHECK_DEADLOCK FALSE
