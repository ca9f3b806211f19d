SPECIFICATION SlobSpec
CONSTANTS
  NPages = 3
  PAGE_SIZE = 12
  SLOB_UNIT = 2
  BIGBLOCK = 3
  Sizes = {1, 3, 12, 13}
  MaxTaken = 4
VIEW View
INVARIANT HeapOK
