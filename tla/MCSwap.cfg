SPECIFICATION Spec
CONSTANTS
  Pages = {1, 2, 3, 4, 6}
  NFrames = 3
  max_swap_offset = 7
  Managers = {"fifo", "clock", "lru"}
  HeadVisited = 2
PROPERTY SwapKeeps
CHECK_DEADLOCK FALSE
