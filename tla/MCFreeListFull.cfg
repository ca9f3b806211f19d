SPECIFICATION Spec
CONSTANTS
  NPAGE = 6
  Managers = {"default"}
  MAX_N = 3
  Roomy = FALSE
INVARIANT PagesDistinct
