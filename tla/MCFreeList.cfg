SPECIFICATION FairSpec
CONSTANTS
  NPAGE = 5
  Managers = {"default", "best_fit"}
  MAX_N = 3
  Roomy = TRUE
INVARIANTS FreeOK Coalesced AllocFits
PROPERTY CallsReturn
