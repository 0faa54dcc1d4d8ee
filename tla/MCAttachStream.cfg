CONSTANTS
  Client = {c1}
  MaxChunks = 4
  Cap = 2
  MaxAttach = 2
SPECIFICATION FairSpec
INVARIANT LiveFollowsReplay ExitTold
PROPERTY ForwardersEnd
CHECK_DEADLOCK FALSE
