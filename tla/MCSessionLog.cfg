CONSTANTS
  MaxSaid = 6
  MaxRead = 2
  MaxRuns = 2
  Replay = 1
  LogKeep = 2
  LogMax = 2
SPECIFICATION LogSpec
INVARIANT ReplayRestoresModes
