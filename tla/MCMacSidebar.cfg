CONSTANTS
  Vm = {0, 1}
  Sid = {1, 2}
  VmOf <- TwoMachines
  Name = {n1}
  Space = {p1}
  MaxMoves = 3
  All = All
  Unsorted = Unsorted
  None = None
SPECIFICATION Spec
INVARIANT BannerPerTurn
PROPERTY FiledStays
CHECK_DEADLOCK FALSE
