CONSTANTS
  Sid = {s1}
  Conv = {c1, c2}
  Saver = {w1, w2}
  Inode = {i1, i2, i3}
  MaxCrash = 2
  None = None
SPECIFICATION ConvSpec
INVARIANT LoneSaveHeals TurnIsRemembered
SYMMETRY Symmetry
CHECK_DEADLOCK FALSE
