CONSTANTS
  Agent = {a1, a2}
  Shell = {1, 2}
  MaxMoves = 3
  None = None
SPECIFICATION Spec
INVARIANT PanelForgets ShellTakesKeyboard
SYMMETRY SessionsAlike
CHECK_DEADLOCK FALSE
