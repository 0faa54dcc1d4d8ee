CONSTANTS
  Grid = {g1, g2}
  Saved = g1
  Default = Default
  Limit = 2
  MaxEvents = 3
  None = None
SPECIFICATION Spec
INVARIANT FeedKeepsOrder DefaultGridUnseen HistoryUnanswered PtyHasTheGrid ReplayIsShown
CHECK_DEADLOCK FALSE
