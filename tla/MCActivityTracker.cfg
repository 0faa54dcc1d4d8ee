CONSTANTS
  Argv <- MCArgv
  Near = 1
  Mid = 2
  Far = 3
  Page = 4
  Wrapped = 1
  Lines <- MCLines
  Screens <- MCScreens
  MaxRuns = 2
  Grace = 3
  Hold = 3
SPECIFICATION FairSpec
INVARIANT ScreensAreRead TableFollows
PROPERTY NoFlicker TableCatchesUp
