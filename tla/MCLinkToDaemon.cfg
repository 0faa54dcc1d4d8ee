CONSTANTS
  MaxProcs = 2
  MaxDelay = 2
  NoProc = NoProc
  MaxDaemons = 2
  Client = {1, 2}
  Agent = {a1}
  Old = Old
  NoFile = NoFile
SPECIFICATION LifeSpec
INVARIANT OneDialer NoStray ToldTheTruth DeathIsSeen ServedIsReachable AgentIsReal
CHECK_DEADLOCK FALSE
