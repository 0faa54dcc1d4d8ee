CONSTANTS
  Sid = {s1}
  MaxChanges = 3
  MaxLinks = 2
  MaxAsked = 1
  None = None
SPECIFICATION FairSpec
INVARIANT ReattachedAfterReconnect RestartIsSeen
PROPERTY ComesToRest
CHECK_DEADLOCK FALSE
