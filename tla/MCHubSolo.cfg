CONSTANTS
  Sid = {s1, s2}
  Rid = {r1, r2}
  Conn = {c1}
  Reading = {}
  None = None
SPECIFICATION FairSpec
INVARIANT NoOrphan
PROPERTY KeepsLifecycle DeathIsListed KillReachesChild
