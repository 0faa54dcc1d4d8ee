CONSTANTS
  Sid = {s1, s2}
  Rid = {r1, r2}
  Conn = {c1, c2}
  Reading = {busy}
  None = None
SPECIFICATION Spec
INVARIANT StoppedIsBare RunHasOneOwner UntoldHasTeller
PROPERTY KilledStaysKilled OnlyRacesLose
SYMMETRY Symmetry
