CONSTANTS
  Home <- MCHome
  None = None
  Vms = 2
  Sid = {1, 2}
  VmOf <- MCVmOf
  Cwd <- MCCwd
  Text = {"all", "some"}
  Blank = "all"
  Hits <- MCHits
  Activity = {"Unknown", "Working", "Idle"}
  Readable = {2}
  Samples <- MCSamples
  Pastes <- MCPastes
  Buffered = 1
SPECIFICATION Spec
INVARIANT NothingDangles FoldsHideNoSession
PROPERTY SelectionHolds
