CONSTANTS
  None = None
  Readers <- MCReaders
  Parameters = {1, 2}
  Teams = {"red"}
  Roles = {"engineer"}
  ClaimsOf <- MCClaimsOf
  Frame <- MCFrame
  Expiries = {1}
  MaxEntries = 2
  Keys = {"a", "b"}
  MaxRequests = 2
  WindowSecs = 2
  Settings <- MCSettings
  MaxTime = 6
  MaxFrames = 1
  ReadersTime = 2
  MaxAsked = 6
  MaxPerSec = 2
  TicksPerSec = 3
  CountMax = 3
  MaxTicks = 9
  MaxTaken = 8
SPECIFICATION MCSpec
INVARIANTS
  AccessIsAccounted
  ConnectionsLimited
  
CHECK_DEADLOCK FALSE
