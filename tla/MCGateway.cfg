CONSTANTS
  Conns = {c1, c2}
  EventIds = {e1, e2}
  Bodies = {b1}
  NoEvent = NoEvent
  NoToken = NoToken
  Tokens = {k1, k2}
  ApiKeys = {k1}
  QueueSize = 2
  MaxMessages = 3
  MaxTime = 0
  MaxRestarts = 1
  MaxPerSec = 1
  TicksPerSec = 1
  CountMax = 3
SPECIFICATION FairSpec
INVARIANTS
  NothingLost
  TableIsFaithful
PROPERTY
  LogSpec
  EventuallyWritten
  ShutdownCompletes
