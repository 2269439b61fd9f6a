CONSTANTS
  Sources = {s1}
  SourceKinds = {"udp", "ws", "ws_once", "kafka", "mqtt"}
  Subscriptions = {1, 2, 3}
  RequestCapacity = 2
  MaxFrames = 2
SPECIFICATION FairSourceSpec
INVARIANTS
  LoopObservedTruly
PROPERTIES
  QuietAfterStop
  StopTakesEffect
CHECK_DEADLOCK FALSE
