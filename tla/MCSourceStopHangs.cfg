CONSTANTS
  Sources = {s1}
  SourceKinds = {"udp", "ws", "ws_once", "kafka", "mqtt"}
  Subscriptions = {1}
  RequestCapacity = 2
  MaxFrames = 1
SPECIFICATION FairSourceSpec
PROPERTY
  StopReturns
CHECK_DEADLOCK FALSE
