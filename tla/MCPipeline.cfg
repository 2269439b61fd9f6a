CONSTANTS
  s1 = s1
  s2 = s2
  Sources = {s1, s2}
  SourceKinds = {"udp", "ws", "ws_once", "kafka", "mqtt"}
  Subscribers = {u1}
  Subscriptions = {1, 3}
  RequestCapacity = 2
  MaxFrames = 2
  MaxSources = 2
  ChannelCapacity = 1
SPECIFICATION MCSpec
INVARIANTS
  FramesKeepOrder
  RunningMeansMerging
PROPERTIES
  WindsDown
  Delivered
CHECK_DEADLOCK FALSE
