CONSTANTS
  MaxFrame = 4
  MaxReceived = 5
  Wire <- MCWire
  MaxCount = 2
  StandardSize = 60
  MaxTs = 5000
  Keys = {1, 2}
  Values = {3, 5}
  Times = {1, 2}
  MaxBatch = 2
  MaxEvents = 4
  NonFinite = NonFinite
SPECIFICATION MCSpec
INVARIANTS
  ReceiverIsHonest
  
  
  
CHECK_DEADLOCK FALSE
