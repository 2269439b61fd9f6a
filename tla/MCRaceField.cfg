SPECIFICATION Spec
CONSTANTS
  Samples = 3
  Segment = 6
  Speeds = {1, 3}
  Ratios <- RatiosSmall
  RpmIdle = 1
  RpmMax = 10
  RpmDown = 3
  RpmUp = 6
  Coupling = 2
  Burns = {1, 2}
  WearSteps = {1}
  WearMax = 3
  Noises = {0}
  Jobs <- JobsAll
  RivalTimes = {13, 22}
  DefaultTire = "hard"
  ShiftTime = 3
  FrameTick = 5
  Compounds = {"soft", "hard"}
  LapMax = 7
  Unit = 4
  EventLimit = 4
INVARIANTS  ShiftsAccounted ResultsFollowRace InstructionsHonoured
CHECK_DEADLOCK FALSE
