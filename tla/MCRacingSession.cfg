CONSTANTS
  Attempts = {a1, a2, a3}
  Competitors = 2
  Laps = 2
  LapRecords = {2, 3}
  MaxHandle = 2
  MaxInteger = 5
  MaxRecords = 2
  TopSequence = 6
  TopTick = 2
  Batches <- MCBatches
SPECIFICATION MCSpec
SYMMETRY AttemptSymmetry
INVARIANTS
  KeepsOneStream
  RaceIsWholeAndOwn
  HandlesAreOwned
  LockStep
CHECK_DEADLOCK FALSE
