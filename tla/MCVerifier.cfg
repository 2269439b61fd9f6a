CONSTANTS
  First = q1
  Requests = {q1, q2, q3}
  Submissions <- MCSubmissions
  Slots = 2
  MaxTime = 2
  MaxRestarts = 1
SPECIFICATION MCSpec
PROPERTY EveryRequestEnds
INVARIANTS SlotsAreShared VerdictsAreSound
CHECK_DEADLOCK FALSE
