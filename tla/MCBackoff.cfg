CONSTANTS
  RAND_MAX = 2
  Draws = {0, 1, 2}
  Grain = 1
SPECIFICATION BackoffSpec
INVARIANT GivesUpInRange
CHECK_DEADLOCK FALSE
