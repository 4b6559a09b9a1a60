CONSTANTS
  Index = {i1, i2}
  MaxRestarts = 1
  FuseWindow = 2
  StuckTimeout = 2
  Gone = Gone
SPECIFICATION WatchSpec
PROPERTY PauseHarmless
CHECK_DEADLOCK FALSE
