SPECIFICATION PacingSpec
CONSTANTS
  Rate = 2
  Burst = 4
  Frames = {1, 4}
  Unknown = 3
  MaxRetries = 1
  MaxIdle = 4
  Restarts = 1
  Untimed = Untimed
  None = None
INVARIANT PaceFits
PROPERTY FramesFlow
