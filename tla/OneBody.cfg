\* A memory its owner has written over is run again: the instance of Readers.cfg.
SPECIFICATION Spec
CONSTANTS
  SlideMax = 4
  VisionMax = 3
  Concurrency = 2
  MaxRetries = 1
  MaxMore = 1
INVARIANT OneBody
CHECK_DEADLOCK FALSE
