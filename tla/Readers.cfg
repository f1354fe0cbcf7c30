\* Every kind of source; a post of four slides, three of them within the budget, read
\* two at a time; one retry, and one more run, asked for by the
\* owner or left by a worker that died.
SPECIFICATION FairSpec
CONSTANTS
  SlideMax = 4
  VisionMax = 3
  Concurrency = 2
  MaxRetries = 1
  MaxMore = 1
INVARIANTS
  
  DrawnFromWhatItSays
  
PROPERTIES
  RunsSettle
CHECK_DEADLOCK FALSE
