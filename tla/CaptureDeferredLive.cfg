\* A deferred capture: a lost webhook, a time limit, a failed lookup, trash.
SPECIFICATION FairSpec
CONSTANTS
  Items = {a}
  Deferred = {a}
  Telegram = {a}
  Authored = {}
  Redrivable = {}
  Voice = {}
  Runs = {r1}
  Workers = {w1}
  None = None
  MaxRetries = 0
  MaxSweepRequeues = 0
  MaxCopies = 1
  Allowance <- DeferredLiveness
INVARIANTS
  
  CompletedIsIndexed

  
CHECK_DEADLOCK FALSE
