\* A voice note: a kill, a time limit, lost messages, a reprocess, trash.
SPECIFICATION FairSpec
CONSTANTS
  Items = {a}
  Deferred = {}
  Telegram = {a}
  Authored = {a}
  Redrivable = {a}
  Voice = {a}
  Runs = {}
  Workers = {w1}
  None = None
  MaxRetries = 1
  MaxSweepRequeues = 1
  MaxCopies = 1
  Allowance <- InlineLiveness
PROPERTIES
  NothingSitsInLimbo
  CompletedIsFollowedUp
  FailedIsAnswered
CHECK_DEADLOCK FALSE
