\* A voice note, two workers that may be killed, a reprocess, trash and purge.
SPECIFICATION Spec
CONSTANTS
  Items = {a}
  Deferred = {}
  Telegram = {}
  Authored = {a}
  Redrivable = {a}
  Voice = {a}
  Runs = {}
  Workers = {w1, w2}
  None = None
  MaxRetries = 1
  MaxSweepRequeues = 1
  MaxCopies = 1
  Allowance <- InlineAllowance
SYMMETRY Symmetry
INVARIANTS
  PendingIsCarried
PROPERTIES
  OnlyReprocessRequeues
CHECK_DEADLOCK FALSE
