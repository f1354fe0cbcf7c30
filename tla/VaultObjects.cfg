\* One memory: a request and beat's purge against two enrichments; an object is
\* stored twice, and one process dies or one deletion is refused.
SPECIFICATION Spec
CONSTANTS
  Items = {1}
  Requests = {c1}
  Workers = {w1, w2}
  MaxMints = 2
  MaxFaults = 1
SYMMETRY Symmetry
INVARIANTS
  FileOutlivesTrash
  PurgeTakesTheFile
  
  
CHECK_DEADLOCK FALSE
