\* A vault of two memories beside another of one; two requests, one scan.
SPECIFICATION Spec
CONSTANTS
  Items = {1, 2, 4}
  Users = {"ann", "bob"}
  Owner <- TwoVaults
  Relations = {"related_to", "part_of"}
  Symmetric = {"related_to"}
  Callers = {c1, c2}
  Workers = {w1}
  MaxPerItem = 2
  MaxCandidates = 2
  MaxRows = 1
SYMMETRY Symmetry
INVARIANTS
  EdgeIsOwned
  CanvasMatchesPages
PROPERTIES
  DismissalSticks
  ScanOnlySuggests
CHECK_DEADLOCK FALSE
