\* A restored image that was found unhealthy is retained under another name.
SPECIFICATION Spec
CONSTANTS
  None = None
  Bases = {b1}
  Versions = {v1, v2, v3}
  Supervised = {v1, v2, v3}
  Requests = {}
  Generated = {}
  History = 1
  IoErrors = FALSE
  Ops = {"gate", "rollback", "activate", "stage"}
SYMMETRY Symmetry
INVARIANT RollbackHoldsItsVersion
