\* An unrecorded image fails its soak while a known-good one is retained.
SPECIFICATION Spec
CONSTANTS
  None = None
  Bases = {b1}
  Versions = {v1, v2, v3}
  Supervised = {v1, v2, v3}
  Requests = {}
  Generated = {}
  History = 1
  IoErrors = FALSE
  Ops = {"gate", "rollback", "activate", "stage"}
SYMMETRY Symmetry
INVARIANT GateOnlyAfterRecovery
