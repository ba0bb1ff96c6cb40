\* Two bases over one record: activations, gates, crashes and reboots into either.
SPECIFICATION ScopedSpec
CONSTANTS
  None = None
  Bases = {b1, b2}
  Versions = {v1, v2}
  Supervised = {v1, v2}
  Requests = {}
  Generated = {}
  History = 1
  IoErrors = FALSE
  Ops = {"gate", "install"}
SYMMETRY SymmetryAB
VIEW NoHistory
INVARIANT GateLeavesFallback
PROPERTY ImplementsSupervision
