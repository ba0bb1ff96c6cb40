\* One base, two versions, every command, and every step may fail.
SPECIFICATION Spec
CONSTANTS
  None = None
  Bases = {b1}
  Versions = {v1, v2}
  Supervised = {v1, v2}
  Requests = {}
  Generated = {g1}
  History = 1
  IoErrors = TRUE
  Ops = {"gate", "rollback", "remove", "require", "unrequire", "reset", "adopt", "activate", "stage", "install"}
SYMMETRY Symmetry
INVARIANTS
  TypeOK
  FallbackRetained
  CandidateIsJudged
  SettledFirst
  RecoveredRuns
  NeverTwoVisible
PROPERTIES
  SwapIsRecorded
  TerminalIsKept
  ImplementsSupervision
