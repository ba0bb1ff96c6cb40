\* Two attempts of two polls, and a soak of three with rounds of two.
SPECIFICATION Spec
CONSTANTS
  None = None
  StartAttempts = 2
  ReadyTimeout = 2
  Interval = 2
  Soak = 3
INVARIANTS
  TypeOK
  TrustIsEarned
  GivenUpAfterAllAttempts
