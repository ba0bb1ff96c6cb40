\* Three bases, one extension; base images are staged on blessed boots only.
SPECIFICATION FreshSpec
CONSTANTS
  None = None
  Bases = {1, 2, 3}
  Exts = {e1}
  TriesLeft = 2
  EarlyStaging = FALSE
  IoErrors = TRUE
INVARIANTS
  TypeOK
  BootedSlotIntact
  FallbackKept
PROPERTIES
  EntryHasExtensions
  CheckedRebootKeepsExtensions
  NoRebootLoop
