\* No extensions; stage-base is also given while the boot is still assessed.
SPECIFICATION FairSpec
CONSTANTS
  None = None
  Bases = {1, 2, 3}
  Exts = {}
  TriesLeft = 2
  EarlyStaging = TRUE
  IoErrors = TRUE
PROPERTY PreviousComesBack
