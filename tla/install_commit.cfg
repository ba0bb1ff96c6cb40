\* The installer's payload may fail to open.
SPECIFICATION FairSpec
CONSTANTS
  Workers = {w1}
  Total = 1
  Span = 1
PROPERTY CommitIsBrief
