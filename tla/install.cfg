\* Four spans, the last one short, and three workers; fair threads.
SPECIFICATION FairSpec
CONSTANTS
  Workers = {w1, w2, w3}
  Total = 7
  Span = 2
INVARIANTS
  TypeOK
  OnlyDecodedIsWritten
  CompleteIsWhole
  CountIsWhole
  PowerKeysAreSafe
PROPERTY InstallEnds
