\* Fair commands, three versions of which one has no ruleset, and a history of one
\* place for a request and for installs; no file operation fails.
SPECIFICATION FairSpec
CONSTANTS
  None = None
  Bases = {b1}
  Versions = {v1, v2, v3}
  Supervised = {v1, v2}
  Requests = {r1}
  Generated = {g1}
  History = 1
  IoErrors = FALSE
  Ops = {"gate", "rollback", "remove", "activate", "stage", "install"}
INVARIANT KnownGoodProven
PROPERTIES
  AnsweredOnce
  CommandsEnd
  InterruptedIsResolved
