\* A command, two connections and an operator, with two children at once.
SPECIFICATION FairSpec
CONSTANTS
  None = None
  Daemon = daemon
  Cli = {c1}
  Threads = {t1, t2}
  Operators = {o1}
  Children = {k1, k2}
  Files = {f1, f2, f3}
INVARIANTS
  TypeOK
  MutatorsHoldTheLock
  BusyIsJustified
PROPERTY LockComesFree
