\* A running base, an incoming one, three releases of the feed.
SPECIFICATION Spec
CONSTANTS
  None = None
  b1 = b1
  b2 = b2
  a0 = a0
  a1 = a1
  a2 = a2
  c = c
  s = s
  x = x
  v1 = v1
  Running = b1
  Incoming = {b2}
  Names <- MCNames
  Contents <- MCContents
  Signed <- MCSigned
  Trusted <- MCTrusted
  BaseOf <- MCBaseOf
  VersionOf <- MCVersionOf
  Size <- MCSize
  Supplies <- MCSupplies
  MaxRevision = 1
  MaxAcquired = 2
  Margin = 1
  RollbackSize = 1
  Capacity = 5
  IoErrors = TRUE
INVARIANTS
  TypeOK
  OnlyValidatedIsPlaced
  AdmittedFits
  OfferedIsServed
PROPERTIES
  PlacedIsAsked
  NoDowngrade
