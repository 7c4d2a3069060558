\* One message, two recipients, a crash, a storage error, shutdowns.
CONSTANTS
  m1 = m1  m2 = m2  r1 = r1  r2 = r2  g1 = g1  g2 = g2
  Msg <- MCMsg1
  Rcpt <- MCRcpt2
  Goroutine <- MCGoroutine
  NullFrom = {}
  HasBounce = TRUE
  MaxTries = 2
  MaxParallelism = 1
  MaxCopies = 2
  MaxCrashes = 1
  MaxFaults = 1
  AllowClose = TRUE
SPECIFICATION Spec
SYMMETRY Symmetry
INVARIANTS TypeOK NoSilentLoss SingleFlight RetryOnlyFailed
PROPERTIES KeepsPromise
CHECK_DEADLOCK FALSE
