\* Two messages sharing the semaphore, one with a null return-path; liveness.
CONSTANTS
  m1 = m1  m2 = m2  r1 = r1  r2 = r2  g1 = g1  g2 = g2
  Msg <- MCMsg2
  Rcpt <- MCRcpt1
  Goroutine <- MCGoroutine
  NullFrom = {m2}
  HasBounce = TRUE
  MaxTries = 2
  MaxParallelism = 1
  MaxCopies = 1
  MaxCrashes = 1
  MaxFaults = 0
  AllowClose = FALSE
SPECIFICATION FairSpec
INVARIANTS NothingLeftBehind
PROPERTIES EventuallyFinished
CHECK_DEADLOCK FALSE
