\* Two callers, all four scopes, semaphores and rates mixed, and more domains
\* than a BucketSet has room for.
CONSTANTS
  c1 = c1  c2 = c2  d1 = d1  d2 = d2  i1 = i1
  Client <- MCClient2
  Ip <- MCIp1
  Domain <- MCDomain2
  GlobalL <- RateThenSem2
  IpL <- SemOne
  SourceL <- SemOne
  DestL <- SemOne
  MaxBuckets = 1
  ReapInterval = 0
  MaxTime = 1
SPECIFICATION FairSpec
INVARIANTS Accounted
PROPERTIES EveryCallAnswered
CHECK_DEADLOCK FALSE
