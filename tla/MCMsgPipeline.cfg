\* Two recipients over both kinds of endpoint.
CONSTANTS
  r1 = r1  r2 = r2  list = list  cg = cg  cs = cs  cb = cb  t1 = t1  t2 = t2
  Addr <- MCAddr
  DomainOf <- MCDomainOf
  Check <- MCCheck
  Target <- MCTarget
  Partial <- MCPartial
  Global <- MCGlobal
  Source <- MCSource
  Block <- MCBlock
  Protocols = {"smtp", "lmtp"}
  MaxRcpts = 3
SPECIFICATION Spec
INVARIANTS AtomicDelivery RecipientsTracked ChecksCount
CHECK_DEADLOCK FALSE
