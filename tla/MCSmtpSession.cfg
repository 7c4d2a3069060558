\* Two sessions that compete for the permits of a domain, both modes.
CONSTANTS
  s1 = s1  s2 = s2
  Session <- MCSession2
  Addr <- MCAddr
  NoAddr = "empty"
  Refused = Refused
  Clean <- MCClean
  DomainOf <- MCDomainOf
  Modes = {"immediate", "deferred"}
  AuthRequired = TRUE
  SourceLimit = 1
  MaxMails = 2
SPECIFICATION Spec
SYMMETRY Symmetry
INVARIANTS DeliveriesCurrent PermitsBalanced
CHECK_DEADLOCK FALSE
