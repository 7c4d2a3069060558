\* Two messages to two domains, one of them with two MXs and one whose name
\* is not ASCII, and all policies; deliveries to two relays for the same recipients.
CONSTANTS
  r1 = r1  r2 = r2  a2 = a2  d1 = d1  d2 = d2  h1 = h1  h2 = h2  None = None
  Rcpt <- MCRcpt
  AsciiName <- MCAsciiName
  Ascii <- MCAscii
  DomainOf <- MCDomainOf
  Domain <- MCDomain
  Host <- MCHost
  HostsOf <- MCHostsOf
  SmtpUtf8 <- MCSmtpUtf8
  Pref <- MCPref
  Policies <- MCPolicies
  MinTLS = 1
  MinMX = 0
  ConnReuseLimit = 1
  AllowSecOverride = TRUE
  RelaxedREQUIRETLS = TRUE
  MaxMsgs = 2
  MaxCalls = 2
  RelayRcpt <- MCRcpt
  RelayAscii <- MCAscii
  Endpoints = 2
  MaxRelays = 2
  MaxRelayRcpts = 3
SPECIFICATION OutboundSpec
INVARIANTS SecurityHonoured ResourcesReturned StatusesTruthful FuturesPending
CHECK_DEADLOCK FALSE
