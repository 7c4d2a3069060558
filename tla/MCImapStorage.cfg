\* One delivery to two recipients with one account, a tool that makes four
\* changes, channels of size one, restarts and a crash of either process.
CONSTANTS
  r1 = r1  r2 = r2  a1 = a1  None = None
  Server = "server"  Tool = "tool"
  Rcpt <- MCRcpt
  Account <- MCAccount
  AccountOf <- MCAccountOf
  OutCap = 1
  InCap = 1
  SockCap = 1
  MaxMsgs = 1
  MaxUpdates = 4
  MaxCrash = 1
SPECIFICATION FairSpec
INVARIANTS TransfersSound CleanStop
PROPERTIES CloseReturns
CHECK_DEADLOCK FALSE
