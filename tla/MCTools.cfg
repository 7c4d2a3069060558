\* Two commands or logins, one failure of the database or the
\* directory; two imap commands with two messages; three keys and starts.
CONSTANTS
  BadName = BadName  NoMap = NoMap  Failed = Failed
  Names <- MCNames
  Passwords = {"p1", "p2"}
  CompareKey <- MCCompareKey
  Directory <- MCDirectory
  Shadow <- MCShadow
  DomainOf <- MCDomainOf
  LocalOf <- MCLocalOf
  AllowedDomains = {"d"}
  t1 = t1  t2 = t2  s1 = s1  s2 = s2
  Sessions <- MCSessions
  Tools <- MCTwo
  AuthMaps <- MCAuthMaps
  Providers <- MCProviders
  MaxActs = 2
  MaxFaults = 1
  Operators <- MCTwo
  DefaultFolders <- MCDefaultFolders
  BoxNames = {"INBOX", "Sent", "Trash"}
  INBOX = "INBOX"
  LimitWidth = 4
  LimitValues <- MCLimitValues
  MaxMail = 2
  MaxOps = 2
  MaxFailures = 1
  Values <- MCValues
  Addresses <- MCAddresses
  Malformed <- MCMalformed
  Quoted <- MCQuoted
  QuoteMbox <- MCQuoteMbox
  ForLookup <- MCForLookup
  Local <- MCLocal
  DomainPart <- MCDomainPart
  Join <- MCJoin
  KeyDomains = {"d1", "d2"}
  SubdomainOf <- MCSubdomainOf
  Oversign <- MCOversign
  Sign <- MCSign
  Groups <- MCGroups
  Mail <- MCMail
  MaxPairs = 3
  MaxBoots = 3
  MaxSends = 1
  MaxBreaks = 2
SPECIFICATION ToolsSpec
SYMMETRY Symmetric
INVARIANTS CommandsTruthful LoginsChecked MailboxToolsTruthful SignerPublished RewritesComplete
CHECK_DEADLOCK FALSE
