\* Two clients that ask own and foreign names, zone files that change.
SPECIFICATION FairSpec
CONSTANTS
  Clients = {c1, c2}
  Asks <- ServeAsks
  Domains <- MCDomains
  SuffixPairs <- MCSuffixPairs
  Zones = {1, 2}
  ContentOf <- ServeFiles
  Demo = TRUE
  MaxAsked = 1
  MaxTries = 2
  RcvBuf = 2
  MaxSocks = 2
INVARIANTS
  TypeOK
  Correlated
  AddressFromZone
PROPERTY
  Served
CHECK_DEADLOCK FALSE
