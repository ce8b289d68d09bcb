\* Own and foreign queries; the file of both domains is there and complete.
SPECIFICATION FairSpec
CONSTANTS
  Clients = {c1, c2}
  Asks <- PlainAsks
  Domains <- MCDomains
  SuffixPairs <- MCSuffixPairs
  Zones = {1}
  ContentOf <- PlainFiles
  Demo = TRUE
  MaxAsked = 1
  MaxTries = 1
  RcvBuf = 2
  MaxSocks = 2
PROPERTY
  OwnAnswered
CHECK_DEADLOCK FALSE
