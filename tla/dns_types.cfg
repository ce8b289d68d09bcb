\* Queries of two types for own names; the files are there and complete.
SPECIFICATION FairSpec
CONSTANTS
  Clients = {c1, c2}
  Asks <- TypesAsks
  Domains <- MCDomains
  SuffixPairs <- MCSuffixPairs
  Zones = {1}
  ContentOf <- PlainFiles
  Demo = TRUE
  MaxAsked = 1
  MaxTries = 1
  RcvBuf = 2
  MaxSocks = 2
PROPERTY
  TypesAnswered
CHECK_DEADLOCK FALSE
