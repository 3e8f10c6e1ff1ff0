\* tcpserver: the limit is reached, and the lookups of one child in full.
CONSTANTS
  c1 = c1
  c2 = c2
  c3 = c3
  Clients <- MCClients
  Resolved <- MCResolved
  Limit = 2
  NameServers = 2
  MaySkip = TRUE
SPECIFICATION Spec
INVARIANTS
  CountIsTrue
  AllServersAsked
PROPERTIES
  LookupEnds
  WaitersAccepted
