\* diary.pl: the handler waits until no child is left.
CONSTANTS
  c1 = c1
  c2 = c2
  c3 = c3
  Clients <- MCClients
  ReapsUntilNone = TRUE
  ClosesClient = FALSE
  MayFailFork = TRUE
  Talkers <- MCTalkers
  Entries = 1
  MaxDraws = 3
  MaxBuffered = 2
SPECIFICATION DiarySpec
INVARIANT
  ZombieIsAnnounced
PROPERTIES
  LetIn
  AnsweredWhenQuiet
  Replied
