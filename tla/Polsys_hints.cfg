\* Two clients whose saves overlap; two hints are kept.
CONSTANTS
  Clients = {c1, c2}
  ReapsUntilNone = FALSE
  ClosesClient = TRUE
  MayFailFork = TRUE
  Lines = {"blank", "1", "2", "3", "text"}
  Length <- Lengths
  MaxHints = 2
  MaxPassword = 2
  MaxLines = 4
SPECIFICATION PolsysFairSpec
INVARIANTS
    LoneSavesStay
PROPERTIES
    Answered
