\* Ageing of the database under two files of noffle.conf.
CONSTANTS
  a = a
  b = b
  c = c
  d = d
  g = g
  h = h
  Arts <- MCArts
  Groups <- MCGroups
  Refs <- MCThread
  Home <- MCHome
  Mode <- MCMode
  ConfigFiles <- MCFiles
  MaxTime = 2
SPECIFICATION Spec
INVARIANTS
  TypeOK
PROPERTIES
  ThreadFollowed
  KeptLongEnough
  CleanedUp
