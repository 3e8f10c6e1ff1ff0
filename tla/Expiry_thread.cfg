\* A thread in which the beginning of the references has been left out.
CONSTANTS
  a = a
  b = b
  c = c
  d = d
  g = g
  h = h
  Arts <- MCFour
  Groups <- MCGroups
  Refs <- MCTrimmed
  Home <- MCAll
  Mode <- MCMode
  ConfigFiles <- MCFiles
  MaxTime = 1
SPECIFICATION Spec
PROPERTIES
  ReferencesTouched
