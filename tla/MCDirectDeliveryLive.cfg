SPECIFICATION FairSpec
CONSTANTS
  a = a
  b = b
  i = i
  j = j
  x = x
  y = y
  Nodes <- MCNodes
  Ids <- MCIds
  Digests <- MCDigests
  Messages <- MCBothWays
  MaxRows = 2
  MaxBytes = 11
  MaxAttempts = 2
  BodyLen <- MCBodyLen
  WireLen <- MCWireLen
  MaxClock = 3
  Lag = 1
PROPERTIES
  ExpiredIsFinal
  EveryRowSettles
