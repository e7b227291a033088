SPECIFICATION Spec
CONSTANTS
  alice = alice
  carol = carol
  i = i
  j = j
  x = x
  y = y
  z = z
  Sources <- MCSources
  Ids <- MCIds
  Digests <- MCDigests
  Parts <- MCParts
  Content <- MCContent
  MaxObjects = 2
  MaxBytes = 14
  ManifestLen = 1
  PartLen = 2
  ObjectLen = 2
  MaxClock = 1
  MaxThreads = 2
INVARIANTS
  FetchedWithReceipt
