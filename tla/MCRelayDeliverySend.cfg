SPECIFICATION RelaySpec
CONSTANTS
  alice = alice
  carol = carol
  bob = bob
  dave = dave
  i = i
  x = x
  y = y
  r1 = r1
  r2 = r2
  Sources <- MCSources
  Ids <- MCIds
  Digests <- MCDigests
  Parts <- TwoParts
  Content <- MCContent
  MaxObjects = 2
  MaxBytes = 10
  ManifestLen = 1
  PartLen = 2
  ObjectLen = 2
  MaxClock = 0
  MaxThreads = 1
  Origin = alice
  Recipient = bob
  Others = {}
  Relays = {r1, r2}
  Faithful = {r1}
  Labels = {"object"}
  Errands <- TwoErrands
  OtherMail = {}
  Contacts <- MCContacts
INVARIANTS
  SendReturnsWhenTaken
