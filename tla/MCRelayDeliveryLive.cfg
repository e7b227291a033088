SPECIFICATION RelayFairSpec
CONSTANTS
  alice = alice
  carol = carol
  bob = bob
  dave = dave
  i = i
  x = x
  y = y
  r1 = r1
  r2 = r2
  Sources <- MCSources
  Ids <- MCIds
  Digests <- MCDigests
  Parts <- LiveParts
  Content <- MCContent
  MaxObjects = 2
  MaxBytes = 10
  ManifestLen = 1
  PartLen = 2
  ObjectLen = 2
  MaxClock = 1
  MaxThreads = 1
  Origin = alice
  Recipient = bob
  Others = {}
  Relays = {r1}
  Faithful = {r1}
  Labels = {"object"}
  Errands <- LiveErrands
  OtherMail = {}
  Contacts <- MCContacts
PROPERTIES
  ReceiptReachesSender
  EntryIsProved
