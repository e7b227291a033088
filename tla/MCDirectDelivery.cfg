SPECIFICATION Spec
CONSTANTS
  a = a
  b = b
  i = i
  j = j
  x = x
  y = y
  Nodes <- MCNodes
  Ids <- MCIds
  Digests <- MCDigests
  Messages <- MCOneWay
  MaxRows = 3
  MaxBytes = 11
  MaxAttempts = 2
  BodyLen <- MCBodyLen
  WireLen <- MCWireLen
  MaxClock = 1
  Lag = 1
INVARIANTS
  TypeOK
  ConfirmedWasReceived
  InboxHasReceipt
  SendsWithinBudget
  OutcomeIsLatest
  MailboxWithinLimits
PROPERTIES
  ConfirmedIsFinal
  ImplementsDelivery
