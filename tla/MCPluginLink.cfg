SPECIFICATION Spec
CONSTANTS
  MaxFrame = 3
  MaxBytes = 6
  Sections <- MCSections
  Hellos <- MCHellos
  Messages <- MCMessages
  Commands <- MCCommands
  Requests <- MCRequests
  Files <- MCFiles
  Conns = {c1, c2}
  MaxConnections = 1
  MaxDrain = 1
  MaxBacklog = 3
  MaxFailures = 2
  MaxUnread = 2
  MaxTroubles = 4
INVARIANTS DecodersAgree ReceiversTakeAll GrantHolds
PROPERTIES SlotsComeBack Reconnects
CHECK_DEADLOCK FALSE
