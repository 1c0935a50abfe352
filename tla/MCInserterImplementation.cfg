SPECIFICATION Spec
CONSTANTS
  TotalLines = 4
  Messages <- UpToThreeLines
  SequenceNumbers = {1, 2}
  SessionIds = {1, 2}
  MaxReserve = 9
INVARIANTS
  TypeOK
  LiveRecordsIntact
  ConsumersGetWholeRecords
PROPERTIES
  MessagesUnderPublishedSession
  MaxSequenceIsCommitted
  ImplementsLog
CHECK_DEADLOCK FALSE
