SPECIFICATION FairSpec
CONSTANTS
  Reader = {"server", "dashboard"}
  Payload <- MCPayload
  MaxChunk = 3
  Capacity = 6
  MaxLines = 5
PROPERTIES ImplementsLineChannel HandlesEveryLine
CHECK_DEADLOCK FALSE
