SPECIFICATION TablesSpec
CONSTANTS
  MaxKeys = 2
  MaxVersion = 3
  Empty = {2}
  Live = TRUE
  Content <- MCContent
PROPERTY NeverBackInTime
CHECK_DEADLOCK FALSE
