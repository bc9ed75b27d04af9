SPECIFICATION ReaderSpec
CONSTANTS
  MaxHistoryEntries = 3
  CachedDocuments = 2
PROPERTY BackRestores
CHECK_DEADLOCK FALSE
