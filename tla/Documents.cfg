CONSTANTS
  d1 = d1
  a = a
  b = b
  Docs <- MCDocs
  Parts <- MCParts
  Texts <- MCTexts
  EmbedLimit = 1
  JobAttempts = 3
  DocumentSettings <- MCSettings
CHECK_DEADLOCK FALSE
SPECIFICATION FairDocumentSpec
INVARIANTS
  NeverFalselyReady
  GapsAreOwed
PROPERTIES
  ArchivedStaysHidden
  UploadsSettle
