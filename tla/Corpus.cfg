CONSTANTS
  f1 = f1
  f2 = f2
  s1 = s1
  s2 = s2
  Files <- MCFiles
  Syncs <- MCSyncs
  WriteBound = 3
  SyncBound = 2
  Settings <- MCSettings
  docA = docA
  docB = docB
  node = node
  far = far
  note = note
  q1 = q1
  q2 = q2
  search1 = search1
  search2 = search2
  Corpus <- MCItems
  Queries <- MCQueries
  Wordless <- MCWordless
  Searches <- MCSearches
  Requests <- MCRequests
  External = TRUE
  Capacity = 1
  MaxAttempts = 2
  Cap = 1
  FindLimit = 2
  Neighbours <- MCNeighbours
  Bounds <- MCBounds
  Stores <- MCStores
  Shelf <- MCShelf
  e1 = e1
  e2 = e2
  e3 = e3
  owns = owns
  walk1 = walk1
  Entities <- MCEntities
  Types <- MCTypes
  Traversals <- MCTraversals
  Depths <- MCDepths
  MaxDepth = 2
  RowLimit = 2
  HopLimit = 2
  LinkBound = 3
  m1 = m1
  m2 = m2
  m3 = m3
  Transcripts <- MCTranscripts
  MeetingIds <- MCMeetings
  LeadLength = 1
  SearchLimit = 2
  u1 = u1
  UploadFiles <- MCUploadFiles
  Uploads <- MCUploads
  Deployments <- MCDeployments
  MaxTokens = 4
  OverlapTokens = 2
SPECIFICATION MCSpec
INVARIANTS
  CursorCovers
  ServesReadable
  OnlyCappedLosePlaces
  EmbedsOnce
  TraversalFindsNeighbours
  MeetingsAreFoundWhole
  StoredWasScanned
  ChunksCarryTheText
SYMMETRY Symmetry
CHECK_DEADLOCK FALSE
