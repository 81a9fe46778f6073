\* Pages stored and read at once; writes cut short, processes killed.
SPECIFICATION RepositorySpec
CONSTANTS
  MAX_FILE_SIZE = 7
  RESYNC_SEARCH_WINDOW = 3
  HalfRange = 5
  BodySizes = {0, 4}
  MaxPages = 2
  MaxOpens = 2
  MaxMishaps = 2
INVARIANTS
  RepositoryTypeOK
  PagesWhole
  Complete
PROPERTIES
  ReaderEnds
CHECK_DEADLOCK FALSE
