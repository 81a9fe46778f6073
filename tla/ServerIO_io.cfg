CONSTANTS
  MaxFD = 4
  HalfRange = 8
  Command = {"c1", "c2"}
  Report = {"r1", "r2"}
  MAX_PENDING_REQUESTS = 2
  MaxInt = 3
  MAX_WAIT = 2
  WAIT_UNTIL_CLOSE = 1
  RequestLen = 2
  INITIAL_BUFFER_SIZE = 2
  MAX_PAGE_SIZE = 4
  LowSpace = 1
  MaxTickets = 4
  Loads <- MCLoads
SPECIFICATION FairSpec
INVARIANTS
  SocketsWatched DeliveredInOrder RequestsServedOnce
  PageEndsInAnswer TimeoutExact
PROPERTIES EverythingLeaves
CHECK_DEADLOCK FALSE
