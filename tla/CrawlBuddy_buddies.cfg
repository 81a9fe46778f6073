\* Two crawlers, three hosts, statements that fail, one crash, order or retry at any step.
SPECIFICATION Spec
CONSTANTS
  x = x  y = y  z = z  b1 = b1  b2 = b2
  Host = {1, 2, 3}
  Addr = {x, y}
  AddrOf <- SharedAddr
  Crawler = {b1, b2}
  Threads = 1
  MAX_NUM_QUEUES = 2
  MaxKO = 1
  QueriesFail = TRUE
  Careful = TRUE
  MaxMishaps = 1
  Operator = Operator
  None = None
SYMMETRY CrawlerSymmetry
INVARIANTS
  TypeOK
  OneTable
  OneVisitorPerAddress
PROPERTIES
  ImplementsSiteTables
