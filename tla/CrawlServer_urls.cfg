\* One site whose pages may link to and redirect to any of its URLs.
SPECIFICATION Spec
CONSTANTS
  s1 = s1  s2 = s2
  robots1 = robots1  home1 = home1  robots2 = robots2  home2 = home2
  a = a  b = b  c = c
  Site <- OneSite
  Url <- OneUrl
  SiteOf <- OneSiteOf
  Robots <- OneRobots
  Home <- OneHome
  HashValue <- OneUrl
  Hash <- OneHash
  Parseable = {home1, a}
  Storable = {home1, a, b, c}
  Disallowed = {b}
  MAX_NUM_QUEUES = 1
  MAX_QUEUE_PENDING_REQUESTS = 2
  MAX_NUM_TRIALS = 2
  Slot = {r1, r2}
  FmSlot = {f1, f2}
  MinSample = 3
  MaxConsecutive = 2
  MaxLevel = 1
  MaxCount = 1
  Delay = 0
  Commands = {"CRAWL"}
  MaxSites = 1
  None = None
SYMMETRY SlotSymmetry
INVARIANTS
  PerSeedBound
PROPERTIES
  ImplementsLifecycle
CHECK_DEADLOCK FALSE
