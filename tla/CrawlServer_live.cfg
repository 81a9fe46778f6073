\* Two sites, servers that answer: every crawl ends.
SPECIFICATION FairSpec
CONSTANTS
  s1 = s1  s2 = s2
  robots1 = robots1  home1 = home1  robots2 = robots2  home2 = home2
  a = a  b = b  c = c
  Site <- OneSite
  Url <- OneUrl
  SiteOf <- OneSiteOf
  Robots <- OneRobots
  Home <- OneHome
  HashValue <- OneUrl
  Hash <- OneHash
  Parseable = {}
  Storable = {}
  Disallowed = {}
  MAX_NUM_QUEUES = 2
  MAX_QUEUE_PENDING_REQUESTS = 1
  MAX_NUM_TRIALS = 2
  Slot = {r1, r2}
  FmSlot = {f1, f2}
  MinSample = 2
  MaxConsecutive = 2
  MaxLevel = 0
  MaxCount = 0
  Delay = 1
  Commands = {"CRAWL"}
  MaxSites = 2
  None = None
PROPERTIES
  EverySiteFinishes
CHECK_DEADLOCK FALSE
