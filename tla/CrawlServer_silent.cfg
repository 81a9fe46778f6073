\* A Web server that never answers.
SPECIFICATION SilentSpec
CONSTANTS
  s1 = s1  s2 = s2
  robots1 = robots1  home1 = home1  robots2 = robots2  home2 = home2
  a = a  b = b  c = c
  Site <- TwoSites
  Url <- TwoUrl
  SiteOf <- TwoSiteOf
  Robots <- TwoRobots
  Home <- TwoHome
  HashValue <- TwoUrl
  Hash <- TwoHash
  Parseable = {}
  Storable = {}
  Disallowed = {}
  MAX_NUM_QUEUES = 1
  MAX_QUEUE_PENDING_REQUESTS = 1
  MAX_NUM_TRIALS = 2
  Slot = {r1}
  FmSlot = {f1}
  MinSample = 4
  MaxConsecutive = 2
  MaxLevel = 0
  MaxCount = 0
  Delay = 1
  Commands = {"CRAWL"}
  MaxSites = 1
  None = None
PROPERTIES
  RequestsTimeOut
CHECK_DEADLOCK FALSE
