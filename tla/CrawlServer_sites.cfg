\* Two sites, two entries, two slots in either table: every slot is reused;
\* every command that a site manager may send.
SPECIFICATION Spec
CONSTANTS
  s1 = s1  s2 = s2
  robots1 = robots1  home1 = home1  robots2 = robots2  home2 = home2
  a = a  b = b  c = c
  Site <- TwoSites
  Url <- TwoUrl
  SiteOf <- TwoSiteOf
  Robots <- TwoRobots
  Home <- TwoHome
  HashValue <- TwoUrl
  Hash <- TwoHash
  Parseable = {}
  Storable = {home1, home2}
  Disallowed = {}
  MAX_NUM_QUEUES = 2
  MAX_QUEUE_PENDING_REQUESTS = 1
  MAX_NUM_TRIALS = 2
  Slot = {r1, r2}
  FmSlot = {f1, f2}
  MinSample = 4
  MaxConsecutive = 2
  MaxLevel = 0
  MaxCount = 0
  Delay = 1
  Commands = {"LOAD", "RELOAD", "SUSPEND", "PAUSE", "RESUME", "STATUS", "DIE"}
  MaxSites = 2
  None = None
SYMMETRY SiteSymmetry
INVARIANTS
  TypeOK
  TablesAgree
  Accounting
  RequestBelongsToSite
  NoLostWakeup
  EverySiteAccountedFor
PROPERTIES
  OnlyRetriesGoOut
