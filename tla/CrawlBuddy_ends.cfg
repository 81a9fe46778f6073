\* Two crawlers, three hosts, one crash, order or retry: all hosts are crawled.
SPECIFICATION FairSpec
CONSTANTS
  x = x  y = y  z = z  b1 = b1  b2 = b2
  Host = {1, 2, 3}
  Addr = {x, y}
  AddrOf <- SharedAddr
  Crawler = {b1, b2}
  Threads = 1
  MAX_NUM_QUEUES = 2
  MaxKO = 1
  QueriesFail = FALSE
  Careful = TRUE
  MaxMishaps = 1
  Operator = Operator
  None = None
PROPERTIES
  AllCrawled
