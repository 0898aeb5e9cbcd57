SPECIFICATION Spec
CONSTANTS
  a = a
  b = b
  bq = bq
  c = c
  d = d
  e = e
  s = s
  x = x
  h1 = h1
  h2 = h2
  h3 = h3
  Urls <- MCUrls
  HostOf <- MCHostOf
  Allowed = {a, b, bq, c, d, e, s}
  Addresses = {1, 2, 9}
  Public = {1, 2}
  HopLimit <- MCHopLimit
  Webs <- MCWebs
  NameServices <- MCNameServices
  Networks <- MCNetworks
  MaxNameChanges = 1
  Nowhere = Nowhere
  Starts = {a, x}
  Normal <- MCNormal
  Excluded = {e}
  Malformed = Malformed
  PageBounds = {2, 4}
  DepthBounds = {1, 2}
INVARIANTS
  AnswerIsTheEndOfTheChain
  CrawlIsBreadthFirst
PROPERTIES
  RequestsStayInside
  JobsEnd
