\* Two tabs and two requests, any of which may be lost, be overtaken, fail, or find
\* the site changed by the one before.
CONSTANTS
  t1 = t1
  t2 = t2
  s1 = s1
  s2 = s2
  s3 = s3
  r1 = r1
  r2 = r2
  r3 = r3
  DefaultId = DefaultId
  NoId = NoId
  NoSite = NoSite
  None = None
  Refused = Refused
  Tab <- TwoTabs
  SiteId <- Sites
  RuleId <- RuleIdsGiven
  Home = s1
  Names = {"n"}
  Origins = {"o1", "o2"}
  Bodies = {"b"}
  Hosts = {"h1", "h2"}
  Visits <- TwoVisits
  Preloads = {"settings"}
  MaxRequests = 2
SPECIFICATION Spec
INVARIANTS TypeOK SavingIsPending
PROPERTIES DeletedStaysDeleted SavesStayInTheirPart OffersAreAcceptable
