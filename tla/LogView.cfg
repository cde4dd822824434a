\* Every page, with three effects run in turn, so that two cancelled ones may
\* answer after the last, and two events between them.
CONSTANTS
  s1 = s1
  s2 = s2
  NoSite = NoSite
  Nothing = Nothing
  Site <- TwoSites
  Pages <- AllPages
  Periods = {"1h", "24h"}
  Filters = {"all", "GET"}
  Searches = {"", "abc"}
  MaxEvents = 2
  MaxFetches = 3
SPECIFICATION Spec
INVARIANT ShownIsAsked
PROPERTY NeverBack
