\* Two tabs, two sign-ins, and one request of each tab in flight, so that an
\* answer may be older than the session it is handled in.
CONSTANTS
  a = a
  b = b
  None = None
  Tab <- TwoTabs
  MaxTokens = 2
  MaxCalls = 1
SPECIFICATION FairSpec
INVARIANTS TabsAgree IInv
PROPERTIES OldSessionsStayOut SignedOutEverywhere
