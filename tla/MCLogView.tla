----------------------------- MODULE MCLogView ------------------------------
\* LogView with two sites and every page.
EXTENDS LogView

CONSTANTS s1, s2

TwoSites == {s1, s2}
AllPages == {"overview", "analytics", "logs", "site", "siteAnalytics", "siteLogs"}
=============================================================================
