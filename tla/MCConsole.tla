----------------------------- MODULE MCConsole ------------------------------
\* Console in two tabs, with ids enough for every request to be a creation.
EXTENDS Console

CONSTANTS t1, t2, s1, s2, s3, r1, r2, r3

TwoTabs == {t1, t2}
Sites == {s1, s2, s3}
RuleIdsGiven == {r1, r2, r3}

\* One tab stays on the rules, the other goes everywhere else.
TwoVisits == t1 :> {"rules"} @@ t2 :> {"sites", "settings", "origin"}
=============================================================================
