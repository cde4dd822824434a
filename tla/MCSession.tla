----------------------------- MODULE MCSession ------------------------------
\* Session with two tabs.
EXTENDS Session

CONSTANTS a, b

TwoTabs == {a, b}
=============================================================================
