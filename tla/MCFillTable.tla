---------------------------- MODULE MCFillTable ----------------------------
\* FillTable on three requests for two keys: a pilot, its waiter, and a request
\* that flies on the other key or takes off after the first has landed.
EXTENDS FillTable

CONSTANTS r1, r2, r3, k1, k2

ThreeRequests == {r1, r2, r3}
TwoKeys == {k1, k2}
=============================================================================
