---------------------------- MODULE MCBlobStore ----------------------------
\* BlobStore on a few goroutines, keys and body names.
EXTENDS BlobStore, TLC

CONSTANTS p1, p2, k1, k2, b1, b2, b3

TwoProcs == {p1, p2}
TwoKeys == {k1, k2}
ThreeBodies == {b1, b2, b3}
TwoBodies == {b1, b2}

WithReads == {"fill", "delete", "read"}
WithReuse == {"fill", "delete", "reuse"}

CrashAndExpiry == {"crash", "expire", "late"}
AllButNames == {"crash", "expire", "late", "remove"}

Symmetry ==
  Permutations(Proc) \cup Permutations(Key) \cup Permutations(Body)
=============================================================================
