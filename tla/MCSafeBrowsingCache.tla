------------------------- MODULE MCSafeBrowsingCache -------------------------
\* A small instance of SafeBrowsingCache for TLC.
EXTENDS SafeBrowsingCache, TLC

Symmetry == Permutations(Lookups) \cup Permutations(HashPrefixes)
==============================================================================
