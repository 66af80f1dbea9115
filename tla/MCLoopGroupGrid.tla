--------------------------- MODULE MCLoopGroupGrid ---------------------------
\* Followers of a playing loop that are driven by planned transitions only.
EXTENDS MCLoopGroup

ASSUME SynchronisedAssumption == Synchronised
=============================================================================
