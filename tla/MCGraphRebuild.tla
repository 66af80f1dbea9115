--------------------------- MODULE MCGraphRebuild ---------------------------
\* One thread changes the topology, one calls wait_process.
EXTENDS GraphRebuild

MCMutators == {"m1"}
MCFlushers == {"f1"}
\* The first topology has a routing cycle, a later one repairs it.
MCUnbuildable == {1}
=============================================================================
