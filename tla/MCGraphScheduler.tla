-------------------------- MODULE MCGraphScheduler --------------------------
\* Two flushers and a handful of changes: enough for a flush to start before,
\* during and after an apply while another flush waits.
EXTENDS GraphScheduler

MCFlushers == {"f1", "f2"}
=============================================================================
