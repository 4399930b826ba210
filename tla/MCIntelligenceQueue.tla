------------------------- MODULE MCIntelligenceQueue -------------------------
\* Two jobs on one case, so that one Result makes the other stale; two Workers
\* so that a lease changes hands; two consumers so that batches overlap.
EXTENDS IntelligenceQueue
=============================================================================
