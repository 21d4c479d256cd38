------------------------- MODULE MCThreadExecutors -------------------------
EXTENDS ThreadExecutors

CONSTANTS t1, t2, t3, t4
MCTasks == {t1, t2, t3, t4}
MCKeepers == {t1, t2}
=============================================================================
