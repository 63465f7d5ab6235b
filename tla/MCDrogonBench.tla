--------------------------- MODULE MCDrogonBench ---------------------------
EXTENDS DrogonBench

CONSTANTS t1, t2

MCThreads == {t1, t2}
\* what the stack slot of data_size may hold after sendRequests() returned
MCJunk    == {0}
=============================================================================
