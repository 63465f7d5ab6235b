--------------------------- MODULE MCHttplibBench ---------------------------
EXTENDS HttplibBench

CONSTANTS t1, t2, s1, s2

MCThreads == {t1, t2}
MCServer  == {s1, s2}
=============================================================================
