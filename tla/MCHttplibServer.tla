--------------------------- MODULE MCHttplibServer ---------------------------
EXTENDS HttplibServer

CONSTANTS c1, c2, p1, s1, s2

MCConns    == {c1, c2}
MCThreads  == {p1}
MCStoppers == {s1, s2}
=============================================================================
