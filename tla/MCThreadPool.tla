---------------------------- MODULE MCThreadPool ----------------------------
EXTENDS ThreadPool

CONSTANTS w1, w2, w3, j1, j2, j3, j4

MCWorkers == {w1, w2, w3}
MCJobs    == {j1, j2, j3, j4}
=============================================================================
