------------------------------- MODULE PoolRun_mc ------------------------------
\* Two workers and one guest, two runs over two tasks each.
EXTENDS PoolRun

CONSTANTS w1, w2, g1
McWorkers == {w1, w2}
McGuests == {g1}
McThreads == McWorkers \cup McGuests
================================================================================
