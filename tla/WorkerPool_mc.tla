----------------------------- MODULE WorkerPool_mc -----------------------------
\* Two workers and two guests that take turns; three tasks are enough for a guest
\* to come back after the other one has been in the barrier.
EXTENDS WorkerPool

CONSTANTS w1, w2, g1, g2
McWorkers == {w1, w2}
McGuests == {g1, g2}
McThreads == McWorkers \cup McGuests
================================================================================
