------------------------------ MODULE AbstractPool -----------------------------
(***************************************************************************)
(* What a worker pool promises: a task is run once by every member of its  *)
(* crew, and the next task starts only after the last one is complete.     *)
(* Closing the pool gives up a task that is not complete.                  *)
(***************************************************************************)
EXTENDS Integers

CONSTANTS
  Workers,    \* threads of the pool
  Guests      \* threads that may take part in a task

VARIABLES
  task,       \* number of the current task, 0 if there is none
  pending,    \* members of the crew that have not run it yet
  closed      \* no task starts any more

pvars == <<task, pending, closed>>

PoolInit == task = 0 /\ pending = {} /\ closed = FALSE

\* A task starts with the workers, and maybe one guest, as its crew.
Start ==
  /\ task = 0 /\ ~closed
  /\ task' \in Nat \ {0}
  /\ \E G \in SUBSET Guests : pending' = Workers \cup G
  /\ UNCHANGED closed

\* A member of the crew runs the task.
Execute(t) ==
  /\ t \in pending
  /\ pending' = pending \ {t}
  /\ UNCHANGED <<task, closed>>

\* The task is released.
Release ==
  /\ task # 0
  /\ pending = {}
  /\ task' = 0
  /\ UNCHANGED <<pending, closed>>

\* The pool is destroyed.
Close ==
  /\ ~closed
  /\ closed' = TRUE
  /\ task' = 0
  /\ pending' = {}

PoolNext == Start \/ Release \/ Close \/ \E t \in Workers \cup Guests : Execute(t)

PoolSpec == PoolInit /\ [][PoolNext]_pvars
================================================================================
