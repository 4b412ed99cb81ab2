-------------------------------- MODULE TaskPool -------------------------------
(***************************************************************************)
(* TaskPool<TASK> of libs/point_cloud/concurrency.h: several threads call  *)
(* operator() of one object and share its tasks by fetch_add on next_task. *)
(* lod_counting_core and indexing of octree.h hold a copy of the same loop.*)
(***************************************************************************)
EXTENDS Integers

CONSTANTS
  Callers,    \* threads that call operator()
  PoolSize    \* pool.size()

ASSUME TaskPoolAssumption == PoolSize \in Nat

VARIABLES
  next_task,  \* the atomic counter
  task_id,    \* local variable of a caller
  step,       \* a caller is about to "fetch", runs a task ("work") or returned
  executed    \* history: how often func was applied to a task

task_vars == <<next_task, task_id, step, executed>>

TaskIds == 0 .. PoolSize - 1

TaskTypeOK ==
  /\ next_task \in Nat
  /\ task_id \in [Callers -> Nat]
  /\ step \in [Callers -> {"fetch", "work", "returned"}]
  /\ executed \in [TaskIds -> 0..1]

TaskInit ==
  /\ next_task = 0
  /\ task_id = [t \in Callers |-> 0]
  /\ step = [t \in Callers |-> "fetch"]
  /\ executed = [i \in TaskIds |-> 0]

\* Mutant of FetchTask: a load followed by a store that several callers can
\* interleave, seen here as a caller that leaves the counter behind.
RacyFetchTask(t) ==
  /\ step[t] = "fetch"
  /\ task_id' = [task_id EXCEPT ![t] = next_task]
  /\ next_task' \in {next_task, next_task + 1}
  /\ step' = [step EXCEPT ![t] = IF next_task >= PoolSize THEN "returned" ELSE "work"]
  /\ UNCHANGED executed

\* Mutant of FetchTask: task_id + 1 >= pool.size() ends the loop.
ShortFetchTask(t) ==
  /\ step[t] = "fetch"
  /\ task_id' = [task_id EXCEPT ![t] = next_task]
  /\ next_task' = next_task + 1
  /\ step' = [step EXCEPT ![t] = IF next_task + 1 >= PoolSize THEN "returned" ELSE "work"]
  /\ UNCHANGED executed

\* task_id = next_task.fetch_add(1); return if it is beyond the pool.
FetchTask(t) ==
  /\ step[t] = "fetch"
  /\ task_id' = [task_id EXCEPT ![t] = next_task]
  /\ next_task' = next_task + 1
  /\ step' = [step EXCEPT ![t] = IF next_task >= PoolSize THEN "returned" ELSE "work"]
  /\ UNCHANGED executed

\* func(&pool[task_id])
ExecuteTask(t) ==
  /\ step[t] = "work"
  /\ executed' = [executed EXCEPT ![task_id[t]] = @ + 1]
  /\ step' = [step EXCEPT ![t] = "fetch"]
  /\ UNCHANGED <<next_task, task_id>>

TaskNext == \E t \in Callers : FetchTask(t) \/ ExecuteTask(t)

TaskSpec == TaskInit /\ [][TaskNext]_task_vars
--------------------------------------------------------------------------------
\* No task is in the hands of two threads, or taken up again after it was done.
Exclusive ==
  \A t \in Callers : step[t] = "work" =>
    /\ task_id[t] \in TaskIds
    /\ executed[task_id[t]] = 0
    /\ \A u \in Callers \ {t} : step[u] = "work" => task_id[u] # task_id[t]

\* A caller that returns leaves nothing behind: every task is done, or in the
\* hands of a caller that has not returned.
NothingLeft ==
  (\E t \in Callers : step[t] = "returned") =>
    \A i \in TaskIds :
      executed[i] = 1 \/ \E u \in Callers : step[u] = "work" /\ task_id[u] = i
================================================================================
