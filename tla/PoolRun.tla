-------------------------------- MODULE PoolRun --------------------------------
(***************************************************************************)
(* WorkerPool and TaskPool together, the way octree.h uses them: a local   *)
(* object tasks is filled, pool_ptr->run([&tasks](int) { tasks(); }) is    *)
(* called, and what run has left in memory is read as soon as it returns.  *)
(***************************************************************************)
EXTENDS WorkerPool, TaskPool

\* Guest and workers call operator() of the tasks object.
ASSUME RunAssumption == Callers = Threads

run_vars == <<vars, task_vars>>

RunInit == Init /\ TaskInit

\* A fresh tasks object is handed to run.
RunTasks(g) ==
  /\ Run(g)
  /\ next_task' = 0
  /\ task_id' = [t \in Threads |-> 0]
  /\ step' = [t \in Threads |-> "fetch"]
  /\ executed' = [i \in TaskIds |-> 0]

\* The body of the task: tasks() until it returns.
InTasks(t) ==
  /\ pc[t] = "task"
  /\ FetchTask(t) \/ ExecuteTask(t)
  /\ UNCHANGED vars

LeaveTasks(t) ==
  /\ step[t] = "returned"
  /\ RunTask(t)
  /\ UNCHANGED task_vars

PoolStep(t) ==
  /\ \/ Await(t) \/ AwaitLeave(t) \/ AwaitAgain(t)
     \/ ReadTask(t) \/ FinishTask(t) \/ ClearTask(t) \/ Join(t)
  /\ UNCHANGED task_vars

RunNext ==
  \/ \E t \in Threads : PoolStep(t) \/ InTasks(t) \/ LeaveTasks(t)
  \/ \E t \in Threads : Spurious(t) /\ UNCHANGED task_vars
  \/ \E g \in Guests : RunTasks(g) \/ (Destroy(g) /\ UNCHANGED task_vars)
  \/ Destroyed /\ UNCHANGED task_vars

RunSpec ==
  /\ RunInit /\ [][RunNext]_run_vars
  /\ \A t \in Threads : WF_run_vars(PoolStep(t) \/ InTasks(t) \/ LeaveTasks(t))
--------------------------------------------------------------------------------
\* When run returns, every task has been executed once, no thread is inside of
\* func any more, and none will touch the tasks object, which its owner now
\* destroys; octree.h reads the results right behind the call.
CompleteOnReturn ==
  [][\A g \in Guests : call[g] = "run" /\ call'[g] = "none" =>
       /\ \A i \in TaskIds : executed[i] = 1
       /\ \A t \in Threads : pc[t] # "task"]_run_vars

\* The call of run ends: the barrier, the loop over the tasks and the spinning
\* guest do not block each other.
RunReturns == \A g \in Guests : call[g] = "run" ~> call[g] = "none"
================================================================================
