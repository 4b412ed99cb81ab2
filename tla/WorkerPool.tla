------------------------------- MODULE WorkerPool ------------------------------
(***************************************************************************)
(* WorkerPool of libs/point_cloud/concurrency.{h,cxx}: worker threads that *)
(* meet a guest thread in barrier_pre, run the current task and meet       *)
(* again.  A guest is a thread that owns no worker_kernel loop of its own: *)
(* it calls run, launch, sync or destroys the pool.                        *)
(*                                                                         *)
(* The barrier is the one of module Barrier, action by action.  Guests are *)
(* serialised by their owner (the class has no lock for them), but need    *)
(* not be the same thread every time.                                      *)
(***************************************************************************)
EXTENDS Barrier

CONSTANTS
  Workers,    \* the threads made by construct_threads
  Guests,     \* the threads that call the public operations
  MaxTasks    \* bound: number of tasks started in a behaviour

ASSUME PoolAssumption ==
  /\ Threads = Workers \cup Guests
  /\ Workers \cap Guests = {}
  /\ Guests # {}
  /\ initial_count = Cardinality(Workers) + 1    \* barrier_pre(i + 1)
  /\ MaxTasks \in Nat

VARIABLES
  current_task,   \* the owned PoolTask, NoTask when the pointer is null
  task_remaining, \* PoolTask::remaining of every task ever made
  stop_request,
  ptask,          \* the task pointer a thread took from current_task
  pc,             \* control point of a thread
  call,           \* which operation a guest executes
  alive,          \* the pool is not destroyed yet
  started,        \* number of tasks made
  ran,            \* history: how often a thread ran the task of the last call
  abandoned       \* history: the destructor was called on a busy pool

pool_vars == <<current_task, task_remaining, stop_request, ptask, pc, call,
               alive, started, ran, abandoned>>
vars == <<barrier_vars, pool_vars>>

NoTask == 0
Tasks == 1..MaxTasks

\* Constructor: the workers are on their way to the barrier.
Init ==
  /\ BarrierInit
  /\ current_task = NoTask
  /\ task_remaining = [k \in Tasks |-> 0]
  /\ stop_request = FALSE
  /\ ptask = [t \in Threads |-> NoTask]
  /\ pc = [t \in Threads |-> IF t \in Workers THEN "await" ELSE "idle"]
  /\ call = [t \in Threads |-> "none"]
  /\ alive = TRUE
  /\ started = 0
  /\ ran = [t \in Threads |-> 0]
  /\ abandoned = FALSE
--------------------------------------------------------------------------------
is_busy == current_task # NoTask

\* The owner of the pool lets one guest at a time into an operation.
MayCall(g) == alive /\ \A h \in Guests : pc[h] = "idle"

Goto(t, l) == pc' = [pc EXCEPT ![t] = l]

Enter(g, op, l) ==
  /\ MayCall(g)
  /\ call' = [call EXCEPT ![g] = op]
  /\ Goto(g, l)

\* make_unique<PoolTask>(func, n) for a task that n threads will run.
MakeTask(n) ==
  /\ started < MaxTasks
  /\ started' = started + 1
  /\ current_task' = started + 1
  /\ task_remaining' = [task_remaining EXCEPT ![started + 1] = n]
  /\ ran' = [t \in Threads |-> 0]

\* run: on a busy pool it throws and changes nothing.
Run(g) ==
  /\ Enter(g, "run", "await")
  /\ ~is_busy
  /\ MakeTask(Cardinality(Workers) + 1)
  /\ UNCHANGED <<barrier_vars, stop_request, ptask, alive, abandoned>>

Launch(g) ==
  /\ Enter(g, "launch", "await")
  /\ ~is_busy
  /\ MakeTask(Cardinality(Workers))
  /\ UNCHANGED <<barrier_vars, stop_request, ptask, alive, abandoned>>

\* sync: on an idle pool it returns at once; landing_kernel spins otherwise.
Sync(g) ==
  /\ Enter(g, "sync", "spin")
  /\ is_busy
  /\ ptask' = [ptask EXCEPT ![g] = current_task]
  /\ UNCHANGED <<barrier_vars, current_task, task_remaining, stop_request,
                 alive, started, ran, abandoned>>

\* The destructor, join_all up to the barrier: a task that was launched and not synced
\* is freed, whoever runs it.  What comes of that is not predicted: the properties below
\* say where the use of a freed task begins, and nothing of what follows.
Destroy(g) ==
  /\ Enter(g, "stop", "await")
  /\ stop_request' = TRUE
  /\ current_task' = NoTask
  /\ abandoned' = (abandoned \/ is_busy)
  /\ UNCHANGED <<barrier_vars, task_remaining, ptask, alive, started, ran>>
--------------------------------------------------------------------------------
\* Where a thread goes on after barrier_pre.await(): launchpad_kernel returns.
AfterAwait(t) == IF call[t] = "launch" THEN "idle" ELSE "read"

PassBarrier(t) ==
  /\ Goto(t, AfterAwait(t))
  /\ call' = [call EXCEPT ![t] = IF @ = "launch" THEN "none" ELSE @]

Await(t) ==
  /\ pc[t] = "await"
  /\ Arrive(t)
  /\ IF at'[t] = "wait" THEN Goto(t, "blocked") /\ UNCHANGED call ELSE PassBarrier(t)
  /\ UNCHANGED <<current_task, task_remaining, stop_request, ptask, alive, started, ran, abandoned>>

AwaitLeave(t) ==
  /\ pc[t] = "blocked"
  /\ Leave(t)
  /\ PassBarrier(t)
  /\ UNCHANGED <<current_task, task_remaining, stop_request, ptask, alive, started, ran, abandoned>>

AwaitAgain(t) == WaitAgain(t) /\ UNCHANGED pool_vars

\* worker_kernel behind the barrier: it takes the task pointer, then looks at
\* stop_request.  A worker without a task waits for the next call.
ReadTask(t) ==
  /\ pc[t] = "read"
  /\ ptask' = [ptask EXCEPT ![t] = current_task]
  /\ Goto(t, IF stop_request THEN IF t \in Workers THEN "done" ELSE "join"
             ELSE IF current_task # NoTask THEN "task"
             ELSE IF t \in Workers THEN "await" ELSE "idle")
  /\ UNCHANGED <<barrier_vars, current_task, task_remaining, stop_request, call,
                 alive, started, ran, abandoned>>

\* ptask->task(thread_id)
RunTask(t) ==
  /\ pc[t] = "task"
  /\ ran' = [ran EXCEPT ![t] = @ + 1]
  /\ Goto(t, "finish")
  /\ UNCHANGED <<barrier_vars, current_task, task_remaining, stop_request, ptask,
                 call, alive, started, abandoned>>

\* ptask->remaining.fetch_sub(1); only the guest of run has clear_task set.
FinishTask(t) ==
  /\ pc[t] = "finish"
  /\ task_remaining' = [task_remaining EXCEPT ![ptask[t]] = @ - 1]
  /\ Goto(t, IF t \in Workers THEN "await" ELSE "spin")
  /\ UNCHANGED <<barrier_vars, current_task, stop_request, ptask, call, alive,
                 started, ran, abandoned>>

\* Mutant of ClearTask: one thread too many may still be running.
EarlyClearTask(g) ==
  /\ pc[g] = "spin"
  /\ task_remaining[ptask[g]] <= 1
  /\ current_task' = NoTask
  /\ Goto(g, "idle")
  /\ call' = [call EXCEPT ![g] = "none"]
  /\ UNCHANGED <<barrier_vars, task_remaining, stop_request, ptask, alive, started, ran, abandoned>>

\* The loop over remaining.load() ends and the guest releases the task.
ClearTask(g) ==
  /\ pc[g] = "spin"
  /\ task_remaining[ptask[g]] = 0
  /\ current_task' = NoTask
  /\ Goto(g, "idle")
  /\ call' = [call EXCEPT ![g] = "none"]
  /\ UNCHANGED <<barrier_vars, task_remaining, stop_request, ptask, alive, started, ran, abandoned>>

\* join_all: every thread.join() has returned.
Join(g) ==
  /\ pc[g] = "join"
  /\ \A w \in Workers : pc[w] = "done"
  /\ stop_request' = FALSE
  /\ alive' = FALSE
  /\ Goto(g, "idle")
  /\ call' = [call EXCEPT ![g] = "none"]
  /\ UNCHANGED <<barrier_vars, current_task, task_remaining, ptask, started, ran, abandoned>>

\* The pool is gone: its behaviour ends.
Destroyed == ~alive /\ UNCHANGED vars

\* What a thread does once it is in the pool, without a decision of a caller.
ThreadStep(t) ==
  \/ Await(t) \/ AwaitLeave(t) \/ AwaitAgain(t)
  \/ ReadTask(t) \/ RunTask(t) \/ FinishTask(t) \/ ClearTask(t) \/ Join(t)

GuestCall(g) == Run(g) \/ Launch(g) \/ Sync(g) \/ Destroy(g)

Spurious(t) == SpuriousWakeup(t) /\ UNCHANGED pool_vars

Next ==
  \/ \E t \in Threads : ThreadStep(t) \/ Spurious(t)
  \/ \E g \in Guests : GuestCall(g)
  \/ Destroyed

\* Every thread is scheduled; callers and spurious wake-ups owe nothing.
Spec == Init /\ [][Next]_vars /\ \A t \in Threads : WF_vars(ThreadStep(t))
--------------------------------------------------------------------------------
\* The threads that run the current task.
Crew == Workers \cup {g \in Guests : call[g] = "run"}

\* The PoolTask a thread still dereferences is the current one: the guest frees
\* it only after the last fetch_sub, also when the call after the next one is
\* made by another thread than the one before.  Only an owner who destroys the pool
\* before sync() breaks this.
NoDanglingTask ==
  \A t \in Threads :
    pc[t] \in {"task", "finish", "spin"} => \/ ptask[t] = current_task /\ is_busy
                                           \/ abandoned

\* run and sync return, and the task is released, only when every worker (and
\* the guest of run) has run the task once.  The destructor may give a task up, and
\* none starts then.
Pool == INSTANCE AbstractPool
          WITH task <- current_task,
               pending <- IF is_busy THEN {t \in Crew : ran[t] = 0} ELSE {},
               closed <- ~alive \/ \E g \in Guests : call[g] = "stop"

ImplementsPool == Pool!PoolSpec

\* run, launch, sync and the destructor return, unless the destructor met a busy pool:
\* a worker that sees stop_request on its way to the task leaves without it, and is
\* missed in the barrier.
EveryCallReturns == \A g \in Guests : pc[g] # "idle" ~> pc[g] = "idle" \/ abandoned
================================================================================
