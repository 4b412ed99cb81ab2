-------------------------------- MODULE Barrier --------------------------------
(***************************************************************************)
(* SenseReversingBarrier of libs/point_cloud/concurrency.h: a counter, a   *)
(* global sense, a local sense per thread id, one mutex and one condition  *)
(* variable.  Every action below is one critical section under             *)
(* barrier_mutex; condition.wait releases the mutex, so a waiting thread   *)
(* is in the wait set ("wait") or has been woken and competes for the      *)
(* mutex again ("check").                                                  *)
(***************************************************************************)
EXTENDS Integers, FiniteSets

CONSTANTS
  Threads,        \* ids of the threads that call await
  initial_count   \* constructor argument i

ASSUME BarrierAssumption ==
  /\ IsFiniteSet(Threads)
  /\ initial_count \in Nat \ {0}

VARIABLES
  remaining,      \* arrivals missing in the current episode
  barrier_sense,  \* flips with every complete episode
  thread_sense,   \* the map from thread id to the sense of its next episode
  sense,          \* the local variable of await
  at              \* where a thread stands: "out", "wait" or "check"

barrier_vars == <<remaining, barrier_sense, thread_sense, sense, at>>

Unknown == 2      \* thread_sense.find(id) == thread_sense.end()
Senses == {0, 1}
Flip(s) == 1 - s

\* Every participant takes part in every episode, as in WorkerPool with one guest.
AllParticipate == Cardinality(Threads) = initial_count

BarrierTypeOK ==
  /\ remaining \in 1..initial_count
  /\ barrier_sense \in Senses
  /\ thread_sense \in [Threads -> Senses \cup {Unknown}]
  /\ sense \in [Threads -> Senses]
  /\ at \in [Threads -> {"out", "wait", "check"}]

BarrierInit ==
  /\ remaining = initial_count
  /\ barrier_sense = 0
  /\ thread_sense = [t \in Threads |-> Unknown]
  /\ sense = [t \in Threads |-> 0]
  /\ at = [t \in Threads |-> "out"]

\* The sense await looks up, or derives for a thread it sees for the first time.
SenseOf(t) ==
  IF thread_sense[t] # Unknown THEN thread_sense[t] ELSE Flip(barrier_sense)

\* Mutant of Returns: thread_sense[id] = sense.
SameSenseReturns(t, s) == thread_sense' = [thread_sense EXCEPT ![t] = s]

\* await returns with the lock still held: thread_sense[id] = !sense.
Returns(t, s) == thread_sense' = [thread_sense EXCEPT ![t] = Flip(s)]

\* Mutant of ArriveLast: condition.notify_all is missing.
NoNotifyArriveLast(t) ==
  /\ at[t] = "out"
  /\ remaining - 1 = 0
  /\ remaining' = initial_count
  /\ barrier_sense' = Flip(barrier_sense)
  /\ Returns(t, SenseOf(t))
  /\ UNCHANGED <<sense, at>>

\* await of the thread that brings remaining to 0: it resets the counter, flips
\* the sense, wakes everybody and returns.
ArriveLast(t) ==
  /\ at[t] = "out"
  /\ remaining - 1 = 0
  /\ remaining' = initial_count
  /\ barrier_sense' = Flip(barrier_sense)
  /\ at' = [u \in Threads |-> IF at[u] = "wait" THEN "check" ELSE at[u]]
  /\ Returns(t, SenseOf(t))
  /\ UNCHANGED sense

\* await of any other thread: it waits, up to the first test of the loop, or passes
\* at once if its sense is that of the barrier already.
ArriveEarly(t) ==
  /\ at[t] = "out"
  /\ remaining - 1 # 0
  /\ remaining' = remaining - 1
  /\ IF SenseOf(t) # barrier_sense
     THEN /\ sense' = [sense EXCEPT ![t] = SenseOf(t)]
          /\ at' = [at EXCEPT ![t] = "wait"]
          /\ UNCHANGED thread_sense
     ELSE Returns(t, SenseOf(t)) /\ UNCHANGED <<sense, at>>
  /\ UNCHANGED barrier_sense

\* condition.wait returns without a notification.
SpuriousWakeup(t) ==
  /\ at[t] = "wait"
  /\ at' = [at EXCEPT ![t] = "check"]
  /\ UNCHANGED <<remaining, barrier_sense, thread_sense, sense>>

\* A woken thread has the mutex again, tests the loop condition and waits on.
WaitAgain(t) ==
  /\ at[t] = "check"
  /\ sense[t] # barrier_sense
  /\ at' = [at EXCEPT ![t] = "wait"]
  /\ UNCHANGED <<remaining, barrier_sense, thread_sense, sense>>

\* Mutant of Leave: if instead of while around condition.wait.
IfLeave(t) ==
  /\ at[t] = "check"
  /\ at' = [at EXCEPT ![t] = "out"]
  /\ Returns(t, sense[t])
  /\ UNCHANGED <<remaining, barrier_sense, sense>>

\* A woken thread has the mutex again, finds its episode complete and returns.
Leave(t) ==
  /\ at[t] = "check"
  /\ sense[t] = barrier_sense
  /\ at' = [at EXCEPT ![t] = "out"]
  /\ Returns(t, sense[t])
  /\ UNCHANGED <<remaining, barrier_sense, sense>>

Arrive(t) == ArriveLast(t) \/ ArriveEarly(t)
Woken(t) == WaitAgain(t) \/ Leave(t)

BarrierNext == \E t \in Threads : Arrive(t) \/ SpuriousWakeup(t) \/ Woken(t)

BarrierSpec == BarrierInit /\ [][BarrierNext]_barrier_vars

--------------------------------------------------------------------------------
\* The state of the abstract barrier: who is blocked, and who of them is
\* blocked in the episode that is still incomplete.
Inside == {t \in Threads : at[t] # "out"}
Arrived == {t \in Threads : at[t] # "out" /\ sense[t] # barrier_sense}

Abstract == INSTANCE AbstractBarrier WITH inside <- Inside, arrived <- Arrived

\* Every await keeps the promise of the abstract barrier: a thread leaves an
\* episode only after all participants have entered it, although a fast thread
\* may enter the next episode while slow ones are still leaving this one.
ImplementsBarrier == Abstract!AbsSpec

\* The counter agrees with the arrivals, a thread outside will use the sense
\* opposite to that of the barrier, and a thread of a complete episode has been
\* woken (no wake-up is lost): the part of the state await relies on and that
\* notify_all, the flip and the reset of the counter must keep in step.
EpisodeInv ==
  /\ remaining = initial_count - Cardinality(Arrived)
  /\ \A t \in Threads : at[t] = "out" => SenseOf(t) = Flip(barrier_sense)
  /\ \A t \in Threads : at[t] = "wait" => sense[t] # barrier_sense

================================================================================
