----------------------------- MODULE PoolRun_proofs ----------------------------
(***************************************************************************)
(* For any number of workers and tasks: TaskPool hands out every task      *)
(* once; WorkerPool, used by one guest, releases a task only after         *)
(* everybody is through with it, and so implements the abstract pool; and  *)
(* a run of one by the other is complete when it returns.                  *)
(***************************************************************************)
EXTENDS PoolRun, FiniteSetTheorems, TLAPS

--------------------------------------------------------------------------------
\* The barrier works for any number of threads: its inductive invariant, and the
\* refinement of AbstractBarrier.  The only hypothesis besides BarrierAssumption is
\* AllParticipate.
IInv == BarrierTypeOK /\ EpisodeInv

\* Flip is the complement on the two senses.
LEMMA FlipFacts ==
  ASSUME NEW s \in Senses
  PROVE  /\ Flip(s) \in Senses
         /\ Flip(s) # s
         /\ Flip(Flip(s)) = s
         /\ \A r \in Senses : r # s => r = Flip(s)
BY DEF Flip, Senses

\* The set of arrived threads is a finite set of participants.
LEMMA ArrivedFinite ==
  /\ Arrived \subseteq Threads
  /\ IsFiniteSet(Arrived)
  /\ Cardinality(Arrived) \in Nat
<1>1. Arrived \in SUBSET Threads
  BY DEF Arrived
<1> QED
  BY <1>1, BarrierAssumption, FS_Subset, FS_CardinalityType

\* The counter reaches 0 for exactly the last participant.
LEMMA LastArrival ==
  ASSUME AllParticipate, IInv, NEW t \in Threads, t \notin Arrived
  PROVE  remaining - 1 = 0 <=> Arrived \cup {t} = Threads
<1> DEFINE A == Arrived \cup {t}
<1>1. IsFiniteSet(A) /\ Cardinality(A) = Cardinality(Arrived) + 1
  BY ArrivedFinite, FS_AddElement
<1>2. A \in SUBSET Threads
  BY ArrivedFinite
<1>3. Cardinality(A) = Cardinality(Threads) <=> A = Threads
  BY <1>2, BarrierAssumption, FS_Subset
<1>4. remaining - 1 = 0 <=> Cardinality(A) = Cardinality(Threads)
  <2>1. remaining = initial_count - Cardinality(Arrived)
    BY DEF IInv, EpisodeInv
  <2>2. Cardinality(Threads) = initial_count
    BY DEF AllParticipate
  <2> QED
    BY <1>1, <2>1, <2>2, ArrivedFinite, BarrierAssumption
<1> QED
  BY <1>3, <1>4

\* A thread outside of the barrier never passes it without waiting.
LEMMA NobodyPasses ==
  ASSUME IInv, NEW t \in Threads, at[t] = "out"
  PROVE  /\ SenseOf(t) = Flip(barrier_sense)
         /\ SenseOf(t) \in Senses
         /\ SenseOf(t) # barrier_sense
BY FlipFacts DEF IInv, BarrierTypeOK, EpisodeInv

\* The constructor establishes the invariant.
LEMMA InitInv == BarrierInit => IInv
<1> SUFFICES ASSUME BarrierInit PROVE IInv
  OBVIOUS
<1>1. BarrierTypeOK
  BY BarrierAssumption DEF BarrierInit, BarrierTypeOK, Senses
<1>2. Arrived = {}
  BY DEF BarrierInit, Arrived
<1>3. EpisodeInv
  BY <1>2, FS_EmptySet, BarrierAssumption DEF BarrierInit, EpisodeInv, SenseOf
<1> QED
  BY <1>1, <1>3 DEF IInv

\* The effect of each action on the set of arrived threads.
LEMMA LastEffect ==
  ASSUME AllParticipate, IInv, NEW t \in Threads, ArriveLast(t)
  PROVE  /\ Arrived' = {}
         /\ Arrived \cup {t} = Threads
         /\ t \notin Arrived
         /\ Inside' = Inside
<1>1. t \notin Arrived
  BY DEF ArriveLast, Arrived
<1>2. Arrived \cup {t} = Threads
  BY <1>1, LastArrival DEF ArriveLast
<1>3. ASSUME NEW u \in Threads, at'[u] # "out"
      PROVE  sense'[u] = barrier_sense'
  <2>1. u # t /\ u \in Arrived
    BY <1>2, <1>3 DEF ArriveLast
  <2>2. sense[u] # barrier_sense
    BY <2>1 DEF Arrived
  <2> QED
    BY <2>2, FlipFacts DEF ArriveLast, IInv, BarrierTypeOK
<1>4. Arrived' = {}
  BY <1>3 DEF Arrived
<1>5. Inside' = Inside
  BY DEF ArriveLast, Inside, IInv, BarrierTypeOK
<1> QED
  BY <1>1, <1>2, <1>4, <1>5

\* Who waits has arrived, and nobody else has.
LEMMA WaitEffect ==
  ASSUME AllParticipate, IInv, NEW t \in Threads, ArriveEarly(t)
  PROVE  /\ Arrived' = Arrived \cup {t}
         /\ Arrived \cup {t} # Threads
         /\ t \notin Inside
         /\ t \notin Arrived
         /\ Inside' = Inside \cup {t}
<1>1. t \notin Arrived /\ t \notin Inside
  BY DEF ArriveEarly, Arrived, Inside
<1>2. Arrived \cup {t} # Threads
  BY <1>1, LastArrival DEF ArriveEarly
<1>3. /\ at' = [at EXCEPT ![t] = "wait"]
      /\ sense' = [sense EXCEPT ![t] = SenseOf(t)]
      /\ barrier_sense' = barrier_sense
      /\ SenseOf(t) # barrier_sense
  BY NobodyPasses DEF ArriveEarly
<1>4. Arrived' = Arrived \cup {t} /\ Inside' = Inside \cup {t}
  BY <1>3 DEF Arrived, Inside, IInv, BarrierTypeOK
<1> QED
  BY <1>1, <1>2, <1>4

\* Who leaves was not among the arrived any more.
LEMMA LeaveEffect ==
  ASSUME IInv, NEW t \in Threads, Leave(t)
  PROVE  /\ Arrived' = Arrived
         /\ t \in Inside /\ t \notin Arrived
         /\ Inside' = Inside \ {t}
BY DEF Leave, Arrived, Inside, IInv, BarrierTypeOK

\* A wake-up that leads nowhere changes nothing of that.
LEMMA WakeEffect ==
  ASSUME IInv, NEW t \in Threads, SpuriousWakeup(t) \/ WaitAgain(t)
  PROVE  Arrived' = Arrived /\ Inside' = Inside
BY DEF SpuriousWakeup, WaitAgain, Arrived, Inside, IInv, BarrierTypeOK

\* Every step keeps the types.
LEMMA NextType == ASSUME IInv, [BarrierNext]_barrier_vars PROVE BarrierTypeOK'
<1> USE DEF BarrierTypeOK
<1>1. CASE UNCHANGED barrier_vars
  BY <1>1 DEF IInv, barrier_vars
<1>2. ASSUME NEW t \in Threads, Arrive(t) \/ SpuriousWakeup(t) \/ Woken(t)
      PROVE  BarrierTypeOK'
  <2>1. SenseOf(t) \in Senses
    BY FlipFacts DEF IInv, SenseOf
  <2>2. \A s \in Senses : Flip(s) \in Senses
    BY FlipFacts
  <2>3. CASE ArriveLast(t)
    BY <2>1, <2>2, <2>3, BarrierAssumption DEF ArriveLast, Returns, IInv
  <2>4. CASE ArriveEarly(t)
    BY <2>1, <2>4, NobodyPasses, BarrierAssumption DEF ArriveEarly, IInv
  <2>5. CASE SpuriousWakeup(t) \/ WaitAgain(t)
    BY <2>5 DEF SpuriousWakeup, WaitAgain, IInv
  <2>6. CASE Leave(t)
    BY <2>2, <2>6 DEF Leave, Returns, IInv
  <2> QED
    BY <1>2, <2>3, <2>4, <2>5, <2>6 DEF Arrive, Woken
<1> QED
  BY <1>1, <1>2 DEF BarrierNext

\* Every step keeps counter, senses and wait set in agreement.
LEMMA NextEpisode ==
  ASSUME AllParticipate, IInv, [BarrierNext]_barrier_vars
  PROVE  EpisodeInv'
<1> USE DEF EpisodeInv
<1>1. CASE UNCHANGED barrier_vars
  BY <1>1 DEF IInv, barrier_vars, Arrived, SenseOf
<1>2. ASSUME NEW t \in Threads, Arrive(t) \/ SpuriousWakeup(t) \/ Woken(t)
      PROVE  EpisodeInv'
  <2>1. CASE ArriveLast(t)
    <3>1. Arrived' = {} /\ Arrived \cup {t} = Threads
      BY <2>1, LastEffect
    <3>2. remaining' = initial_count - Cardinality(Arrived')
      BY <2>1, <3>1, FS_EmptySet, BarrierAssumption DEF ArriveLast
    <3>3. ASSUME NEW u \in Threads, at'[u] = "out"
          PROVE  SenseOf(u)' = Flip(barrier_sense')
      <4>1. u = t
        BY <2>1, <3>1, <3>3 DEF ArriveLast, Arrived
      <4>2. /\ SenseOf(t) = Flip(barrier_sense)
            /\ barrier_sense \in Senses
        BY <2>1, NobodyPasses DEF ArriveLast, IInv, BarrierTypeOK
      <4>3. thread_sense'[t] = Flip(SenseOf(t)) /\ barrier_sense' = Flip(barrier_sense)
        BY <2>1 DEF ArriveLast, Returns, IInv, BarrierTypeOK
      <4>4. thread_sense'[t] = barrier_sense /\ Flip(barrier_sense') = barrier_sense
        BY <4>2, <4>3, FlipFacts
      <4> QED
        BY <4>1, <4>2, <4>4 DEF SenseOf, Senses, Unknown
    <3>4. \A u \in Threads : at'[u] # "wait"
      BY <2>1 DEF ArriveLast
    <3> QED
      BY <3>2, <3>3, <3>4
  <2>2. CASE ArriveEarly(t)
    <3>1. Arrived' = Arrived \cup {t} /\ t \notin Arrived
      BY <2>2, WaitEffect
    <3>2. Cardinality(Arrived') = Cardinality(Arrived) + 1
      BY <3>1, ArrivedFinite, FS_AddElement
    <3>3. remaining' = initial_count - Cardinality(Arrived')
      BY <2>2, <3>2, ArrivedFinite, BarrierAssumption DEF ArriveEarly, IInv, BarrierTypeOK
    <3>4. \A u \in Threads : at'[u] = "out" => SenseOf(u)' = Flip(barrier_sense')
      BY <2>2, NobodyPasses DEF ArriveEarly, SenseOf, IInv, BarrierTypeOK
    <3>5. \A u \in Threads : at'[u] = "wait" => sense'[u] # barrier_sense'
      BY <2>2, NobodyPasses DEF ArriveEarly, IInv, BarrierTypeOK
    <3> QED
      BY <3>3, <3>4, <3>5
  <2>3. CASE SpuriousWakeup(t) \/ WaitAgain(t)
    <3>1. Arrived' = Arrived
      BY <2>3, WakeEffect
    <3> QED
      BY <2>3, <3>1 DEF SpuriousWakeup, WaitAgain, SenseOf, IInv, BarrierTypeOK
  <2>4. CASE Leave(t)
    <3>1. Arrived' = Arrived
      BY <2>4, LeaveEffect
    <3>2. /\ remaining' = initial_count - Cardinality(Arrived')
          /\ \A u \in Threads : at'[u] = "wait" => sense'[u] # barrier_sense'
      BY <2>4, <3>1 DEF Leave, IInv, BarrierTypeOK
    <3>3. thread_sense'[t] = Flip(barrier_sense) /\ thread_sense'[t] # Unknown
      BY <2>4, FlipFacts DEF Leave, Returns, IInv, BarrierTypeOK, Senses, Unknown
    <3>4. \A u \in Threads : at'[u] = "out" => SenseOf(u)' = Flip(barrier_sense')
      BY <2>4, <3>3 DEF Leave, Returns, SenseOf, IInv, BarrierTypeOK
    <3> QED
      BY <3>2, <3>4
  <2> QED
    BY <1>2, <2>1, <2>2, <2>3, <2>4 DEF Arrive, Woken
<1> QED
  BY <1>1, <1>2 DEF BarrierNext

\* The invariant is inductive.
LEMMA NextInv == ASSUME AllParticipate, IInv, [BarrierNext]_barrier_vars PROVE IInv'
BY NextType, NextEpisode DEF IInv

\* Type correctness: counter, senses and program points keep their ranges.
THEOREM BarrierTypeCorrect ==
  ASSUME AllParticipate
  PROVE  BarrierSpec => []BarrierTypeOK
<1>1. IInv => BarrierTypeOK
  BY DEF IInv
<1> QED
  BY InitInv, NextInv, <1>1, PTL DEF BarrierSpec

\* In every reachable state of await the counter, the senses and the wait set
\* agree: nobody has been counted twice or forgotten, no wake-up is lost.
THEOREM BarrierEpisode ==
  ASSUME AllParticipate
  PROVE  BarrierSpec => []EpisodeInv
<1>1. IInv => EpisodeInv
  BY DEF IInv
<1> QED
  BY InitInv, NextInv, <1>1, PTL DEF BarrierSpec

\* One step of await is one step of the abstract barrier, or none.
LEMMA StepRefines ==
  ASSUME AllParticipate, IInv, [BarrierNext]_barrier_vars
  PROVE  [Abstract!AbsNext]_(Abstract!avars)
<1> USE DEF Abstract!AbsNext, Abstract!avars
<1>1. CASE UNCHANGED barrier_vars
  BY <1>1 DEF barrier_vars, Arrived, Inside
<1>2. ASSUME NEW t \in Threads, Arrive(t) \/ SpuriousWakeup(t) \/ Woken(t)
      PROVE  [Abstract!AbsNext]_(Abstract!avars)
  <2>1. CASE ArriveLast(t)
    <3>1. t \notin Inside
      BY <2>1 DEF ArriveLast, Inside
    <3>2. Abstract!AbsComplete(t)
      BY <2>1, <3>1, LastEffect DEF Abstract!AbsComplete
    <3> QED
      BY <3>2
  <2>2. CASE ArriveEarly(t)
    <3>1. Abstract!AbsEnter(t)
      BY <2>2, WaitEffect DEF Abstract!AbsEnter
    <3> QED
      BY <3>1
  <2>3. CASE SpuriousWakeup(t) \/ WaitAgain(t)
    BY <2>3, WakeEffect
  <2>4. CASE Leave(t)
    <3>1. Abstract!AbsLeave(t)
      BY <2>4, LeaveEffect DEF Abstract!AbsLeave
    <3> QED
      BY <3>1
  <2> QED
    BY <1>2, <2>1, <2>2, <2>3, <2>4 DEF Arrive, Woken
<1> QED
  BY <1>1, <1>2 DEF BarrierNext

\* The sense reversing barrier implements the abstract barrier.
THEOREM BarrierImplements ==
  ASSUME AllParticipate
  PROVE  BarrierSpec => ImplementsBarrier
<1>1. BarrierInit => Abstract!AbsInit
  BY DEF BarrierInit, Abstract!AbsInit, Inside, Arrived
<1> QED
  BY InitInv, NextInv, StepRefines, <1>1, PTL
  DEF BarrierSpec, ImplementsBarrier, Abstract!AbsSpec

--------------------------------------------------------------------------------

\* Tasks below the counter are done or in work, tasks above it are untouched.
Handed ==
  /\ \A i \in TaskIds : i < next_task =>
       executed[i] = 1 \/ \E u \in Callers : step[u] = "work" /\ task_id[u] = i
  /\ \A i \in TaskIds : i >= next_task => executed[i] = 0
  /\ \A t \in Callers : step[t] = "work" => task_id[t] < next_task
  /\ \A t \in Callers : step[t] = "returned" => next_task >= PoolSize

TaskInv == TaskTypeOK /\ Exclusive /\ Handed

\* In the beginning no task has been handed out.
LEMMA TaskInitInv == TaskInit => TaskInv
BY TaskPoolAssumption DEF TaskInit, TaskInv, TaskTypeOK, Exclusive, Handed, TaskIds

\* fetch_add hands out a task that nobody has had.
LEMMA FetchInv ==
  ASSUME TaskInv, NEW t \in Callers, FetchTask(t)
  PROVE  TaskInv'
<1> USE TaskPoolAssumption DEF TaskTypeOK, TaskIds
<1>1. /\ TaskTypeOK /\ Exclusive /\ Handed
      /\ next_task' = next_task + 1
      /\ executed' = executed
      /\ step[t] = "fetch"
      /\ task_id'[t] = next_task
      /\ \A u \in Callers \ {t} : step'[u] = step[u] /\ task_id'[u] = task_id[u]
      /\ step'[t] = IF next_task >= PoolSize THEN "returned" ELSE "work"
  BY DEF TaskInv, FetchTask
<1>2. TaskTypeOK'
  BY DEF TaskInv, FetchTask
<1>3. Exclusive'
  BY <1>1 DEF Exclusive, Handed
<1>4. Handed'
  <2>1. ASSUME NEW i \in TaskIds, i < next_task'
        PROVE  executed'[i] = 1 \/ \E u \in Callers : step'[u] = "work" /\ task_id'[u] = i
    <3>1. CASE i = next_task
      BY <1>1, <3>1
    <3>2. CASE i < next_task
      BY <1>1, <3>2 DEF Handed
    <3> QED
      BY <1>1, <2>1, <3>1, <3>2
  <2>2. \A i \in TaskIds : i >= next_task' => executed'[i] = 0
    BY <1>1 DEF Handed
  <2>3. \A u \in Callers : step'[u] = "work" => task_id'[u] < next_task'
    BY <1>1 DEF Handed
  <2>4. \A u \in Callers : step'[u] = "returned" => next_task' >= PoolSize
    BY <1>1 DEF Handed
  <2> QED
    BY <2>1, <2>2, <2>3, <2>4 DEF Handed
<1> QED
  BY <1>2, <1>3, <1>4 DEF TaskInv

\* A task that is executed is done and in nobody's hands.
LEMMA ExecuteInv ==
  ASSUME TaskInv, NEW t \in Callers, ExecuteTask(t)
  PROVE  TaskInv'
<1> USE TaskPoolAssumption DEF TaskTypeOK, TaskIds
<1> DEFINE k == task_id[t]
<1>1. /\ TaskTypeOK /\ Exclusive /\ Handed
      /\ next_task' = next_task /\ task_id' = task_id
      /\ step[t] = "work" /\ step'[t] = "fetch"
      /\ \A u \in Callers \ {t} : step'[u] = step[u]
  BY DEF TaskInv, ExecuteTask
<1>2. k \in TaskIds /\ executed[k] = 0 /\ k < next_task
  BY <1>1 DEF Exclusive, Handed
<1>3. executed'[k] = 1 /\ \A i \in TaskIds \ {k} : executed'[i] = executed[i]
  BY <1>1, <1>2 DEF ExecuteTask
<1>4. TaskTypeOK'
  BY <1>1, <1>2 DEF ExecuteTask
<1>5. Exclusive'
  BY <1>1, <1>2, <1>3 DEF Exclusive
<1>6. Handed'
  BY <1>1, <1>2, <1>3 DEF Handed
<1> QED
  BY <1>4, <1>5, <1>6 DEF TaskInv

\* The invariant is inductive.
LEMMA TaskNextInv == TaskInv /\ [TaskNext]_task_vars => TaskInv'
<1>1. TaskInv /\ UNCHANGED task_vars => TaskInv'
  BY DEF TaskInv, TaskTypeOK, Exclusive, Handed, task_vars
<1> QED
  BY <1>1, FetchInv, ExecuteInv DEF TaskNext

\* It holds in every reachable state.
LEMMA TaskInvariant == TaskSpec => []TaskInv
BY TaskInitInv, TaskNextInv, PTL DEF TaskSpec

\* No task is executed twice or by two threads at a time.
THEOREM TasksExclusive == TaskSpec => []Exclusive
<1>1. TaskInv => Exclusive
  BY DEF TaskInv
<1> QED
  BY TaskInvariant, <1>1, PTL

\* A caller that returns leaves nothing that is not done or in work.
LEMMA TaskInvComplete == TaskInv => NothingLeft
<1> SUFFICES ASSUME TaskInv, NEW t \in Callers, step[t] = "returned",
                    NEW i \in TaskIds
             PROVE  executed[i] = 1 \/ \E u \in Callers : step[u] = "work" /\ task_id[u] = i
  BY DEF NothingLeft
<1>1. i < next_task
  BY TaskPoolAssumption DEF TaskInv, Handed, TaskTypeOK, TaskIds
<1> QED
  BY <1>1 DEF TaskInv, Handed

\* When a caller returns, every task is done or in the hands of another caller.
THEOREM TasksComplete == TaskSpec => []NothingLeft
BY TaskInvariant, TaskInvComplete, PTL

--------------------------------------------------------------------------------
\* A thread on its way into the next episode of the barrier, or waiting for it.
Coming(t) == pc[t] = "await" \/ t \in Arrived
GuestComing == \E g \in Guests : Coming(g)

\* A thread that has an episode behind it and not yet finished what it is for; the
\* guest of launch has nothing to do.
Working(t) ==
  \/ pc[t] \in {"read", "task", "finish"}
  \/ pc[t] = "blocked" /\ t \notin Arrived /\ call[t] # "launch"

\* Those whose fetch_sub is still to come: the whole crew while the guest is on its
\* way, and then those who are at work.
Owing == IF GuestComing THEN Crew ELSE {t \in Threads : Working(t)}

PoolTypeOK ==
  /\ started \in 0 .. MaxTasks /\ current_task \in 0 .. started
  /\ task_remaining \in [Tasks -> Int]
  /\ stop_request \in BOOLEAN /\ alive \in BOOLEAN
  /\ ptask \in [Threads -> 0 .. MaxTasks]
  /\ pc \in [Threads -> {"idle", "await", "blocked", "read", "task", "finish", "spin", "join", "done"}]
  /\ call \in [Threads -> {"none", "run", "launch", "sync", "stop"}]
  /\ ran \in [Threads -> Nat]

\* Where workers and guests may be, and the threads that are in the barrier.
PlacesOK ==
  /\ \A t \in Threads : pc[t] = "blocked" <=> at[t] # "out"
  /\ \A w \in Workers : call[w] = "none" /\ pc[w] \in {"await", "blocked", "read", "task", "finish", "done"}
  /\ \A g \in Guests :
       \/ call[g] = "none" /\ pc[g] = "idle"
       \/ call[g] = "run" /\ pc[g] \in {"await", "blocked", "read", "task", "finish", "spin"}
       \/ call[g] = "launch" /\ pc[g] \in {"await", "blocked"}
       \/ call[g] = "sync" /\ pc[g] = "spin"
       \/ call[g] = "stop" /\ pc[g] \in {"await", "blocked", "read", "join"}

\* What a call of the guest says of task, stop request and pool.
CallsOK ==
  /\ \A g \in Guests :
       /\ stop_request <=> call[g] = "stop"
       /\ call[g] \in {"run", "launch", "sync"} => is_busy
       /\ ~alive => call[g] = "none"
  /\ is_busy => alive /\ ~stop_request
  /\ \A w \in Workers : pc[w] = "done" => stop_request \/ ~alive

\* The guest opens the barrier: while it is on its way, and while the pool rests, the
\* workers are at the barrier.
ComingOK ==
  /\ GuestComing => \A w \in Workers : Coming(w)
  /\ alive /\ ~is_busy /\ ~stop_request => \A w \in Workers : Coming(w)

\* PoolTask::remaining counts the threads that still use the task, and who has not run
\* it yet is at work, or waits for the guest.
Counted ==
  is_busy =>
    /\ task_remaining[current_task] = Cardinality(Owing)
    /\ \A t \in Crew : ran[t] = 0 <=> GuestComing \/ (Working(t) /\ pc[t] # "finish")

\* The task a thread uses is the current one.
TaskHeld ==
  \A t \in Threads :
    pc[t] \in {"task", "finish", "spin"} => ptask[t] = current_task /\ is_busy

\* A pool that is not destroyed while it is busy.
PoolInv == PoolTypeOK /\ PlacesOK /\ CallsOK /\ ComingOK /\ TaskHeld /\ Counted

\* A pool that was: no task any more, and its guest, if still there, is in the destructor.
GivenUp ==
  /\ current_task = NoTask
  /\ pc \in [Threads -> {"idle", "await", "blocked", "read", "task", "finish", "spin", "join", "done"}]
  /\ call \in [Threads -> {"none", "run", "launch", "sync", "stop"}]
  /\ \A w \in Workers : call[w] = "none" /\ pc[w] \notin {"spin", "join"}
  /\ \A g \in Guests :
       \/ alive /\ stop_request /\ call[g] = "stop" /\ pc[g] \in {"await", "blocked", "read", "join"}
       \/ ~alive /\ call[g] = "none" /\ pc[g] = "idle"

PoolAlways == IInv /\ IF abandoned THEN GivenUp ELSE PoolInv

\* There is one guest, and it makes the barrier complete.
LEMMA OneGuest ==
  ASSUME AllParticipate
  PROVE  \E g \in Guests : Guests = {g}
<1> DEFINE W == Workers
           G == Guests
<1>1. IsFiniteSet(W) /\ IsFiniteSet(G) /\ Threads = W \cup G
  <2>1. W \in SUBSET Threads /\ G \in SUBSET Threads
    BY PoolAssumption
  <2> QED BY <2>1, BarrierAssumption, PoolAssumption, FS_Subset
<1>2. W \cap G = {} /\ Cardinality(W \cap G) = 0
  BY PoolAssumption, FS_EmptySet
<1>3. /\ Cardinality(W) \in Nat /\ Cardinality(G) \in Nat
      /\ Cardinality(Threads) = Cardinality(W) + Cardinality(G)
  <2> HIDE DEF W, G
  <2>1. Cardinality(W \cup G) = Cardinality(W) + Cardinality(G) - Cardinality(W \cap G)
    BY <1>1, FS_Union
  <2>2. Cardinality(W) \in Nat /\ Cardinality(G) \in Nat
    BY <1>1, FS_CardinalityType
  <2> QED BY <1>1, <1>2, <2>1, <2>2
<1>4. Cardinality(G) = 1
  <2>1. Cardinality(Threads) = initial_count
    BY DEF AllParticipate
  <2>2. initial_count = Cardinality(W) + 1
    BY PoolAssumption
  <2> HIDE DEF W, G
  <2> QED BY <1>3, <2>1, <2>2
<1> QED BY <1>1, <1>4, FS_Singleton

\* Cardinalities of crews.
LEMMA CrewSizes ==
  ASSUME AllParticipate
  PROVE  /\ Cardinality(Threads) = Cardinality(Workers) + 1 /\ Cardinality(Workers) \in Nat
         /\ Owing \subseteq Threads /\ IsFiniteSet(Owing) /\ Cardinality(Owing) \in Nat
<1>1. Owing \in SUBSET Threads /\ Workers \in SUBSET Threads
  BY PoolAssumption DEF Owing, Crew
<1> QED BY <1>1, BarrierAssumption, PoolAssumption, FS_Subset, FS_CardinalityType DEF AllParticipate

\* What all steps rest on: the guest, and the types of the places.
LEMMA PoolFacts ==
  ASSUME AllParticipate, PoolInv, NEW g \in Guests
  PROVE  /\ Guests = {g} /\ Threads = Workers \cup {g} /\ g \notin Workers
         /\ \A t \in Threads : t \in Workers \/ t = g
         /\ GuestComing <=> Coming(g)
         /\ \A t \in Threads : t \in Arrived => pc[t] = "blocked"
<1>1. Guests = {g}
  BY OneGuest
<1>2. \A t \in Threads : t \in Arrived => pc[t] = "blocked"
  BY DEF PoolInv, PlacesOK, Arrived
<1> QED BY <1>1, <1>2, PoolAssumption DEF GuestComing

\* Nobody who is coming is at work.
LEMMA ComingNotWorking ==
  ASSUME AllParticipate, PoolInv, NEW t \in Threads, Coming(t)
  PROVE  ~Working(t) /\ pc[t] \in {"await", "blocked"}
<1>1. t \in Arrived => pc[t] = "blocked"
  BY DEF PoolInv, PlacesOK, Arrived
<1> QED BY <1>1 DEF Coming, Working

\* The constructor.
LEMMA PoolStarts == ASSUME AllParticipate, Init PROVE PoolInv
<1> USE PoolAssumption
<1>1. PICK g \in Guests : Guests = {g}
  BY OneGuest
<1>2. /\ barrier_sense = 0 /\ at = [t \in Threads |-> "out"] /\ Arrived = {}
  BY DEF Init, BarrierInit, Arrived
<1>3. PoolTypeOK
  <2>1. /\ started = 0 /\ current_task = 0 /\ 0 \in 0 .. MaxTasks /\ 0 \in 0 .. 0
        /\ task_remaining = [k \in Tasks |-> 0] /\ ptask = [t \in Threads |-> 0]
        /\ stop_request = FALSE /\ alive = TRUE
    BY DEF Init, NoTask
  <2>2. pc \in [Threads -> {"await", "idle"}] /\ call = [t \in Threads |-> "none"] /\ ran = [t \in Threads |-> 0]
    BY DEF Init
  <2>3. stop_request \in BOOLEAN /\ alive \in BOOLEAN
    BY <2>1
  <2>4. started \in 0 .. MaxTasks /\ current_task \in 0 .. started
    BY <2>1
  <2>5. task_remaining \in [Tasks -> Int] /\ ptask \in [Threads -> 0 .. MaxTasks] /\ ran \in [Threads -> Nat]
    BY <2>1, <2>2
  <2> QED BY <2>2, <2>3, <2>4, <2>5 DEF PoolTypeOK
<1>4. PlacesOK
  BY <1>2 DEF Init, PlacesOK
<1>5. CallsOK
  BY DEF Init, CallsOK, is_busy
<1>6. ComingOK
  BY DEF Init, ComingOK, Coming
<1>7. TaskHeld
  BY DEF Init, TaskHeld
<1>8. Counted
  BY DEF Init, Counted, is_busy
<1> QED BY <1>3, <1>4, <1>5, <1>6, <1>7, <1>8 DEF PoolInv

\* run, launch and the destructor of an idle pool are called while all workers are at the
\* barrier.
LEMMA StartKeeps ==
  ASSUME AllParticipate, PoolInv, NEW g \in Guests,
         Run(g) \/ Launch(g) \/ (Destroy(g) /\ ~is_busy)
  PROVE  PoolInv'
<1>1. /\ alive /\ pc[g] = "idle" /\ ~is_busy
      /\ pc' = [pc EXCEPT ![g] = "await"]
      /\ UNCHANGED <<barrier_vars, ptask, alive>>
  BY DEF Run, Launch, Destroy, Enter, MayCall, Goto
<1>2. /\ PoolTypeOK /\ PlacesOK /\ CallsOK /\ ComingOK /\ TaskHeld
      /\ Guests = {g} /\ Threads = Workers \cup {g} /\ g \notin Workers /\ g \in Threads
  BY PoolFacts, PoolAssumption DEF PoolInv
<1>3. call[g] = "none" /\ ~stop_request
  BY <1>1, <1>2 DEF PlacesOK, CallsOK
<1>4. /\ call' = [call EXCEPT ![g] = IF Run(g) THEN "run" ELSE IF Launch(g) THEN "launch" ELSE "stop"]
      /\ Run(g) => call'[g] = "run" /\ ~stop_request'
      /\ Launch(g) => call'[g] = "launch" /\ ~stop_request'
      /\ Destroy(g) => call'[g] = "stop" /\ stop_request' /\ current_task' = NoTask
      /\ stop_request' \in BOOLEAN
  <2>1. CASE Run(g)
    BY <1>2, <1>3, <2>1 DEF Run, Launch, Destroy, Enter, PoolTypeOK
  <2>2. CASE Launch(g)
    BY <1>2, <1>3, <2>2 DEF Run, Launch, Destroy, Enter, PoolTypeOK
  <2>3. CASE Destroy(g)
    BY <1>2, <1>3, <2>3 DEF Run, Launch, Destroy, Enter, PoolTypeOK
  <2> QED BY <2>1, <2>2, <2>3
<1>5. /\ pc'[g] = "await" /\ \A t \in Threads \ {g} : pc'[t] = pc[t] /\ call'[t] = call[t]
      /\ call'[g] \in {"run", "launch", "stop"}
  BY <1>1, <1>2, <1>4 DEF PoolTypeOK
<1>6. Run(g) \/ Launch(g) =>
        /\ started < MaxTasks /\ started' = started + 1 /\ current_task' = started + 1 /\ ~stop_request'
        /\ task_remaining' = [task_remaining EXCEPT ![started + 1] = Cardinality(Crew')]
        /\ Cardinality(Crew') \in Nat
        /\ ran' = [t \in Threads |-> 0]
  <2>1. CASE Run(g)
    <3>1. Crew' = Threads
      BY <1>2, <1>4, <2>1 DEF Crew
    <3> QED BY <2>1, <1>4, <3>1, CrewSizes DEF Run, MakeTask
  <2>2. CASE Launch(g)
    <3>1. Crew' = Workers
      BY <1>2, <1>4, <2>2 DEF Crew
    <3> QED BY <2>2, <1>4, <3>1, CrewSizes DEF Launch, MakeTask
  <2> QED BY <2>1, <2>2
<1>7. Arrived' = Arrived
  BY <1>1 DEF barrier_vars, Arrived
<1>8. GuestComing' /\ \A w \in Workers : Coming(w)'
  BY <1>1, <1>2, <1>3, <1>5, <1>7 DEF ComingOK, GuestComing, Coming
<1>9. PoolTypeOK'
  <2>1. CASE Run(g) \/ Launch(g)
    <3>1. started' \in 0 .. MaxTasks /\ current_task' \in 0 .. started'
      BY <1>2, <1>6, <2>1, PoolAssumption DEF PoolTypeOK
    <3>2. task_remaining' \in [Tasks -> Int] /\ ran' \in [Threads -> Nat]
      BY <1>2, <1>6, <2>1 DEF PoolTypeOK
    <3> QED BY <1>1, <1>2, <1>4, <3>1, <3>2 DEF PoolTypeOK
  <2>2. CASE Destroy(g)
    BY <1>1, <1>2, <1>4, <2>2 DEF PoolTypeOK, Destroy, NoTask
  <2> QED BY <2>1, <2>2
<1>10. PlacesOK'
  BY <1>1, <1>2, <1>5 DEF PlacesOK, barrier_vars
<1>11. CallsOK'
  <2>1. CASE Run(g) \/ Launch(g)
    <3>1. is_busy'
      BY <1>2, <1>6, <2>1 DEF is_busy, NoTask, PoolTypeOK
    <3> QED BY <1>1, <1>2, <1>3, <1>4, <1>5, <1>6, <2>1, <3>1 DEF CallsOK
  <2>2. CASE Destroy(g)
    BY <1>1, <1>2, <1>3, <1>4, <1>5, <2>2 DEF CallsOK, is_busy
  <2> QED BY <2>1, <2>2
<1>12. ComingOK'
  BY <1>8 DEF ComingOK
<1>13. TaskHeld'
  BY <1>1, <1>2, <1>5 DEF TaskHeld
<1>14. Counted'
  <2>1. SUFFICES ASSUME is_busy' PROVE /\ task_remaining'[current_task'] = Cardinality(Owing')
                                       /\ \A t \in Crew' : ran'[t] = 0
    BY <1>8 DEF Counted
  <2>2. Run(g) \/ Launch(g)
    BY <1>4, <2>1 DEF is_busy
  <2>3. Owing' = Crew' /\ Crew' \subseteq Threads
    BY <1>2, <1>8 DEF Owing, Crew
  <2>4. started + 1 \in Tasks
    BY <1>2, <1>6, <2>2, PoolAssumption DEF PoolTypeOK, Tasks
  <2>5. task_remaining'[current_task'] = Cardinality(Crew')
    BY <1>2, <1>6, <2>2, <2>4 DEF PoolTypeOK
  <2>6. \A t \in Crew' : ran'[t] = 0
    BY <1>6, <2>2, <2>3
  <2> QED BY <2>3, <2>5, <2>6
<1> QED BY <1>9, <1>10, <1>11, <1>12, <1>13, <1>14 DEF PoolInv

\* A step after which the same threads are coming and at work.
LEMMA SameWork ==
  ASSUME PoolInv, Crew' = Crew,
         UNCHANGED <<current_task, task_remaining, stop_request, alive, ran>>,
         \A u \in Threads : /\ Coming(u)' <=> Coming(u)
                            /\ Working(u)' <=> Working(u)
                            /\ pc'[u] = "finish" <=> pc[u] = "finish"
  PROVE  ComingOK' /\ Counted'
<1>1. Guests \subseteq Threads /\ Workers \subseteq Threads /\ Crew \subseteq Threads
  BY PoolAssumption DEF Crew
<1>2. GuestComing' <=> GuestComing
  BY <1>1 DEF GuestComing
<1>3. ComingOK'
  BY <1>1, <1>2 DEF PoolInv, ComingOK, is_busy
<1>4. Owing' = Owing
  BY <1>2 DEF Owing
<1>5. Counted'
  BY <1>1, <1>2, <1>4 DEF PoolInv, Counted, is_busy
<1> QED BY <1>3, <1>5

\* A step that only wakes a thread, or none.
LEMMA StayKeeps ==
  ASSUME PoolInv, UNCHANGED pool_vars, Arrived' = Arrived,
         \A t \in Threads : at'[t] # "out" <=> at[t] # "out"
  PROVE  PoolInv'
<1>1. /\ \A u \in Threads : Coming(u)' = Coming(u) /\ Working(u)' = Working(u)
      /\ Crew' = Crew /\ pc' = pc
  BY DEF pool_vars, Coming, Working, Crew
<1>2. ComingOK' /\ Counted'
  BY <1>1, SameWork DEF pool_vars
<1>3. PoolTypeOK' /\ PlacesOK' /\ CallsOK' /\ TaskHeld'
  BY DEF PoolInv, pool_vars, PoolTypeOK, PlacesOK, CallsOK, TaskHeld, is_busy
<1> QED BY <1>2, <1>3 DEF PoolInv

\* sync takes the task that was launched.
LEMMA SyncKeeps ==
  ASSUME AllParticipate, PoolInv, NEW g \in Guests, Sync(g)
  PROVE  PoolInv'
<1>1. /\ alive /\ pc[g] = "idle" /\ is_busy
      /\ pc' = [pc EXCEPT ![g] = "spin"] /\ call' = [call EXCEPT ![g] = "sync"]
      /\ ptask' = [ptask EXCEPT ![g] = current_task]
      /\ UNCHANGED <<barrier_vars, current_task, task_remaining, stop_request, alive, started, ran>>
  BY DEF Sync, Enter, MayCall, Goto
<1>2. /\ PoolTypeOK /\ PlacesOK /\ CallsOK /\ TaskHeld
      /\ Guests = {g} /\ Threads = Workers \cup {g} /\ g \notin Workers /\ g \in Threads
  BY PoolFacts, PoolAssumption DEF PoolInv
<1>3. call[g] = "none" /\ Arrived' = Arrived /\ g \notin Arrived
  BY <1>1, <1>2 DEF PlacesOK, barrier_vars, Arrived
<1>4. /\ pc'[g] = "spin" /\ call'[g] = "sync" /\ ptask'[g] = current_task
      /\ \A t \in Threads \ {g} : pc'[t] = pc[t] /\ call'[t] = call[t] /\ ptask'[t] = ptask[t]
  BY <1>1, <1>2 DEF PoolTypeOK
<1>5. \A u \in Threads : /\ Coming(u)' <=> Coming(u)
                         /\ Working(u)' <=> Working(u)
                         /\ pc'[u] = "finish" <=> pc[u] = "finish"
  BY <1>1, <1>3, <1>4 DEF Coming, Working
<1>6. Crew' = Crew
  BY <1>2, <1>3, <1>4 DEF Crew
<1>7. ComingOK' /\ Counted'
  BY <1>1, <1>5, <1>6, SameWork
<1>8. PoolTypeOK'
  BY <1>1, <1>2, PoolAssumption DEF PoolTypeOK
<1>9. PlacesOK'
  BY <1>1, <1>2, <1>3, <1>4 DEF PlacesOK, barrier_vars
<1>10. CallsOK'
  BY <1>1, <1>2, <1>3, <1>4 DEF CallsOK, is_busy
<1>11. TaskHeld'
  BY <1>1, <1>2, <1>4 DEF TaskHeld, is_busy
<1> QED BY <1>7, <1>8, <1>9, <1>10, <1>11 DEF PoolInv

\* The last arrival ends the way of all to the barrier: the crew has work to do.
LEMMA LastKeeps ==
  ASSUME AllParticipate, IInv, PoolInv, NEW t \in Threads, Await(t), ArriveLast(t)
  PROVE  PoolInv'
<1>1. PICK g \in Guests : Guests = {g}
  BY OneGuest
<1>2. /\ PoolTypeOK /\ PlacesOK /\ CallsOK /\ ComingOK /\ TaskHeld /\ Counted
      /\ Threads = Workers \cup {g} /\ g \notin Workers /\ g \in Threads
  BY <1>1, PoolFacts, PoolAssumption DEF PoolInv
<1>3. Arrived' = {} /\ Arrived \cup {t} = Threads /\ t \notin Arrived
  BY LastEffect
<1>4. /\ pc[t] = "await" /\ at[t] = "out" /\ at'[t] = "out"
      /\ \A u \in Threads : at'[u] # "out" <=> at[u] # "out"
  BY DEF Await, ArriveLast
<1>5. /\ pc' = [pc EXCEPT ![t] = IF call[t] = "launch" THEN "idle" ELSE "read"]
      /\ call' = [call EXCEPT ![t] = IF call[t] = "launch" THEN "none" ELSE call[t]]
      /\ UNCHANGED <<current_task, task_remaining, stop_request, ptask, alive, started, ran>>
  BY <1>2, <1>4 DEF Await, PassBarrier, AfterAwait, Goto, PoolTypeOK
<1>6. /\ pc'[t] = IF call[t] = "launch" THEN "idle" ELSE "read"
      /\ call'[t] = IF call[t] = "launch" THEN "none" ELSE call[t]
      /\ \A u \in Threads \ {t} : pc'[u] = pc[u] /\ call'[u] = call[u] /\ pc[u] = "blocked"
  BY <1>1, <1>2, <1>3, <1>5, PoolFacts DEF PoolTypeOK
<1>7. GuestComing
  BY <1>1, <1>2, <1>3, <1>4 DEF GuestComing, Coming
<1>8. \A u \in Threads : ~Coming(u)'
  BY <1>3, <1>6 DEF Coming
<1>9. \A u \in Threads : Working(u)' <=> call[u] # "launch"
  BY <1>3, <1>6 DEF Working
<1>10. ~GuestComing'
  BY <1>1, <1>2, <1>8 DEF GuestComing
<1>11. call[g] \in {"run", "launch", "stop"} /\ (is_busy => call[g] # "stop") /\ (~is_busy => stop_request)
  <2>1. pc[g] \in {"await", "blocked"}
    BY <1>2, <1>4, <1>6
  <2>2. call[g] \in {"run", "launch", "stop"}
    BY <1>1, <2>1, <1>2 DEF PlacesOK
  <2> QED BY <1>1, <2>2, <1>2 DEF CallsOK
<1>12. Crew' = Crew
  BY <1>1, <1>2, <1>6 DEF Crew, PlacesOK
<1>13. PoolTypeOK'
  BY <1>2, <1>5 DEF PoolTypeOK
<1>14. PlacesOK'
  BY <1>1, <1>2, <1>4, <1>6, <1>11 DEF PlacesOK
<1>15. CallsOK'
  BY <1>1, <1>2, <1>5, <1>6 DEF CallsOK, PlacesOK, is_busy
<1>16. ComingOK'
  BY <1>5, <1>10, <1>11 DEF ComingOK, is_busy
<1>17. TaskHeld'
  BY <1>6 DEF TaskHeld
<1>18. Counted'
  <2> SUFFICES ASSUME is_busy
               PROVE  /\ Owing' = Owing
                      /\ \A u \in Crew : ran[u] = 0 /\ Working(u)' /\ pc'[u] # "finish"
    BY <1>2, <1>5, <1>7, <1>10, <1>12 DEF Counted, is_busy
  <2>1. Crew = {u \in Threads : call[u] # "launch"}
    BY <1>1, <1>2, <1>11 DEF Crew, PlacesOK
  <2>2. Owing = Crew /\ Owing' = Crew
    BY <1>7, <1>9, <1>10, <2>1 DEF Owing
  <2> QED BY <1>2, <1>6, <1>7, <1>9, <2>1, <2>2 DEF Counted
<1> QED BY <1>13, <1>14, <1>15, <1>16, <1>17, <1>18 DEF PoolInv

\* Who waits is still on its way.
LEMMA EarlyKeeps ==
  ASSUME AllParticipate, IInv, PoolInv, NEW t \in Threads, Await(t), ArriveEarly(t)
  PROVE  PoolInv'
<1>1. PoolTypeOK /\ PlacesOK /\ CallsOK /\ TaskHeld
  BY DEF PoolInv
<1>2. Arrived' = Arrived \cup {t} /\ t \notin Arrived
  BY WaitEffect
<1>3. /\ pc[t] = "await" /\ at[t] = "out" /\ at' = [at EXCEPT ![t] = "wait"]
  BY NobodyPasses DEF Await, ArriveEarly
<1>4. /\ at'[t] = "wait" /\ \A u \in Threads \ {t} : at'[u] = at[u]
  BY <1>3 DEF IInv, BarrierTypeOK
<1>5. /\ pc' = [pc EXCEPT ![t] = "blocked"]
      /\ UNCHANGED <<call, current_task, task_remaining, stop_request, ptask, alive, started, ran>>
  BY <1>4 DEF Await, Goto
<1>6. pc'[t] = "blocked" /\ \A u \in Threads \ {t} : pc'[u] = pc[u]
  BY <1>1, <1>5 DEF PoolTypeOK
<1>7. \A u \in Threads : /\ Coming(u)' <=> Coming(u)
                         /\ Working(u)' <=> Working(u)
                         /\ pc'[u] = "finish" <=> pc[u] = "finish"
  BY <1>2, <1>3, <1>5, <1>6 DEF Coming, Working
<1>8. ComingOK' /\ Counted'
  BY <1>5, <1>7, SameWork DEF Crew
<1>9. PoolTypeOK'
  BY <1>1, <1>5 DEF PoolTypeOK
<1>10. PlacesOK'
  <2>1. \A u \in Threads : (pc[u] = "blocked" <=> at[u] # "out")'
    BY <1>1, <1>4, <1>6 DEF PlacesOK
  <2>2. (\A w \in Workers : call[w]="none" /\ pc[w] \in {"await", "blocked", "read", "task", "finish", "done"})'
    BY <1>1, <1>5, <1>6, PoolAssumption DEF PlacesOK
  <2> QED BY <1>1, <1>3, <1>5, <1>6, <2>1, <2>2, PoolAssumption DEF PlacesOK
<1>11. CallsOK'
  BY <1>1, <1>5, <1>6, PoolAssumption DEF CallsOK, is_busy
<1>12. TaskHeld'
  BY <1>1, <1>5, <1>6 DEF TaskHeld, is_busy
<1> QED BY <1>8, <1>9, <1>10, <1>11, <1>12 DEF PoolInv

\* Who leaves the barrier was at work already.
LEMMA LeaveKeeps ==
  ASSUME AllParticipate, IInv, PoolInv, NEW t \in Threads, AwaitLeave(t)
  PROVE  PoolInv'
<1>1. PICK g \in Guests : Guests = {g}
  BY OneGuest
<1>2. /\ PoolTypeOK /\ PlacesOK /\ CallsOK /\ TaskHeld
      /\ Threads = Workers \cup {g} /\ g \notin Workers /\ g \in Threads
  BY <1>1, PoolFacts, PoolAssumption DEF PoolInv
<1>3. Arrived' = Arrived /\ t \notin Arrived
  BY LeaveEffect DEF AwaitLeave
<1>4. /\ pc[t] = "blocked" /\ at' = [at EXCEPT ![t] = "out"]
      /\ pc' = [pc EXCEPT ![t] = IF call[t] = "launch" THEN "idle" ELSE "read"]
      /\ call' = [call EXCEPT ![t] = IF call[t] = "launch" THEN "none" ELSE call[t]]
      /\ UNCHANGED <<current_task, task_remaining, stop_request, ptask, alive, started, ran>>
  BY <1>2 DEF AwaitLeave, Leave, PassBarrier, AfterAwait, Goto, PoolTypeOK
<1>5. /\ pc'[t] = IF call[t] = "launch" THEN "idle" ELSE "read"
      /\ call'[t] = IF call[t] = "launch" THEN "none" ELSE call[t]
      /\ at'[t] = "out"
      /\ \A u \in Threads \ {t} : pc'[u] = pc[u] /\ call'[u] = call[u] /\ at'[u] = at[u]
  BY <1>2, <1>4 DEF PoolTypeOK, IInv, BarrierTypeOK
<1>6. \A u \in Threads : /\ Coming(u)' <=> Coming(u)
                         /\ Working(u)' <=> Working(u)
                         /\ pc'[u] = "finish" <=> pc[u] = "finish"
  BY <1>3, <1>4, <1>5 DEF Coming, Working
<1>7. Crew' = Crew
  BY <1>1, <1>2, <1>5 DEF Crew, PlacesOK
<1>8. ComingOK' /\ Counted'
  BY <1>4, <1>6, <1>7, SameWork
<1>9. PoolTypeOK'
  BY <1>2, <1>4 DEF PoolTypeOK
<1>10. PlacesOK'
  BY <1>1, <1>2, <1>4, <1>5 DEF PlacesOK
<1>11. CallsOK'
  BY <1>1, <1>2, <1>4, <1>5 DEF CallsOK, PlacesOK, is_busy
<1>12. TaskHeld'
  BY <1>2, <1>4, <1>5 DEF TaskHeld, is_busy
<1> QED BY <1>8, <1>9, <1>10, <1>11, <1>12 DEF PoolInv

\* What a thread finds behind the barrier: while the pool rests nobody is there.
LEMMA ReadKeeps ==
  ASSUME AllParticipate, PoolInv, NEW t \in Threads, ReadTask(t)
  PROVE  PoolInv'
<1>1. PICK g \in Guests : Guests = {g}
  BY OneGuest
<1>2. /\ PoolTypeOK /\ PlacesOK /\ CallsOK /\ ComingOK /\ TaskHeld
      /\ Threads = Workers \cup {g} /\ g \notin Workers /\ g \in Threads
  BY <1>1, PoolFacts, PoolAssumption DEF PoolInv
<1>3. /\ pc[t] = "read" /\ ptask' = [ptask EXCEPT ![t] = current_task]
      /\ pc' = [pc EXCEPT ![t] = IF stop_request THEN IF t \in Workers THEN "done" ELSE "join"
                                 ELSE IF is_busy THEN "task"
                                 ELSE IF t \in Workers THEN "await" ELSE "idle"]
      /\ UNCHANGED <<barrier_vars, current_task, task_remaining, stop_request, call, alive, started, ran>>
  BY DEF ReadTask, Goto, is_busy
<1>4. /\ pc'[t] = IF stop_request THEN IF t \in Workers THEN "done" ELSE "join"
                  ELSE IF is_busy THEN "task"
                  ELSE IF t \in Workers THEN "await" ELSE "idle"
      /\ ptask'[t] = current_task
      /\ \A u \in Threads \ {t} : pc'[u] = pc[u] /\ ptask'[u] = ptask[u]
  BY <1>2, <1>3 DEF PoolTypeOK
<1>5. Arrived' = Arrived /\ at' = at /\ Crew' = Crew
  BY <1>3 DEF barrier_vars, Arrived, Crew
<1>6. ~Coming(t) /\ Working(t) /\ t \notin Arrived
  BY <1>3, ComingNotWorking DEF Coming, Working
<1>7. t = g => is_busy \/ stop_request
  BY <1>1, <1>2, <1>3 DEF PlacesOK, CallsOK
<1>8. ~is_busy /\ ~stop_request => ~alive /\ t \in Workers
  BY <1>2, <1>6, <1>7 DEF ComingOK
<1>9. PoolTypeOK'
  <2>1. current_task \in 0 .. MaxTasks
    BY <1>2, PoolAssumption DEF PoolTypeOK
  <2> QED BY <1>2, <1>3, <2>1 DEF PoolTypeOK
<1>10. PlacesOK'
  BY <1>1, <1>2, <1>3, <1>4, <1>5, <1>7 DEF PlacesOK, CallsOK
<1>11. CallsOK'
  BY <1>1, <1>2, <1>3, <1>4, <1>5 DEF CallsOK, is_busy
<1>12. TaskHeld'
  BY <1>2, <1>3, <1>4 DEF TaskHeld, CallsOK, is_busy
<1>13. ComingOK' /\ Counted'
  <2>1. CASE is_busy
    <3>1. pc'[t] = "task"
      BY <1>2, <1>4, <2>1 DEF CallsOK
    <3>2. \A u \in Threads : /\ Coming(u)' <=> Coming(u)
                             /\ Working(u)' <=> Working(u)
                             /\ pc'[u] = "finish" <=> pc[u] = "finish"
      BY <1>3, <1>4, <1>5, <3>1 DEF Coming, Working
    <3> QED BY <1>3, <1>5, <3>2, SameWork
  <2>2. CASE ~is_busy
    <3>1. Counted'
      BY <1>3, <2>2 DEF Counted, is_busy
    <3>2. ASSUME GuestComing' PROVE FALSE
      <4>1. Coming(g)' /\ pc'[g] \in {"await", "blocked"}
        BY <1>1, <1>2, <1>5, <1>10, <3>2 DEF GuestComing, Coming, PlacesOK, Arrived
      <4>2. g # t
        BY <1>2, <1>4, <1>7, <2>2, <4>1
      <4>3. Coming(g)
        BY <1>2, <1>4, <1>5, <4>1, <4>2 DEF Coming
      <4>4. \A w \in Workers : Coming(w)
        BY <1>1, <1>2, <4>3 DEF ComingOK, GuestComing
      <4> QED BY <1>2, <1>6, <4>2, <4>4
    <3>3. ~(alive /\ ~is_busy /\ ~stop_request)
      BY <1>8
    <3> QED BY <1>3, <3>1, <3>2, <3>3 DEF ComingOK, is_busy
  <2> QED BY <2>1, <2>2
<1> QED BY <1>9, <1>10, <1>11, <1>12, <1>13 DEF PoolInv

\* While a thread is at work the guest is not on its way.
LEMMA NoGuestComing ==
  ASSUME AllParticipate, PoolInv, NEW t \in Threads, pc[t] \in {"task", "finish"}
  PROVE  ~GuestComing /\ Working(t) /\ ~Coming(t) /\ t \in Crew /\ is_busy /\ alive /\ ~stop_request
<1>1. PICK g \in Guests : Guests = {g} /\ Threads = Workers \cup {g} /\ g \in Threads
  BY OneGuest, PoolAssumption
<1>2. Working(t) /\ ~Coming(t)
  BY ComingNotWorking DEF Working
<1>3. ~GuestComing
  BY <1>1, <1>2 DEF PoolInv, ComingOK, GuestComing
<1>4. t \in Crew
  BY <1>1 DEF PoolInv, PlacesOK, Crew
<1>5. is_busy /\ alive /\ ~stop_request
  BY DEF PoolInv, TaskHeld, CallsOK
<1> QED BY <1>2, <1>3, <1>4, <1>5

\* The task is run.
LEMMA RunTaskKeeps ==
  ASSUME AllParticipate, PoolInv, NEW t \in Threads, RunTask(t)
  PROVE  PoolInv'
<1>1. PoolTypeOK /\ PlacesOK /\ CallsOK /\ ComingOK /\ TaskHeld /\ Counted
  BY DEF PoolInv
<1>2. /\ pc[t] = "task" /\ pc' = [pc EXCEPT ![t] = "finish"] /\ ran' = [ran EXCEPT ![t] = @ + 1]
      /\ UNCHANGED <<barrier_vars, current_task, task_remaining, stop_request, ptask, call, alive, started>>
  BY DEF RunTask, Goto
<1>3. /\ pc'[t] = "finish" /\ \A u \in Threads \ {t} : pc'[u] = pc[u] /\ ran'[u] = ran[u]
      /\ ran'[t] # 0 /\ ran' \in [Threads -> Nat]
  BY <1>1, <1>2 DEF PoolTypeOK
<1>4. Arrived' = Arrived /\ at' = at /\ Crew' = Crew
  BY <1>2 DEF barrier_vars, Arrived, Crew
<1>5. ~GuestComing /\ t \in Crew /\ Crew \subseteq Threads /\ Guests \subseteq Threads /\ Workers \subseteq Threads
  BY <1>2, NoGuestComing, PoolAssumption DEF Crew
<1>6. \A u \in Threads : (Coming(u)' <=> Coming(u)) /\ (Working(u)' <=> Working(u))
  BY <1>2, <1>3, <1>4 DEF Coming, Working
<1>7. ~GuestComing' /\ Owing' = Owing
  BY <1>5, <1>6 DEF GuestComing, Owing
<1>8. PoolTypeOK'
  BY <1>1, <1>2, <1>3 DEF PoolTypeOK
<1>9. PlacesOK'
  BY <1>1, <1>2, <1>3, <1>4, <1>5, PoolAssumption DEF PlacesOK
<1>10. CallsOK'
  BY <1>1, <1>2, <1>3, <1>5 DEF CallsOK, is_busy
<1>11. TaskHeld'
  BY <1>1, <1>2, <1>3 DEF TaskHeld, is_busy
<1>12. ComingOK'
  BY <1>1, <1>2, <1>5, <1>6, <1>7 DEF ComingOK, is_busy
<1>13. Counted'
  BY <1>1, <1>2, <1>3, <1>4, <1>5, <1>6, <1>7 DEF Counted, is_busy
<1> QED BY <1>8, <1>9, <1>10, <1>11, <1>12, <1>13 DEF PoolInv

\* fetch_sub takes the thread off those who owe it.
LEMMA FinishKeeps ==
  ASSUME AllParticipate, PoolInv, NEW t \in Threads, FinishTask(t)
  PROVE  PoolInv'
<1>1. /\ PoolTypeOK /\ PlacesOK /\ CallsOK /\ ComingOK /\ TaskHeld /\ Counted
      /\ Crew \subseteq Threads /\ Guests \subseteq Threads /\ Workers \subseteq Threads
      /\ Workers \cap Guests = {} /\ Threads = Workers \cup Guests
  BY PoolAssumption DEF PoolInv, Crew
<1>2. /\ pc[t] = "finish" /\ pc' = [pc EXCEPT ![t] = IF t \in Workers THEN "await" ELSE "spin"]
      /\ task_remaining' = [task_remaining EXCEPT ![ptask[t]] = @ - 1]
      /\ UNCHANGED <<barrier_vars, current_task, stop_request, ptask, call, alive, started, ran>>
  BY DEF FinishTask, Goto
<1>3. /\ pc'[t] = IF t \in Workers THEN "await" ELSE "spin"
      /\ \A u \in Threads \ {t} : pc'[u] = pc[u]
  BY <1>1, <1>2 DEF PoolTypeOK
<1>4. Arrived' = Arrived /\ at' = at /\ Crew' = Crew
  BY <1>2 DEF barrier_vars, Arrived, Crew
<1>5. ~GuestComing /\ Working(t) /\ ~Coming(t) /\ t \in Crew /\ is_busy /\ alive /\ ~stop_request
  BY <1>2, NoGuestComing
<1>6. t \notin Arrived /\ ptask[t] = current_task
  BY <1>1, <1>2, <1>5 DEF Coming, TaskHeld
<1>7. /\ \A u \in Threads \ {t} : (Coming(u)' <=> Coming(u)) /\ (Working(u)' <=> Working(u))
      /\ ~Working(t)' /\ (t \notin Workers => ~Coming(t)')
  BY <1>2, <1>3, <1>4, <1>6 DEF Coming, Working
<1>8. ~GuestComing'
  BY <1>1, <1>5, <1>7 DEF GuestComing
<1>9. PoolTypeOK'
  <2>1. task_remaining' \in [Tasks -> Int]
    <3>1. ptask[t] \in Tasks
      BY <1>1, <1>5, <1>6, PoolAssumption DEF PoolTypeOK, is_busy, NoTask, Tasks
    <3>2. task_remaining[ptask[t]] - 1 \in Int
      BY <1>1, <3>1 DEF PoolTypeOK
    <3> QED BY <1>1, <1>2, <3>1, <3>2 DEF PoolTypeOK
  <2> QED BY <1>1, <1>2, <2>1 DEF PoolTypeOK
<1>10. PlacesOK'
  BY <1>1, <1>2, <1>3, <1>4 DEF PlacesOK
<1>11. CallsOK'
  BY <1>1, <1>2, <1>3 DEF CallsOK, is_busy
<1>12. TaskHeld'
  BY <1>1, <1>2, <1>3, <1>5, <1>6 DEF TaskHeld, is_busy
<1>13. ComingOK'
  BY <1>2, <1>5, <1>8 DEF ComingOK, is_busy
<1>14. Counted'
  <2>1. Owing' = Owing \ {t} /\ t \in Owing
    BY <1>5, <1>7, <1>8 DEF Owing
  <2>2. Cardinality(Owing \ {t}) = Cardinality(Owing) - 1
    BY <2>1, CrewSizes, FS_RemoveElement
  <2>3. current_task \in Tasks
    BY <1>1, <1>5, PoolAssumption DEF PoolTypeOK, is_busy, NoTask, Tasks
  <2>4. task_remaining'[current_task] = task_remaining[current_task] - 1
    BY <1>1, <1>2, <1>6, <2>3 DEF PoolTypeOK
  <2>5. task_remaining'[current_task'] = Cardinality(Owing')
    BY <1>1, <1>2, <1>5, <2>1, <2>2, <2>4 DEF Counted
  <2>6. \A u \in Crew' : ran'[u] = 0 <=> GuestComing' \/ (Working(u)' /\ pc'[u] # "finish")
    BY <1>1, <1>2, <1>3, <1>4, <1>5, <1>7, <1>8 DEF Counted
  <2> QED BY <2>5, <2>6 DEF Counted
<1> QED BY <1>9, <1>10, <1>11, <1>12, <1>13, <1>14 DEF PoolInv

\* When the guest sees the counter at 0 nobody is at work, and everybody has run the task.
LEMMA NobodyLeft ==
  ASSUME AllParticipate, PoolInv, NEW g \in Threads, ClearTask(g)
  PROVE  /\ Guests = {g} /\ pc[g] = "spin" /\ is_busy /\ alive /\ ~GuestComing
         /\ \A t \in Threads : ~Working(t) /\ pc[t] \notin {"read", "task", "finish"}
         /\ \A w \in Workers : Coming(w)
         /\ \A t \in Crew : ran[t] # 0
<1>1. /\ PoolTypeOK /\ PlacesOK /\ CallsOK /\ ComingOK /\ TaskHeld /\ Counted
      /\ Threads = Workers \cup Guests /\ Workers \subseteq Threads /\ Crew \subseteq Threads
  BY PoolAssumption DEF PoolInv, Crew
<1>2. pc[g] = "spin" /\ task_remaining[ptask[g]] = 0
  BY DEF ClearTask
<1>3. g \in Guests /\ Guests = {g}
  <2>1. g \in Guests
    BY <1>1, <1>2 DEF PlacesOK
  <2> QED BY <2>1, PoolFacts
<1>4. is_busy /\ alive /\ ~stop_request /\ task_remaining[current_task] = 0
  BY <1>1, <1>2 DEF TaskHeld, CallsOK
<1>5. ~GuestComing
  <2>1. ~Coming(g)
    BY <1>2, ComingNotWorking
  <2> QED BY <1>3, <2>1 DEF GuestComing
<1>6. Owing = {}
  BY <1>1, <1>4, CrewSizes, FS_EmptySet DEF Counted
<1>7. \A t \in Threads : ~Working(t) /\ pc[t] \notin {"read", "task", "finish"}
  BY <1>5, <1>6 DEF Owing, Working
<1>8. \A w \in Workers : Coming(w)
  BY <1>1, <1>4, <1>7 DEF PlacesOK, CallsOK, Coming, Working
<1>9. \A t \in Crew : ran[t] # 0
  BY <1>1, <1>4, <1>5, <1>7 DEF Counted
<1> QED BY <1>2, <1>3, <1>4, <1>5, <1>7, <1>8, <1>9

\* The task is released.
LEMMA ClearKeeps ==
  ASSUME AllParticipate, PoolInv, NEW g \in Threads, ClearTask(g)
  PROVE  PoolInv'
<1>1. /\ PoolTypeOK /\ PlacesOK /\ CallsOK /\ ComingOK /\ TaskHeld
      /\ Guests = {g} /\ Threads = Workers \cup {g} /\ g \notin Workers
  BY NobodyLeft, PoolAssumption DEF PoolInv
<1>2. /\ pc[g] = "spin" /\ current_task' = NoTask
      /\ pc' = [pc EXCEPT ![g] = "idle"] /\ call' = [call EXCEPT ![g] = "none"]
      /\ UNCHANGED <<barrier_vars, task_remaining, stop_request, ptask, alive, started, ran>>
  BY DEF ClearTask, Goto
<1>3. /\ pc'[g] = "idle" /\ call'[g] = "none"
      /\ \A u \in Threads \ {g} : pc'[u] = pc[u] /\ call'[u] = call[u]
  BY <1>1, <1>2 DEF PoolTypeOK
<1>4. Arrived' = Arrived /\ at' = at
  BY <1>2 DEF barrier_vars, Arrived
<1>5. \A w \in Workers : Coming(w)'
  BY <1>1, <1>3, <1>4, NobodyLeft DEF Coming
<1>6. PoolTypeOK'
  BY <1>1, <1>2, PoolAssumption DEF PoolTypeOK, NoTask
<1>7. PlacesOK'
  BY <1>1, <1>2, <1>3, <1>4 DEF PlacesOK
<1>8. CallsOK'
  <2>1. ~stop_request /\ alive
    BY <1>1, NobodyLeft DEF CallsOK
  <2> QED BY <1>1, <1>2, <1>3, <2>1 DEF CallsOK, is_busy
<1>9. ComingOK'
  BY <1>5 DEF ComingOK
<1>10. TaskHeld'
  BY <1>1, <1>3, NobodyLeft DEF TaskHeld, PlacesOK
<1>11. Counted'
  BY <1>2 DEF Counted, is_busy
<1> QED BY <1>6, <1>7, <1>8, <1>9, <1>10, <1>11 DEF PoolInv

\* The pool is destroyed when the workers have ended.
LEMMA JoinKeeps ==
  ASSUME AllParticipate, PoolInv, NEW g \in Threads, Join(g)
  PROVE  PoolInv'
<1>1. /\ PoolTypeOK /\ PlacesOK /\ CallsOK /\ ComingOK /\ TaskHeld
      /\ Threads = Workers \cup Guests /\ pc[g] = "join"
  BY PoolAssumption DEF PoolInv, Join
<1>2. Guests = {g} /\ Threads = Workers \cup {g} /\ g \notin Workers
  <2>1. g \in Guests
    BY <1>1 DEF PlacesOK
  <2> QED BY <2>1, PoolFacts
<1>3. /\ stop_request' = FALSE /\ alive' = FALSE
      /\ pc' = [pc EXCEPT ![g] = "idle"] /\ call' = [call EXCEPT ![g] = "none"]
      /\ UNCHANGED <<barrier_vars, current_task, task_remaining, ptask, started, ran>>
  BY DEF Join, Goto
<1>4. /\ pc'[g] = "idle" /\ call'[g] = "none"
      /\ \A u \in Threads \ {g} : pc'[u] = pc[u] /\ call'[u] = call[u]
  BY <1>1, <1>3 DEF PoolTypeOK
<1>5. Arrived' = Arrived /\ at' = at
  BY <1>3 DEF barrier_vars, Arrived
<1>6. call[g] = "stop" /\ stop_request /\ ~is_busy
  BY <1>1, <1>2 DEF PlacesOK, CallsOK
<1>7. ~GuestComing'
  <2>1. g \notin Arrived
    BY <1>1, <1>2 DEF PlacesOK, Arrived
  <2> QED BY <1>2, <1>4, <1>5, <2>1 DEF GuestComing, Coming
<1>8. PoolTypeOK'
  BY <1>1, <1>3 DEF PoolTypeOK
<1>9. PlacesOK'
  BY <1>1, <1>2, <1>4, <1>5 DEF PlacesOK
<1>10. CallsOK'
  BY <1>2, <1>3, <1>4, <1>6 DEF CallsOK, is_busy
<1>11. ComingOK'
  BY <1>3, <1>7 DEF ComingOK
<1>12. TaskHeld'
  BY <1>1, <1>2, <1>3, <1>4 DEF TaskHeld, is_busy
<1>13. Counted'
  BY <1>3, <1>6 DEF Counted, is_busy
<1> QED BY <1>8, <1>9, <1>10, <1>11, <1>12, <1>13 DEF PoolInv

\* Every step of the pool is one of the barrier, or leaves it alone.
LEMMA PoolMovesBarrier == [Next]_vars => [BarrierNext]_barrier_vars
<1> SUFFICES ASSUME [Next]_vars PROVE [BarrierNext]_barrier_vars
  OBVIOUS
<1>1. ASSUME NEW t \in Threads, ThreadStep(t) \/ Spurious(t)
      PROVE  [BarrierNext]_barrier_vars
  <2>1. CASE Await(t) \/ AwaitLeave(t) \/ AwaitAgain(t) \/ Spurious(t)
    BY <2>1 DEF Await, AwaitLeave, AwaitAgain, Spurious, BarrierNext, Woken
  <2>2. CASE ReadTask(t) \/ RunTask(t) \/ FinishTask(t) \/ ClearTask(t) \/ Join(t)
    BY <2>2 DEF ReadTask, RunTask, FinishTask, ClearTask, Join
  <2> QED BY <1>1, <2>1, <2>2 DEF ThreadStep
<1>2. ASSUME NEW g \in Guests, GuestCall(g)
      PROVE  UNCHANGED barrier_vars
  BY <1>2 DEF GuestCall, Run, Launch, Sync, Destroy
<1>3. CASE Destroyed \/ UNCHANGED vars
  BY <1>3 DEF Destroyed, vars
<1> QED BY <1>1, <1>2, <1>3 DEF Next

\* The invariant of a pool that is not destroyed while busy is inductive.
LEMMA PoolStepKeeps ==
  ASSUME AllParticipate, IInv, PoolInv, [Next]_vars,
         \A g \in Guests : Destroy(g) => ~is_busy
  PROVE  PoolInv'
<1>1. ASSUME NEW t \in Threads, ThreadStep(t) \/ Spurious(t)
      PROVE  PoolInv'
  <2>1. CASE Await(t)
    BY <2>1, LastKeeps, EarlyKeeps DEF Await, Arrive
  <2>2. CASE AwaitAgain(t) \/ Spurious(t)
    <3>1. Arrived' = Arrived /\ UNCHANGED pool_vars
      BY <2>2, WakeEffect DEF AwaitAgain, Spurious
    <3>2. \A u \in Threads : at'[u] # "out" <=> at[u] # "out"
      BY <2>2 DEF AwaitAgain, Spurious, WaitAgain, SpuriousWakeup, IInv, BarrierTypeOK
    <3> QED BY <3>1, <3>2, StayKeeps
  <2>3. CASE AwaitLeave(t) \/ ReadTask(t) \/ RunTask(t)
    BY <2>3, LeaveKeeps, ReadKeeps, RunTaskKeeps
  <2>4. CASE FinishTask(t) \/ ClearTask(t) \/ Join(t)
    BY <2>4, FinishKeeps, ClearKeeps, JoinKeeps
  <2> QED BY <1>1, <2>1, <2>2, <2>3, <2>4 DEF ThreadStep
<1>2. ASSUME NEW g \in Guests, GuestCall(g)
      PROVE  PoolInv'
  BY <1>2, StartKeeps, SyncKeeps DEF GuestCall
<1>3. CASE Destroyed \/ UNCHANGED vars
  <2>1. UNCHANGED pool_vars /\ UNCHANGED barrier_vars
    BY <1>3 DEF Destroyed, vars
  <2>2. Arrived' = Arrived /\ at' = at
    BY <2>1 DEF barrier_vars, Arrived
  <2>3. \A u \in Threads : at'[u] # "out" <=> at[u] # "out"
    BY <2>2
  <2> QED BY <2>1, <2>2, <2>3, StayKeeps
<1> QED BY <1>1, <1>2, <1>3 DEF Next

\* Only the destructor of a busy pool gives one up.
LEMMA NotGivenUp ==
  ASSUME [Next]_vars, \A g \in Guests : Destroy(g) => ~is_busy
  PROVE  abandoned' <=> abandoned
<1>1. ASSUME NEW t \in Threads, ThreadStep(t) \/ Spurious(t)
      PROVE  abandoned' = abandoned
  BY <1>1 DEF ThreadStep, Await, AwaitLeave, AwaitAgain, ReadTask, RunTask, FinishTask,
              ClearTask, Join, Spurious, pool_vars
<1>2. ASSUME NEW g \in Guests, Destroy(g)
      PROVE  abandoned' <=> abandoned
  <2>1. abandoned' = (abandoned \/ is_busy)
    BY <1>2 DEF Destroy
  <2>2. ~is_busy
    BY <1>2
  <2> QED BY <2>1, <2>2, Zenon
<1>3. ASSUME NEW g \in Guests, Run(g) \/ Launch(g) \/ Sync(g)
      PROVE  abandoned' = abandoned
  BY <1>3 DEF Run, Launch, Sync
<1>4. CASE Destroyed \/ UNCHANGED vars
  BY <1>4 DEF Destroyed, vars, pool_vars
<1> QED BY <1>1, <1>2, <1>3, <1>4, Zenon DEF Next, GuestCall

\* The destructor gives up the task of a busy pool.
LEMMA DestroyGivesUp ==
  ASSUME AllParticipate, PoolInv, NEW g \in Guests, Destroy(g), is_busy
  PROVE  GivenUp' /\ abandoned'
<1>1. /\ PoolTypeOK /\ PlacesOK /\ Guests = {g} /\ g \in Threads /\ g \notin Workers
      /\ Workers \subseteq Threads
  BY PoolFacts, PoolAssumption DEF PoolInv
<1>2. /\ alive' /\ stop_request' /\ current_task' = NoTask /\ abandoned'
      /\ pc' = [pc EXCEPT ![g] = "await"] /\ call' = [call EXCEPT ![g] = "stop"]
  BY DEF Destroy, Enter, MayCall, Goto
<1> QED BY <1>1, <1>2 DEF GivenUp, PoolTypeOK, PlacesOK

\* Nobody can call into it, and its guest leaves the destructor only by the joins.
LEMMA GivenUpKeeps ==
  ASSUME AllParticipate, GivenUp, [Next]_vars
  PROVE  GivenUp' /\ (abandoned => abandoned') /\ (alive' = alive \/ ~alive')
         /\ (alive' => UNCHANGED call)
<1>1. PICK g \in Guests : Guests = {g} /\ Threads = Workers \cup {g} /\ g \in Threads /\ g \notin Workers
  BY OneGuest, PoolAssumption
<1>2. pc \in [Threads -> {"idle", "await", "blocked", "read", "task", "finish", "spin", "join", "done"}]
  BY DEF GivenUp
<1>3. \A t \in Threads : call[t] # "launch" /\ pc[t] # "spin"
  BY <1>1 DEF GivenUp
<1>4. ASSUME NEW t \in Threads, Await(t) \/ AwaitLeave(t)
      PROVE  /\ pc[t] \in {"await", "blocked"} /\ UNCHANGED <<call, current_task, stop_request, alive, abandoned>>
             /\ pc' = [pc EXCEPT ![t] = "read"] \/ pc' = [pc EXCEPT ![t] = "blocked"]
  <2>1. call' = [call EXCEPT ![t] = call[t]] => call' = call
    BY DEF GivenUp
  <2> QED BY <1>3, <1>4, <2>1 DEF Await, AwaitLeave, PassBarrier, AfterAwait, Goto
<1>5. ASSUME NEW t \in Threads, ThreadStep(t) \/ Spurious(t)
      PROVE  GivenUp' /\ abandoned' = abandoned /\ (alive' = alive \/ ~alive') /\ (alive' => UNCHANGED call)
  <2>1. CASE Await(t) \/ AwaitLeave(t)
    BY <1>1, <1>4, <2>1 DEF GivenUp
  <2>2. CASE AwaitAgain(t) \/ Spurious(t)
    BY <2>2 DEF AwaitAgain, Spurious, pool_vars, GivenUp
  <2>3. CASE ReadTask(t)
    <3>1. /\ pc[t] = "read" /\ UNCHANGED <<call, current_task, stop_request, alive, abandoned>>
          /\ pc' = [pc EXCEPT ![t] = IF stop_request THEN IF t \in Workers THEN "done" ELSE "join"
                                     ELSE IF t \in Workers THEN "await" ELSE "idle"]
      BY <2>3 DEF ReadTask, Goto, GivenUp
    <3> QED BY <1>1, <3>1 DEF GivenUp
  <2>4. CASE RunTask(t) \/ FinishTask(t)
    <3>1. /\ pc[t] \in {"task", "finish"} /\ UNCHANGED <<call, current_task, stop_request, alive, abandoned>>
          /\ \E p \in {"finish", "await", "spin"} : pc' = [pc EXCEPT ![t] = p] /\ (t \in Workers => p # "spin")
      BY <2>4 DEF RunTask, FinishTask, Goto
    <3> QED BY <1>1, <3>1 DEF GivenUp
  <2>5. CASE ClearTask(t)
    BY <1>3, <2>5 DEF ClearTask
  <2>6. CASE Join(t)
    <3>1. /\ pc[t] = "join" /\ alive' = FALSE /\ UNCHANGED <<current_task, abandoned>>
          /\ pc' = [pc EXCEPT ![t] = "idle"] /\ call' = [call EXCEPT ![t] = "none"]
      BY <2>6 DEF Join, Goto
    <3>2. t = g
      BY <1>1, <3>1 DEF GivenUp
    <3> QED BY <1>1, <3>1, <3>2 DEF GivenUp
  <2> QED BY <1>5, <2>1, <2>2, <2>3, <2>4, <2>5, <2>6 DEF ThreadStep
<1>6. ASSUME NEW h \in Guests, GuestCall(h)
      PROVE  FALSE
  <2>1. alive /\ pc[h] = "idle"
    BY <1>6 DEF GuestCall, Run, Launch, Sync, Destroy, Enter, MayCall
  <2> QED BY <2>1 DEF GivenUp
<1>7. CASE Destroyed \/ UNCHANGED vars
  BY <1>7 DEF Destroyed, vars, pool_vars, GivenUp
<1> QED BY <1>5, <1>6, <1>7 DEF Next

\* The invariant is inductive.
LEMMA PoolAlwaysKeeps ==
  ASSUME AllParticipate, PoolAlways, [Next]_vars
  PROVE  PoolAlways'
<1>1. IInv'
  BY PoolMovesBarrier, NextInv DEF PoolAlways
<1>2. CASE abandoned
  BY <1>1, <1>2, GivenUpKeeps DEF PoolAlways
<1>3. CASE ~abandoned /\ \E g \in Guests : Destroy(g) /\ is_busy
  BY <1>1, <1>3, DestroyGivesUp DEF PoolAlways
<1>4. CASE ~abandoned /\ \A g \in Guests : Destroy(g) => ~is_busy
  BY <1>1, <1>4, PoolStepKeeps, NotGivenUp DEF PoolAlways
<1> QED BY <1>2, <1>3, <1>4

\* It holds in every state.
LEMMA PoolInvariant ==
  ASSUME AllParticipate
  PROVE  Spec => []PoolAlways
<1>1. Init => PoolAlways
  BY InitInv, PoolStarts DEF Init, PoolAlways
<1>2. PoolAlways /\ [Next]_vars => PoolAlways'
  BY PoolAlwaysKeeps
<1> QED BY <1>1, <1>2, PTL DEF Spec

\* NoDanglingTask: the task a thread runs, counts down or spins on is the current one,
\* which the guest frees only when the counter says that all are through.  Only the
\* destructor of a busy pool, which asks nobody, frees it earlier.
THEOREM PoolNoDangling ==
  ASSUME AllParticipate
  PROVE  Spec => []NoDanglingTask
<1>1. PoolAlways => NoDanglingTask
  BY DEF PoolAlways, PoolInv, TaskHeld, NoDanglingTask
<1> QED BY <1>1, PoolInvariant, PTL

\* The destructor has been called.
Closed == ~alive \/ \E g \in Guests : call[g] = "stop"

\* What call does in a step of a thread in the barrier does not change the crew.
LEMMA BarrierKeepsCrew ==
  ASSUME PoolTypeOK, NEW t \in Threads, Await(t) \/ AwaitLeave(t)
  PROVE  Crew' = Crew /\ Closed' = Closed /\ UNCHANGED <<current_task, ran>>
<1>1. UNCHANGED <<current_task, ran, alive>>
  BY DEF Await, AwaitLeave
<1>2. UNCHANGED call \/ call' = [call EXCEPT ![t] = IF call[t] = "launch" THEN "none" ELSE call[t]]
  BY DEF Await, AwaitLeave, PassBarrier
<1>3. \A u \in Threads : /\ call'[u] = "run" <=> call[u] = "run"
                         /\ call'[u] = "stop" <=> call[u] = "stop"
  BY <1>2 DEF PoolTypeOK
<1> QED BY <1>1, <1>3, PoolAssumption DEF Crew, Closed

\* Every step of a pool that is not given up is one of the abstract pool, or none.
LEMMA PoolStepRefines ==
  ASSUME AllParticipate, IInv, PoolInv, [Next]_vars
  PROVE  [Pool!PoolNext]_(Pool!pvars)
<1> DEFINE Pending == IF is_busy THEN {t \in Crew : ran[t] = 0} ELSE {}
<1>t. PoolTypeOK /\ PlacesOK /\ CallsOK /\ Counted
  BY DEF PoolInv
<1>s. ASSUME current_task' = current_task, Pending' = Pending, Closed' = Closed
      PROVE  [Pool!PoolNext]_(Pool!pvars)
  BY <1>s DEF Pool!pvars, Closed
<1>u. ASSUME UNCHANGED <<current_task, ran>>, Crew' = Crew, Closed' = Closed
      PROVE  [Pool!PoolNext]_(Pool!pvars)
  BY <1>s, <1>u DEF is_busy
<1>1. ASSUME NEW t \in Threads, ThreadStep(t) \/ Spurious(t)
      PROVE  [Pool!PoolNext]_(Pool!pvars)
  <2>1. CASE Await(t) \/ AwaitLeave(t)
    BY <1>t, <1>u, <2>1, BarrierKeepsCrew
  <2>2. CASE AwaitAgain(t) \/ Spurious(t) \/ ReadTask(t) \/ FinishTask(t)
    BY <1>u, <2>2 DEF AwaitAgain, Spurious, ReadTask, FinishTask, pool_vars, Crew, Closed
  <2>3. CASE RunTask(t)
    <3>1. /\ pc[t] = "task" /\ ran' = [ran EXCEPT ![t] = @ + 1] /\ Crew' = Crew
          /\ Closed' = Closed /\ UNCHANGED current_task
      BY <2>3 DEF RunTask, Crew, Closed
    <3>2. ~GuestComing /\ Working(t) /\ t \in Crew /\ is_busy
      BY <3>1, NoGuestComing
    <3>3. ran[t] = 0
      BY <1>t, <3>1, <3>2 DEF Counted
    <3>4. ran'[t] # 0 /\ \A u \in Threads \ {t} : ran'[u] = ran[u]
      BY <1>t, <3>1 DEF PoolTypeOK
    <3>5. Crew \subseteq Threads /\ is_busy'
      BY <3>1, <3>2, PoolAssumption DEF Crew, is_busy
    <3>6. t \in Pending /\ Pending' = Pending \ {t}
      BY <3>1, <3>2, <3>3, <3>4, <3>5
    <3>7. Pool!Execute(t)
      BY <3>1, <3>6 DEF Pool!Execute, Closed
    <3> QED BY <3>7, PoolAssumption DEF Pool!PoolNext
  <2>4. CASE ClearTask(t)
    <3>1. current_task' = 0 /\ current_task # 0
      BY <2>4, NobodyLeft DEF ClearTask, NoTask, is_busy
    <3>2. Pending = {} /\ Pending' = {}
      BY <2>4, <3>1, NobodyLeft DEF is_busy, NoTask
    <3>3. Closed' = Closed
      <4>1. /\ Guests = {t} /\ pc[t] = "spin" /\ alive /\ alive' = alive
            /\ call' = [call EXCEPT ![t] = "none"]
        BY <2>4, NobodyLeft DEF ClearTask
      <4>2. call[t] # "stop"
        BY <1>t, <4>1 DEF PlacesOK
      <4> QED BY <1>t, <4>1, <4>2, PoolAssumption DEF Closed, PoolTypeOK
    <3>4. Pool!Release
      BY <3>1, <3>2, <3>3 DEF Pool!Release, Closed
    <3> QED BY <3>4 DEF Pool!PoolNext
  <2>5. CASE Join(t)
    <3>1. UNCHANGED current_task /\ pc[t] = "join" /\ ~alive'
      BY <2>5 DEF Join
    <3>2. t \in Guests /\ call[t] = "stop" /\ ~is_busy
      BY <1>t, <3>1, PoolAssumption DEF PlacesOK, CallsOK
    <3>3. Pending = {} /\ Pending' = {}
      BY <3>1, <3>2 DEF is_busy
    <3>4. Closed /\ Closed'
      BY <3>1, <3>2 DEF Closed
    <3> QED BY <1>s, <3>1, <3>3, <3>4
  <2> QED BY <1>1, <2>1, <2>2, <2>3, <2>4, <2>5 DEF ThreadStep
<1>2. ASSUME NEW g \in Guests, GuestCall(g)
      PROVE  [Pool!PoolNext]_(Pool!pvars)
  <2>1. Guests = {g} /\ g \in Threads /\ g \notin Workers /\ Threads = Workers \cup {g}
    BY PoolFacts, PoolAssumption
  <2>c. ~Closed
    <3>1. alive /\ pc[g] = "idle"
      BY <1>2 DEF GuestCall, Run, Launch, Sync, Destroy, Enter, MayCall
    <3> QED BY <1>t, <2>1, <3>1 DEF Closed, PlacesOK
  <2>2. CASE Run(g) \/ Launch(g)
    <3>0. alive' = alive
      BY <2>2 DEF Run, Launch
    <3>1. /\ current_task = 0 /\ current_task' = started + 1 /\ ran' = [t \in Threads |-> 0]
          /\ call' = [call EXCEPT ![g] = IF Run(g) THEN "run" ELSE "launch"]
      <4>1. CASE Run(g)
        BY <4>1 DEF Run, Enter, MakeTask, is_busy, NoTask
      <4>2. CASE Launch(g) /\ ~Run(g)
        BY <4>2 DEF Launch, Enter, MakeTask, is_busy, NoTask
      <4> QED BY <2>2, <4>1, <4>2
    <3>2. current_task' \in Nat \ {0} /\ is_busy'
      BY <1>t, <3>1 DEF PoolTypeOK, is_busy, NoTask
    <3>3. Crew' = Workers \cup {h \in Guests : Run(g)}
      BY <1>t, <2>1, <3>1 DEF Crew, PoolTypeOK
    <3>4. Pending' = Workers \cup {h \in Guests : Run(g)}
      BY <2>1, <3>1, <3>2, <3>3
    <3>5. ~Closed'
      BY <1>t, <2>1, <2>c, <3>0, <3>1 DEF Closed, PoolTypeOK
    <3>6. Pool!Start
      BY <2>c, <3>1, <3>2, <3>4, <3>5 DEF Pool!Start, Closed
    <3> QED BY <3>6 DEF Pool!PoolNext
  <2>3. CASE Sync(g)
    <3>1. /\ UNCHANGED <<current_task, ran, alive>> /\ pc[g] = "idle"
          /\ call' = [call EXCEPT ![g] = "sync"]
      BY <2>3 DEF Sync, Enter, MayCall
    <3>2. call[g] = "none"
      BY <1>t, <3>1 DEF PlacesOK
    <3>3. Crew' = Crew /\ Closed' = Closed
      BY <1>t, <2>1, <3>1, <3>2 DEF Crew, Closed, PoolTypeOK
    <3> QED BY <1>u, <3>1, <3>3
  <2>4. CASE Destroy(g)
    <3>1. current_task' = 0 /\ call' = [call EXCEPT ![g] = "stop"]
      BY <2>4 DEF Destroy, Enter, NoTask
    <3>2. Pending' = {}
      BY <3>1 DEF is_busy, NoTask
    <3>3. Closed'
      BY <1>t, <2>1, <3>1 DEF Closed, PoolTypeOK
    <3>4. Pool!Close
      BY <2>c, <3>1, <3>2, <3>3 DEF Pool!Close, Closed
    <3> QED BY <3>4 DEF Pool!PoolNext
  <2> QED BY <1>2, <2>2, <2>3, <2>4 DEF GuestCall
<1>3. CASE Destroyed \/ UNCHANGED vars
  BY <1>u, <1>3 DEF Destroyed, vars, pool_vars, Crew, Closed
<1> QED BY <1>1, <1>2, <1>3 DEF Next

\* A pool that is given up stays so.
LEMMA GivenUpRefines ==
  ASSUME AllParticipate, GivenUp, [Next]_vars
  PROVE  [Pool!PoolNext]_(Pool!pvars)
<1>1. GivenUp' /\ (alive' = alive \/ ~alive') /\ (alive' => UNCHANGED call)
  BY GivenUpKeeps
<1>2. ~is_busy /\ ~is_busy' /\ current_task' = current_task
  BY <1>1 DEF GivenUp, is_busy
<1>3. PICK g \in Guests : Guests = {g}
  BY OneGuest
<1>4. Closed /\ Closed'
  BY <1>1, <1>3 DEF GivenUp, Closed
<1> QED BY <1>2, <1>4 DEF Pool!pvars, Closed

\* ImplementsPool: run and sync return, and a task is released, only when every member of
\* the crew has run the task once, or the destructor gives it up; no task starts then.
THEOREM PoolImplements ==
  ASSUME AllParticipate
  PROVE  Spec => ImplementsPool
<1>1. Init => Pool!PoolInit
  <2> SUFFICES ASSUME Init PROVE Pool!PoolInit
    OBVIOUS
  <2>1. current_task = 0 /\ ~is_busy
    BY DEF Init, NoTask, is_busy
  <2>2. ~Closed
    BY PoolAssumption DEF Init, Closed
  <2>3. Closed = FALSE
    BY <2>2 DEF Closed
  <2> QED BY <2>1, <2>3 DEF Pool!PoolInit, Closed
<1>2. PoolAlways /\ [Next]_vars => [Pool!PoolNext]_(Pool!pvars)
  BY PoolStepRefines, GivenUpRefines DEF PoolAlways
<1> QED
  BY <1>1, <1>2, PoolInvariant, PTL DEF Spec, ImplementsPool, Pool!PoolSpec

--------------------------------------------------------------------------------
\* A run over a task list: where the threads are in the list follows from where they are
\* in the pool.
ListOK ==
  /\ \A t \in Threads : step[t] = "work" => pc[t] = "task"
  /\ \A t \in Threads : pc[t] = "finish" => step[t] = "returned"
  /\ \A g \in Guests : call[g] = "run" /\ pc[g] = "spin" => step[g] = "returned"

\* Here a task is there only during a run, so the destructor finds none.
OnlyRuns == is_busy => \A g \in Guests : call[g] = "run"

RunInv == IInv /\ PoolInv /\ TaskInv /\ ListOK /\ OnlyRuns

\* The pool takes its own steps.
LEMMA RunMovesPool == [RunNext]_run_vars => [Next]_vars
<1>1. \A t \in Threads : PoolStep(t) \/ LeaveTasks(t) => ThreadStep(t)
  BY DEF PoolStep, LeaveTasks, ThreadStep
<1>2. \A t \in Threads : InTasks(t) => UNCHANGED vars
  BY DEF InTasks
<1>3. \A g \in Guests : RunTasks(g) => Run(g)
  BY DEF RunTasks
<1> QED BY <1>1, <1>2, <1>3 DEF RunNext, run_vars, Next, GuestCall

\* A step of the pool that neither starts nor ends the run of a task.
LEMMA PoolStepList ==
  ASSUME RunInv, UNCHANGED task_vars,
         (\E t \in Threads : PoolStep(t) \/ Spurious(t)) \/ (\E g \in Guests : Destroy(g))
           \/ Destroyed \/ UNCHANGED vars
  PROVE  TaskInv' /\ ListOK'
<1>1. PoolTypeOK /\ PlacesOK /\ ListOK /\ Guests \subseteq Threads /\ Workers \cap Guests = {}
  BY PoolAssumption DEF RunInv, PoolInv
<1>2. TaskInv' /\ step' = step
  BY TaskNextInv DEF RunInv, task_vars
<1>3. CASE UNCHANGED <<pc, call>>
  BY <1>1, <1>2, <1>3 DEF ListOK
<1>4. ASSUME NEW t \in Threads, Await(t) \/ AwaitLeave(t) \/ ReadTask(t)
      PROVE  ListOK'
  <2>1. /\ pc[t] \in {"await", "blocked", "read"}
        /\ \E p \in {"blocked", "idle", "read", "done", "join", "task", "await"} : pc' = [pc EXCEPT ![t] = p]
    BY <1>4 DEF Await, AwaitLeave, ReadTask, PassBarrier, AfterAwait, Goto
  <2>2. /\ pc'[t] \in {"blocked", "idle", "read", "done", "join", "task", "await"}
        /\ \A u \in Threads \ {t} : pc'[u] = pc[u]
    BY <1>1, <2>1 DEF PoolTypeOK
  <2>3. UNCHANGED call \/ call' = [call EXCEPT ![t] = IF call[t] = "launch" THEN "none" ELSE call[t]]
    BY <1>4 DEF Await, AwaitLeave, ReadTask, PassBarrier
  <2>4. \A u \in Threads : call'[u] = "run" => call[u] = "run"
    BY <1>1, <2>3 DEF PoolTypeOK
  <2> QED BY <1>1, <1>2, <2>1, <2>2, <2>4 DEF ListOK
<1>5. ASSUME NEW t \in Threads, FinishTask(t)
      PROVE  ListOK'
  <2>1. pc[t] = "finish" /\ pc' = [pc EXCEPT ![t] = IF t \in Workers THEN "await" ELSE "spin"] /\ call' = call
    BY <1>5 DEF FinishTask, Goto
  <2>2. /\ pc'[t] = IF t \in Workers THEN "await" ELSE "spin"
        /\ \A u \in Threads \ {t} : pc'[u] = pc[u]
    BY <1>1, <2>1 DEF PoolTypeOK
  <2> QED BY <1>1, <1>2, <2>1, <2>2 DEF ListOK
<1>6. ASSUME NEW t \in Threads, ClearTask(t) \/ Join(t)
      PROVE  ListOK'
  <2>1. /\ pc[t] \in {"spin", "join"} /\ pc' = [pc EXCEPT ![t] = "idle"] /\ call' = [call EXCEPT ![t] = "none"]
    BY <1>6 DEF ClearTask, Join, Goto
  <2>2. /\ pc'[t] = "idle" /\ call'[t] = "none"
        /\ \A u \in Threads \ {t} : pc'[u] = pc[u] /\ call'[u] = call[u]
    BY <1>1, <2>1 DEF PoolTypeOK
  <2> QED BY <1>1, <1>2, <2>1, <2>2 DEF ListOK
<1>7. ASSUME NEW g \in Guests, Destroy(g)
      PROVE  ListOK'
  <2>1. pc[g] = "idle" /\ pc' = [pc EXCEPT ![g] = "await"] /\ call' = [call EXCEPT ![g] = "stop"]
    BY <1>7 DEF Destroy, Enter, MayCall, Goto
  <2>2. /\ pc'[g] = "await" /\ call'[g] = "stop"
        /\ \A u \in Threads \ {g} : pc'[u] = pc[u] /\ call'[u] = call[u]
    BY <1>1, <2>1 DEF PoolTypeOK
  <2> QED BY <1>1, <1>2, <2>1, <2>2 DEF ListOK
<1>8. \A t \in Threads : AwaitAgain(t) \/ Spurious(t) => UNCHANGED <<pc, call>>
  BY DEF AwaitAgain, Spurious, pool_vars
<1>9. Destroyed \/ UNCHANGED vars => UNCHANGED <<pc, call>>
  BY DEF Destroyed, vars, pool_vars
<1> QED BY <1>2, <1>3, <1>4, <1>5, <1>6, <1>7, <1>8, <1>9 DEF PoolStep

\* A fresh list for a pool at rest.
LEMMA FreshList ==
  ASSUME AllParticipate, RunInv, NEW g \in Guests, RunTasks(g)
  PROVE  TaskInv' /\ ListOK'
<1>1. TaskInit'
  BY RunAssumption DEF RunTasks, TaskInit
<1>2. TaskInv'
  BY <1>1, RunAssumption, TaskPoolAssumption
     DEF TaskInit, TaskInv, TaskTypeOK, Exclusive, Handed, TaskIds
<1>3. ~is_busy /\ pc' = [pc EXCEPT ![g] = "await"]
  BY DEF RunTasks, Run, Enter, Goto
<1>4. PoolTypeOK /\ TaskHeld /\ Guests \subseteq Threads
  BY PoolAssumption DEF RunInv, PoolInv
<1>5. \A t \in Threads : pc'[t] \notin {"task", "finish", "spin"}
  BY <1>3, <1>4 DEF PoolTypeOK, TaskHeld
<1>6. \A t \in Threads : step'[t] = "fetch"
  BY DEF RunTasks
<1> QED BY <1>2, <1>4, <1>5, <1>6 DEF ListOK

\* A step inside of the list, and the way out of it.
LEMMA ListStep ==
  ASSUME RunInv, NEW t \in Threads, InTasks(t) \/ LeaveTasks(t)
  PROVE  TaskInv' /\ ListOK'
<1>1. /\ PoolTypeOK /\ PlacesOK /\ TaskInv /\ ListOK /\ Guests \subseteq Threads /\ t \in Callers
      /\ step \in [Threads -> {"fetch", "work", "returned"}]
  BY PoolAssumption, RunAssumption DEF RunInv, PoolInv, TaskInv, TaskTypeOK
<1>2. CASE InTasks(t)
  <2>1. pc[t] = "task" /\ UNCHANGED <<pc, call>> /\ (FetchTask(t) \/ ExecuteTask(t))
    BY <1>2 DEF InTasks, vars, pool_vars
  <2>2. TaskInv'
    BY <1>1, <2>1, FetchInv, ExecuteInv
  <2>3. \A u \in Threads \ {t} : step'[u] = step[u]
    BY <1>1, <2>1 DEF FetchTask, ExecuteTask
  <2> QED BY <1>1, <2>1, <2>2, <2>3 DEF ListOK
<1>3. CASE LeaveTasks(t)
  <2>1. /\ step[t] = "returned" /\ pc[t] = "task" /\ pc' = [pc EXCEPT ![t] = "finish"]
        /\ UNCHANGED <<task_vars, call>>
    BY <1>3 DEF LeaveTasks, RunTask, Goto
  <2>2. TaskInv' /\ step' = step
    BY <1>1, <2>1, TaskNextInv DEF task_vars
  <2>3. pc'[t] = "finish" /\ \A u \in Threads \ {t} : pc'[u] = pc[u]
    BY <1>1, <2>1 DEF PoolTypeOK
  <2> QED BY <1>1, <2>1, <2>2, <2>3 DEF ListOK
<1> QED BY <1>2, <1>3

\* The call of run holds the task to the end.
LEMMA RunsOnly ==
  ASSUME AllParticipate, RunInv, [RunNext]_run_vars
  PROVE  OnlyRuns' /\ \A g \in Guests : Destroy(g) => ~is_busy
<1>1. PICK g \in Guests : Guests = {g} /\ g \in Threads /\ g \notin Workers
  BY OneGuest, PoolAssumption
<1>2. PoolTypeOK /\ PlacesOK /\ OnlyRuns
  BY DEF RunInv, PoolInv
<1>3. \A h \in Guests : Destroy(h) => ~is_busy
  BY <1>2 DEF Destroy, Enter, MayCall, OnlyRuns, PlacesOK
<1>s. ASSUME UNCHANGED current_task, call'[g] = call[g]
      PROVE  OnlyRuns'
  BY <1>1, <1>2, <1>s DEF OnlyRuns, is_busy
<1>4. ASSUME NEW t \in Threads, PoolStep(t)
      PROVE  OnlyRuns'
  <2>1. CASE Await(t) \/ AwaitLeave(t)
    <3>1. /\ UNCHANGED current_task
          /\ UNCHANGED call \/ call' = [call EXCEPT ![t] = IF call[t] = "launch" THEN "none" ELSE call[t]]
      BY <2>1 DEF Await, AwaitLeave, PassBarrier
    <3>2. call[g] = "run" => call'[g] = "run"
      BY <1>1, <1>2, <3>1 DEF PoolTypeOK
    <3> QED BY <1>1, <1>2, <3>1, <3>2 DEF OnlyRuns, is_busy
  <2>2. CASE AwaitAgain(t) \/ ReadTask(t) \/ FinishTask(t)
    BY <1>s, <2>2 DEF AwaitAgain, ReadTask, FinishTask, pool_vars
  <2>3. CASE ClearTask(t)
    BY <2>3 DEF ClearTask, OnlyRuns, is_busy
  <2>4. CASE Join(t)
    <3>1. pc[t] = "join" /\ UNCHANGED current_task
      BY <2>4 DEF Join
    <3>2. t \in Guests /\ call[t] = "stop"
      BY <1>2, <3>1, PoolAssumption DEF PlacesOK
    <3> QED BY <1>2, <3>1, <3>2 DEF OnlyRuns, is_busy
  <2> QED BY <1>4, <2>1, <2>2, <2>3, <2>4 DEF PoolStep
<1>5. ASSUME NEW t \in Threads, InTasks(t) \/ LeaveTasks(t) \/ Spurious(t)
      PROVE  OnlyRuns'
  BY <1>s, <1>5 DEF InTasks, LeaveTasks, RunTask, Spurious, vars, pool_vars
<1>6. ASSUME NEW h \in Guests, RunTasks(h)
      PROVE  OnlyRuns'
  BY <1>1, <1>2, <1>6 DEF RunTasks, Run, Enter, OnlyRuns, PoolTypeOK
<1>7. ASSUME NEW h \in Guests, Destroy(h)
      PROVE  OnlyRuns'
  BY <1>7 DEF Destroy, OnlyRuns, is_busy
<1>8. ASSUME Destroyed \/ UNCHANGED vars
      PROVE  OnlyRuns'
  BY <1>s, <1>8 DEF Destroyed, vars, pool_vars
<1> QED BY <1>3, <1>4, <1>5, <1>6, <1>7, <1>8 DEF RunNext, run_vars

\* The invariant of the composition.
LEMMA RunInvariant ==
  ASSUME AllParticipate
  PROVE  RunSpec => []RunInv
<1>1. RunInit => RunInv
  <2> SUFFICES ASSUME RunInit PROVE RunInv
    OBVIOUS
  <2>1. IInv /\ PoolInv /\ TaskInv
    BY InitInv, PoolStarts, TaskInitInv DEF RunInit, Init
  <2>2. ListOK
    BY RunAssumption, PoolAssumption DEF RunInit, Init, TaskInit, ListOK
  <2>3. OnlyRuns
    BY DEF RunInit, Init, OnlyRuns, is_busy
  <2> QED BY <2>1, <2>2, <2>3 DEF RunInv
<1>2. RunInv /\ [RunNext]_run_vars => RunInv'
  <2> SUFFICES ASSUME RunInv, [RunNext]_run_vars PROVE RunInv'
    OBVIOUS
  <2>1. OnlyRuns' /\ \A g \in Guests : Destroy(g) => ~is_busy
    BY RunsOnly
  <2>3. IInv' /\ PoolInv'
    BY <2>1, RunMovesPool, PoolMovesBarrier, NextInv, PoolStepKeeps DEF RunInv
  <2>2. TaskInv' /\ ListOK'
    BY PoolStepList, FreshList, ListStep DEF RunNext, PoolStep, run_vars
  <2> QED BY <2>1, <2>2, <2>3 DEF RunInv
<1> QED BY <1>1, <1>2, PTL DEF RunSpec

\* CompleteOnReturn: when run returns, every task of the list was executed once and no
\* thread is inside of the list, which its owner destroys next.
THEOREM RunComplete ==
  ASSUME AllParticipate
  PROVE  RunSpec => CompleteOnReturn
<1>1. ASSUME RunInv, [RunNext]_run_vars, NEW g \in Guests, call[g] = "run", call'[g] = "none"
      PROVE  /\ \A i \in TaskIds : executed[i] = 1
             /\ \A t \in Threads : pc[t] # "task"
  <2>1. /\ PoolInv /\ PoolTypeOK /\ PlacesOK /\ TaskInv /\ ListOK /\ g \in Threads
        /\ Guests = {g} /\ g \notin Workers
    BY <1>1, PoolFacts, PoolAssumption DEF RunInv, PoolInv
  <2>2. ClearTask(g)
    <3>1. [Next]_vars
      BY <1>1, RunMovesPool
    <3>2. call' # call
      BY <1>1
    <3>3. ASSUME NEW t \in Threads, ThreadStep(t) \/ Spurious(t)
          PROVE  ClearTask(g)
      <4>1. CASE Await(t) \/ AwaitLeave(t)
        <5>1. UNCHANGED call \/ call' = [call EXCEPT ![t] = IF call[t] = "launch" THEN "none" ELSE call[t]]
          BY <4>1 DEF Await, AwaitLeave, PassBarrier
        <5> QED BY <1>1, <2>1, <5>1 DEF PoolTypeOK
      <4>2. CASE AwaitAgain(t) \/ Spurious(t) \/ ReadTask(t) \/ RunTask(t) \/ FinishTask(t)
        BY <3>2, <4>2 DEF AwaitAgain, Spurious, ReadTask, RunTask, FinishTask, pool_vars
      <4>3. CASE ClearTask(t)
        BY <2>1, <4>3, NobodyLeft
      <4>4. CASE Join(t)
        <5>1. pc[t] = "join" /\ call' = [call EXCEPT ![t] = "none"]
          BY <4>4 DEF Join
        <5>2. t # g
          BY <1>1, <2>1, <5>1 DEF PlacesOK
        <5> QED BY <1>1, <2>1, <5>1, <5>2 DEF PoolTypeOK
      <4> QED BY <3>3, <4>1, <4>2, <4>3, <4>4 DEF ThreadStep
    <3>4. ASSUME GuestCall(g)
          PROVE  FALSE
      <4>1. pc[g] = "idle"
        BY <3>4 DEF GuestCall, Run, Launch, Sync, Destroy, Enter, MayCall
      <4> QED BY <1>1, <2>1, <4>1 DEF PlacesOK
    <3>5. Destroyed => call' = call
      BY DEF Destroyed, vars, pool_vars
    <3> QED BY <2>1, <3>1, <3>2, <3>3, <3>4, <3>5 DEF Next, vars, pool_vars
  <2>3. \A t \in Threads : pc[t] # "task"
    BY <2>1, <2>2, NobodyLeft
  <2>4. step[g] = "returned"
    BY <1>1, <2>1, <2>2, NobodyLeft DEF ListOK
  <2>5. \A i \in TaskIds : executed[i] = 1
    BY <2>1, <2>3, <2>4, TaskInvComplete, RunAssumption DEF ListOK, NothingLeft
  <2> QED BY <2>3, <2>5
<1>2. RunInv /\ [RunNext]_run_vars
        => [\A g \in Guests : call[g] = "run" /\ call'[g] = "none" =>
              /\ \A i \in TaskIds : executed[i] = 1
              /\ \A t \in Threads : pc[t] # "task"]_run_vars
  BY <1>1
<1> QED BY <1>2, RunInvariant, PTL DEF RunSpec, CompleteOnReturn
================================================================================
